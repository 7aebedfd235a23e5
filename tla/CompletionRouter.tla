-------------------------- MODULE CompletionRouter --------------------------
(***************************************************************************)
(* The router that carries the news of settled turns and finished          *)
(* workflows to the agents waiting for them.  Several paths can report one *)
(* settlement: the token folds them.  Each recipient has a FIFO of         *)
(* deliveries; a delivery is prepared, then submitted up to Attempts       *)
(* times, and each of those calls races a timer.                           *)
(*                                                                         *)
(* A submission can take effect in the recipient at any moment until it is *)
(* answered, and, when the timer won, later still.                         *)
(***************************************************************************)
EXTENDS Naturals, Sequences, FiniteSets

CONSTANTS
  Reports,      \* the calls of deliver() and deliverRuntime()
  Recipients,   \* the initiators they are addressed to
  Tokens,       \* the identities of completed turns (RuntimeCompletion)
  NoToken,      \* the token of a failed or stopped turn and of a workflow
  TokenOf, RecipientOf,
  Attempts      \* MAX_DELIVERY_ATTEMPTS

ASSUME RouterAssumption ==
  /\ NoToken \notin Tokens
  /\ TokenOf \in [Reports -> Tokens \cup {NoToken}]
  /\ RecipientOf \in [Reports -> Recipients]
  /\ Attempts \in Nat \ {0}
  \* "no code path produces two different recipients for the same RuntimeCompletion"
  /\ \A a, b \in Reports :
       TokenOf[a] = TokenOf[b] /\ TokenOf[a] # NoToken => RecipientOf[a] = RecipientOf[b]

VARIABLES
  closing,     \* the dispatcher's work fence
  folded,      \* completions: the tokens that have a delivery
  tail,        \* recipientTails: deliveries not over yet, the running one first
  pc,          \* where each report stands
  attempt,     \* the number of the submission under way
  effect,      \* what that submission did in the recipient: "none" or "taken"
  late,        \* submissions given up by the timer that may still take effect
  mail,        \* what each recipient took, in order
  order        \* every report that was queued, in order (history)

vars == <<closing, folded, tail, pc, attempt, effect, late, mail, order>>

Elements(s) == {s[i] : i \in 1..Len(s)}

Init ==
  /\ closing = FALSE /\ folded = {}
  /\ tail = [r \in Recipients |-> <<>>]
  /\ pc = [m \in Reports |-> "idle"]
  /\ attempt = [m \in Reports |-> 0]
  /\ effect = [m \in Reports |-> "none"]
  /\ late = {}
  /\ mail = [r \in Recipients |-> <<>>]
  /\ order = <<>>

----------------------------------------
(* deliverRuntime(): the fence, the fold, the queue                        *)

Fence ==
  /\ ~closing /\ closing' = TRUE
  /\ UNCHANGED <<folded, tail, pc, attempt, effect, late, mail, order>>

\* News that comes behind the fence is for an owner being torn down.
ReportDropped(m) ==
  /\ pc[m] = "idle" /\ closing
  /\ pc' = [pc EXCEPT ![m] = "dropped"]
  /\ UNCHANGED <<closing, folded, tail, attempt, effect, late, mail, order>>

\* The settlement already has a delivery, which this report shares.
ReportFolded(m) ==
  /\ pc[m] = "idle" /\ ~closing /\ TokenOf[m] \in folded
  /\ pc' = [pc EXCEPT ![m] = "folded"]
  /\ UNCHANGED <<closing, folded, tail, attempt, effect, late, mail, order>>

\* The settlements that have a delivery, after this report.
Folds(m) == IF TokenOf[m] = NoToken THEN folded ELSE folded \cup {TokenOf[m]}

ReportQueued(m) ==
  /\ pc[m] = "idle" /\ ~closing /\ TokenOf[m] \notin folded
  /\ folded' = Folds(m)
  /\ tail' = [tail EXCEPT ![RecipientOf[m]] = Append(@, m)]
  /\ pc' = [pc EXCEPT ![m] = "queued"]
  /\ order' = Append(order, m)
  /\ UNCHANGED <<closing, attempt, effect, late, mail>>

----------------------------------------
(* deliverPrepared(): one preparation, at most Attempts submissions        *)

\* The delivery the recipient's tail has come to.
Turn(m) == tail[RecipientOf[m]] # <<>> /\ Head(tail[RecipientOf[m]]) = m

\* The delivery is over, accepted or given up, and the next one begins.
Over(m) ==
  /\ pc' = [pc EXCEPT ![m] = "over"]
  /\ tail' = [tail EXCEPT ![RecipientOf[m]] = SelectSeq(@, LAMBDA x : x # m)]

Prepare(m) ==
  /\ pc[m] = "queued" /\ Turn(m)
  /\ pc' = [pc EXCEPT ![m] = "preparing"]
  /\ UNCHANGED <<closing, folded, tail, attempt, effect, late, mail, order>>

\* The recipient has prepared the submission, and the first attempt is made.
Prepared(m) ==
  /\ pc[m] = "preparing"
  /\ pc' = [pc EXCEPT ![m] = "submitting"]
  /\ attempt' = [attempt EXCEPT ![m] = 1]
  /\ UNCHANGED <<closing, folded, tail, effect, late, mail, order>>

\* Preparation is rejected, or the timer wins: the news is dropped.
PreparationFails(m) ==
  /\ pc[m] = "preparing"
  /\ Over(m)
  /\ UNCHANGED <<closing, folded, attempt, effect, late, mail, order>>

\* The recipient's runtime takes the submission under way.
Take(m) ==
  /\ pc[m] = "submitting" /\ effect[m] = "none"
  /\ effect' = [effect EXCEPT ![m] = "taken"]
  /\ mail' = [mail EXCEPT ![RecipientOf[m]] = Append(@, m)]
  /\ UNCHANGED <<closing, folded, tail, pc, attempt, late, order>>

\* It takes one the router has given up waiting for.
TakeLate(m) ==
  /\ m \in late
  /\ late' = late \ {m}
  /\ mail' = [mail EXCEPT ![RecipientOf[m]] = Append(@, m)]
  /\ UNCHANGED <<closing, folded, tail, pc, attempt, effect, order>>

\* The answer is final: accepted (it was taken), unsupported (it was not), ambiguous
\* or a throw (who knows).
Settled(m) ==
  /\ pc[m] = "submitting"
  /\ Over(m)
  /\ UNCHANGED <<closing, folded, attempt, effect, late, mail, order>>

\* Mutant: whatever was not accepted is tried again.
RetriesAmbiguous(m) == TRUE

\* `failed` is the recipient's word that nothing was admitted: only then a repeat.
Retries(m) == effect[m] = "none"

Failed(m) ==
  /\ pc[m] = "submitting" /\ Retries(m)
  /\ IF attempt[m] < Attempts
       THEN attempt' = [attempt EXCEPT ![m] = @ + 1] /\ UNCHANGED <<pc, tail>>
       ELSE Over(m) /\ UNCHANGED attempt
  /\ effect' = [effect EXCEPT ![m] = "none"]
  /\ UNCHANGED <<closing, folded, late, mail, order>>

\* The timer of the submission under way fires.
Expires(m) == pc[m] = "submitting"

\* The timer wins: dropped as ambiguous.  What was not taken yet may still be.
TimedOut(m) ==
  /\ Expires(m)
  /\ late' = IF effect[m] = "none" THEN late \cup {m} ELSE late
  /\ Over(m)
  /\ UNCHANGED <<closing, folded, attempt, effect, mail, order>>

Next ==
  \/ Fence
  \/ \E m \in Reports :
       \/ ReportDropped(m) \/ ReportFolded(m) \/ ReportQueued(m)
       \/ Prepare(m) \/ Prepared(m) \/ PreparationFails(m)
       \/ Take(m) \/ TakeLate(m) \/ Settled(m) \/ Failed(m) \/ TimedOut(m)

Spec == Init /\ [][Next]_vars

\* The tail's continuations run and timers fire; recipients promise nothing.
Owed(m) == Prepare(m) \/ PreparationFails(m) \/ TimedOut(m)

FairSpec == Spec /\ \A m \in Reports : WF_vars(Owed(m))

----------------------------------------
(* Properties                                                              *)

\* Types; and a tail holds exactly the deliveries that are not over.
TypeOK ==
  /\ closing \in BOOLEAN /\ folded \subseteq Tokens
  /\ tail \in [Recipients -> Seq(Reports)] /\ mail \in [Recipients -> Seq(Reports)]
  /\ pc \in [Reports -> {"idle", "dropped", "folded", "queued", "preparing", "submitting", "over"}]
  /\ attempt \in [Reports -> 0..Attempts]
  /\ effect \in [Reports -> {"none", "taken"}]
  /\ late \subseteq Reports /\ order \in Seq(Reports)
  /\ \A m \in Reports :
       m \in Elements(tail[RecipientOf[m]]) <=> pc[m] \in {"queued", "preparing", "submitting"}

SameNews(a, b) == a = b \/ (TokenOf[a] = TokenOf[b] /\ TokenOf[a] # NoToken)

\* "The same settlement reaches a recipient once": whatever paths report it, and
\* whatever its attempts ended as, a recipient never reads the same news twice.
NewsReadOnce ==
  \A r \in Recipients : \A i, j \in 1..Len(mail[r]) :
    SameNews(mail[r][i], mail[r][j]) => i = j

TookInTime(m) == effect[m] = "taken"

\* "A recipient reads its news in the order the turns settled": what was taken
\* before the timer fired was taken in the order it was reported.
NewsReadInOrder ==
  \A r \in Recipients :
    LET read == SelectSeq(mail[r], TookInTime)
        told == SelectSeq(order, LAMBDA m : m \in Elements(read))
    IN  read = told

\* A recipient that never answers holds nobody up: every report that got past the
\* fence is over in the end, so that its producer's close can go on.
ReportsEnd == \A m \in Reports : pc[m] = "queued" ~> pc[m] = "over"
========================================
