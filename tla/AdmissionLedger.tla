--------------------------- MODULE AdmissionLedger ---------------------------
(***************************************************************************)
(* The duplicate-admission ledger of one dispatcher: a submission that     *)
(* names its source message is admitted under the key [entity, source].    *)
(* A repeat joins the admission under way, or is answered "duplicate"      *)
(* while the key is among the last Window committed ones.                  *)
(*                                                                         *)
(* What an admission does to the runtime is one step with one outcome; the *)
(* settled promise and the ledger's own reaction to it are two, because    *)
(* the reaction is a continuation that other callers can come before.      *)
(***************************************************************************)
EXTENDS Naturals, Sequences, FiniteSets

CONSTANTS
  Callers,   \* the submissions: one call of admit() each
  Keys,      \* entity and source id of a submission
  KeyOf,     \* each caller's key
  Window     \* ADMISSION_SOURCE_WINDOW

\* What the instances of this module have to satisfy.
LedgerAssumption ==
  /\ KeyOf \in [Callers -> Keys]
  /\ Window \in Nat \ {0}
  /\ "none" \notin Callers

VARIABLES
  committed,   \* committedOrder: committed keys, the oldest first; its set is `committed`
  pending,     \* the caller whose task holds a key, or None
  task,        \* each task: "none", "running", or the admission it settled with
  answer,      \* what each caller got back: "idle", "waiting" or an admission
  reactions,   \* the settled tasks whose continuation in the ledger is yet to run
  joined,      \* the task a waiting caller awaits
  turns        \* the keys a runtime took (or may have taken) a turn for, in commit order

vars == <<committed, pending, task, answer, reactions, joined, turns>>

None == "none"

Elements(s) == {s[i] : i \in 1..Len(s)}

\* What an admission can end as: a turn, perhaps a turn, or no turn for certain.
Taken == {"submitted", "ambiguous"}
NotTaken == {"failed", "stopped", "skipped", "thrown"}

Init ==
  /\ committed = <<>>
  /\ pending = [k \in Keys |-> None]
  /\ task = [c \in Callers |-> "none"]
  /\ answer = [c \in Callers |-> "idle"]
  /\ reactions = <<>>
  /\ joined = [c \in Callers |-> None]
  /\ turns = <<>>

\* A committed key: the repeat is a duplicate and the runtime is not touched.
AdmitDuplicate(c) ==
  /\ answer[c] = "idle" /\ KeyOf[c] \in Elements(committed)
  /\ answer' = [answer EXCEPT ![c] = "duplicate"]
  /\ UNCHANGED <<committed, pending, task, reactions, joined, turns>>

\* The key is held: the repeat awaits the same admission.
AdmitJoins(c) ==
  /\ answer[c] = "idle" /\ KeyOf[c] \notin Elements(committed) /\ pending[KeyOf[c]] # None
  /\ answer' = [answer EXCEPT ![c] = "waiting"]
  /\ joined' = [joined EXCEPT ![c] = pending[KeyOf[c]]]
  /\ UNCHANGED <<committed, pending, task, reactions, turns>>

\* A free key is reserved before the operation begins.
AdmitRuns(c) ==
  /\ answer[c] = "idle" /\ KeyOf[c] \notin Elements(committed) /\ pending[KeyOf[c]] = None
  /\ pending' = [pending EXCEPT ![KeyOf[c]] = c]
  /\ task' = [task EXCEPT ![c] = "running"]
  /\ answer' = [answer EXCEPT ![c] = "waiting"]
  /\ joined' = [joined EXCEPT ![c] = c]
  /\ UNCHANGED <<committed, reactions, turns>>

\* The operation has gone through the runtime, or has failed before it.
TaskSettles(c) ==
  /\ task[c] = "running"
  /\ \E outcome \in Taken \cup NotTaken :
       /\ task' = [task EXCEPT ![c] = outcome]
       /\ turns' = IF outcome \in Taken THEN Append(turns, KeyOf[c]) ELSE turns
  /\ reactions' = Append(reactions, c)
  /\ UNCHANGED <<committed, pending, answer, joined>>

\* Mutant: an uncertain submission is treated as one that failed.
CommitsCertain(outcome) == outcome = "submitted"

\* The outcomes after which a repeat must not reach the runtime.
Commits(outcome) == outcome \in Taken

\* commit(): the newest key goes in, the oldest beyond the window out.
CommitKey(k) ==
  IF k \in Elements(committed) THEN committed
  ELSE LET all == Append(committed, k) IN
       IF Len(all) > Window THEN Tail(all) ELSE all

\* releaseUncommitted(): the reservation goes if the task still holds it.
Freed(c) ==
  IF pending[KeyOf[c]] = c THEN [pending EXCEPT ![KeyOf[c]] = None] ELSE pending

\* release(): the ledger's continuation on the oldest settled task.
Release ==
  /\ reactions # <<>>
  /\ LET c == Head(reactions) IN
       /\ committed' = IF Commits(task[c]) THEN CommitKey(KeyOf[c]) ELSE committed
       /\ pending' = Freed(c)
  /\ reactions' = Tail(reactions)
  /\ UNCHANGED <<task, answer, joined, turns>>

\* A caller's own continuation on the task it awaits, which comes after the ledger's.
Answered(c) ==
  /\ answer[c] = "waiting" /\ task[joined[c]] \in Taken \cup NotTaken
  /\ joined[c] \notin Elements(reactions)
  /\ answer' = [answer EXCEPT ![c] = task[joined[c]]]
  /\ UNCHANGED <<committed, pending, task, reactions, joined, turns>>

Admit(c) == AdmitDuplicate(c) \/ AdmitJoins(c) \/ AdmitRuns(c)

Next == Release \/ \E c \in Callers : Admit(c) \/ TaskSettles(c) \/ Answered(c)

Spec == Init /\ [][Next]_vars

----------------------------------------
(* Properties                                                              *)

Admissions == Taken \cup NotTaken

\* Types; and the window holds distinct keys, never more than Window of them.
TypeOK ==
  /\ committed \in Seq(Keys) /\ Len(committed) <= Window
  /\ Cardinality(Elements(committed)) = Len(committed)
  /\ pending \in [Keys -> Callers \cup {None}]
  /\ task \in [Callers -> {"none", "running"} \cup Admissions]
  /\ answer \in [Callers -> {"idle", "waiting", "duplicate"} \cup Admissions]
  /\ reactions \in Seq(Callers) /\ turns \in Seq(Keys)
  /\ joined \in [Callers -> Callers \cup {None}]

\* "Core reserves the key before runtime admission, which is what keeps a repeat from
\* creating a second turn": one source gets a second turn only after Window other
\* sources had theirs, an uncertain admission counting as a turn.
OneTurnPerWindow ==
  \A i, j \in 1..Len(turns) :
    i < j /\ turns[i] = turns[j] =>
      Cardinality({turns[k] : k \in (i + 1)..(j - 1)} \ {turns[i]}) >= Window
========================================
