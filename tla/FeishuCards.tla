----------------------------- MODULE FeishuCards -----------------------------
(* The reasoning cards of one TeamLeader in a Feishu Channel: adapter.ts,    *)
(* recipients.ts, writer.ts, reasoning.ts and inbound-correlations.ts of     *)
(* packages/channel/feishu-channel/src/cot.                                  *)
(*                                                                          *)
(* An inbound message moves the anchor, ends the card that stood there and   *)
(* opens one under the message; what the agent does is queued on the card    *)
(* and written by one task at a time, in batches, each an await.  The end of *)
(* a card is an intent that the writer turns into its last event.            *)
EXTENDS Naturals, Sequences

CONSTANTS
  Messages,     \* inbound messages
  TargetOf,     \* the conversation each came from
  NoMessage,
  Cards,        \* bound: cards opened
  Room,         \* events the outbox of a card holds
  Activities    \* bound: events accepted by a card

\* A card has room for what opens it.
CardsAssumption == Cards \in Nat /\ Room \in Nat /\ Room >= 2

VARIABLES
  st,           \* the recipient: CotState, its cards and its queue of writes
  run,          \* the write under way: card, step, batch, finishing
  fence,        \* LeaderLifecycleFence: the leader, and targets, that are fenced
  begun,        \* messages whose submission began
  pending,      \* inbound correlations: sources whose input is not shown again
  closing       \* of the adapter: "open", "draining", "aborted"

vars == <<st, run, fence, begun, pending, closing>>

Numbers == 1 .. Cards
Targets == {TargetOf[m] : m \in Messages}

NewCard == [phase |-> "unborn", ending |-> FALSE, queued |-> FALSE, closed |-> FALSE,
            thinking |-> FALSE, outbox |-> <<>>, said |-> 0, shown |-> <<>>, end |-> "none"]
\* holder: the message whose generation is the current one; calls: whether a
\* call is under way, and on the card that is there or an earlier one.
NoState == [there |-> FALSE, anchor |-> NoMessage, active |-> 0, holder |-> NoMessage,
            calls |-> "none", used |-> 0, tail |-> <<>>, cards |-> [n \in Numbers |-> NewCard]]
NoRun == [card |-> 0, step |-> "idle", batch |-> <<>>, ends |-> FALSE]

Init ==
  /\ st = NoState
  /\ run = NoRun
  /\ fence = [leader |-> FALSE, targets |-> {}]
  /\ begun = {}
  /\ pending = {}
  /\ closing = "open"
----------------------------------------
(* What the operations do to the recipient.                                 *)
Live == closing = "open"

\* Mutant: the room of a card is not looked at.
FitsAlways(s, n, k) == TRUE

\* Events are numbered as they are accepted; a full outbox refuses the newest.
Fits(s, n, k) == Len(s.cards[n].outbox) + k <= Room
Admit(s, n, k) ==
  IF ~Fits(s, n, k) THEN s
  ELSE [s EXCEPT !.cards[n].outbox = @ \o [i \in 1 .. k |-> s.cards[n].said + i],
                 !.cards[n].said = @ + k]

Schedule(s, n) ==
  IF s.cards[n].queued THEN s
  ELSE [s EXCEPT !.cards[n].queued = TRUE, !.tail = Append(@, [op |-> "flush", card |-> n])]

Ending(s, n) == s.cards[n].ending \/ s.cards[n].closed

\* The card stops: an open block of reasoning is closed ahead of the end.
Detach(s) ==
  LET n == s.active
      off == [s EXCEPT !.active = 0]
      shut == IF s.cards[n].thinking
              THEN [Admit(off, n, 1) EXCEPT !.cards[n].thinking = FALSE] ELSE off
      ending == [shut EXCEPT !.cards[n].ending = TRUE]
  IN CASE n = 0 -> s
       [] n # 0 /\ Ending(s, n) -> off
       [] OTHER -> IF s.cards[n].phase = "writing" THEN Schedule(ending, n) ELSE ending

\* A recipient with nothing left is forgotten; the next is another one.
Busy(s) == Len(s.tail) + (IF run.card = 0 THEN 0 ELSE 1)
Reap(s, busy) ==
  IF Live /\ s.there /\ busy = 0 /\ s.active = 0 /\ s.anchor = NoMessage /\ s.calls = "none"
  THEN [s EXCEPT !.there = FALSE, !.holder = NoMessage] ELSE s

Ensure(s) == [s EXCEPT !.there = TRUE]

AdvanceAnchor(s, m) ==
  LET moved == [Detach(s)
                  EXCEPT !.anchor = m, !.holder = m,
                         !.calls = IF m = NoMessage \/ @ = "none" THEN "none" ELSE "earlier"]
  IN Reap(moved, Busy(moved))

\* An activity that may open a card: one under the anchor, when none is there.
Opened(s, k) ==
  LET n == s.used + 1 IN
  [s EXCEPT !.used = n, !.active = n, !.cards[n].phase = "creating",
            !.cards[n].outbox = [i \in 1 .. (k + 1) |-> i], !.cards[n].said = k + 1,
            !.tail = Append(@, [op |-> "create", card |-> n])]

Accept(s, k) ==
  LET n == s.active IN
  CASE n = 0 -> IF s.anchor = NoMessage THEN s ELSE Opened(s, k)
    [] n # 0 /\ (Ending(s, n) \/ ~Fits(s, n, k)) -> s
    [] OTHER -> IF s.cards[n].phase = "writing" THEN Schedule(Admit(s, n, k), n)
                ELSE Admit(s, n, k)

\* The bounds of the model: cards, and events of a card.
MayOpen == st.active # 0 \/ st.anchor = NoMessage \/ st.used < Cards
MaySay == st.active # 0 => st.cards[st.active].said < Activities
----------------------------------------
(* Inbound submissions.                                                     *)
Blocked(m) == fence.leader \/ TargetOf[m] \in fence.targets

BeginInboundSubmission(m) ==
  /\ Live /\ m \notin begun /\ ~Blocked(m) /\ st.used < Cards
  /\ st' = Accept(AdvanceAnchor(Ensure(st), m), 1)
  /\ begun' = begun \union {m}
  /\ pending' = pending \union {m}
  /\ UNCHANGED <<run, fence, closing>>

\* Core admitted nothing: the anchor it took is given back, if it still has it.
Retire(m) ==
  /\ m \in begun
  /\ pending' = pending \ {m}
  /\ st' = IF Live /\ st.holder = m THEN AdvanceAnchor(st, NoMessage) ELSE st
  /\ UNCHANGED <<run, fence, begun, closing>>

Release(m) ==
  /\ m \in pending /\ pending' = pending \ {m}
  /\ UNCHANGED <<st, run, fence, begun, closing>>

SetFallbackAnchorIfAbsent(m) ==
  /\ Live /\ ~Blocked(m) /\ m \notin begun
  /\ st' = IF Ensure(st).anchor = NoMessage THEN [Ensure(st) EXCEPT !.anchor = m] ELSE Ensure(st)
  /\ st' # st
  /\ UNCHANGED <<run, fence, begun, pending, closing>>
----------------------------------------
(* What the agent does.                                                     *)

\* The input of a message that stands in the chat is not shown a second time.
Input(m) ==
  /\ Live /\ st.there
  /\ IF m \in pending
     THEN pending' = pending \ {m} /\ UNCHANGED st
     ELSE MayOpen /\ MaySay /\ st' = Accept(st, 1) /\ UNCHANGED pending
  /\ UNCHANGED <<run, fence, begun, closing>>

\* A block of reasoning opens, goes on or closes with the events of a part.
Reason(ends) ==
  /\ Live /\ st.anchor # NoMessage /\ MayOpen /\ MaySay
  /\ LET s == Accept(st, 1) IN
     st' = IF s # st /\ s.active # 0 THEN [s EXCEPT !.cards[s.active].thinking = ~ends] ELSE s
  /\ UNCHANGED <<run, fence, begun, pending, closing>>

ToolStarts ==
  /\ Live /\ st.anchor # NoMessage /\ MayOpen /\ MaySay
  /\ LET s == Accept(st, 1) IN
     st' = IF s # st THEN [s EXCEPT !.calls = "here"] ELSE s
  /\ UNCHANGED <<run, fence, begun, pending, closing>>

\* The result of a call is shown on the card the call is on, or nowhere.
ToolEnds ==
  /\ Live /\ st.there /\ st.anchor # NoMessage /\ st.calls # "none" /\ MaySay
  /\ st' = [(IF st.calls = "here" /\ st.active # 0 THEN Accept(st, 1) ELSE st)
              EXCEPT !.calls = "none"]
  /\ UNCHANGED <<run, fence, begun, pending, closing>>

\* turn.ended, with the reason it gives as a last line.
FinishCard(reason) ==
  /\ Live /\ st.there /\ st.active # 0 /\ MaySay
  /\ LET told == IF reason /\ st.anchor # NoMessage THEN Accept(st, 1) ELSE st
         ended == Detach([told EXCEPT !.calls = "none"])
     IN st' = Reap(ended, Busy(ended))
  /\ UNCHANGED <<run, fence, begun, pending, closing>>
----------------------------------------
(* Teams and routes.                                                        *)
TeamState(status) ==
  /\ Live
  /\ IF status = "closed"
     THEN /\ fence' = [fence EXCEPT !.leader = TRUE]
          /\ st' = IF st.there THEN AdvanceAnchor(st, NoMessage) ELSE st
     ELSE /\ fence' = [leader |-> FALSE, targets |-> {}]
          /\ UNCHANGED st
  /\ fence' # fence
  /\ UNCHANGED <<run, begun, pending, closing>>

OnRouteReleased(t) ==
  /\ Live /\ st.there /\ t \notin fence.targets
  /\ fence' = [fence EXCEPT !.targets = @ \union {t}]
  /\ st' = IF st.anchor # NoMessage /\ TargetOf[st.anchor] = t
           THEN AdvanceAnchor(st, NoMessage) ELSE st
  /\ UNCHANGED <<run, begun, pending, closing>>

OnRouteClaimed(t) ==
  /\ Live /\ t \in fence.targets
  /\ fence' = [fence EXCEPT !.targets = @ \ {t}]
  /\ UNCHANGED <<st, run, begun, pending, closing>>
----------------------------------------
(* The writer: one task at a time, in the order they were queued.           *)

\* Where the loop of a flush goes next.
Loop(s, n) ==
  IF s.cards[n].closed \/ (s.cards[n].outbox = <<>> /\ ~s.cards[n].ending)
  THEN /\ run' = NoRun /\ st' = Reap(s, Len(s.tail))
  ELSE /\ run' = [NoRun EXCEPT !.card = n, !.step = "slot"] /\ st' = s

Abandon(s, n) ==
  [s EXCEPT !.cards[n].closed = TRUE, !.cards[n].outbox = <<>>,
            !.active = IF @ = n THEN 0 ELSE @]

TaskStarts ==
  /\ run.card = 0 /\ st.tail # <<>>
  /\ LET task == Head(st.tail)
         n == task.card
         s == [st EXCEPT !.tail = Tail(@)]
     IN IF task.op = "create"
        THEN run' = [NoRun EXCEPT !.card = n, !.step = "create"] /\ st' = s
        ELSE Loop([s EXCEPT !.cards[n].queued = FALSE], n)
  /\ UNCHANGED <<fence, begun, pending, closing>>

Created ==
  /\ run.step = "create"
  /\ \/ closing # "aborted" /\ Loop([st EXCEPT !.cards[run.card].phase = "writing"], run.card)
     \/ run' = NoRun /\ st' = Reap(Abandon(st, run.card), Len(st.tail))
  /\ UNCHANGED <<fence, begun, pending, closing>>

\* Mutant: the end goes out with the first batch after it was asked for.
TakeBatchEnding ==
  /\ run.step = "slot"
  /\ LET n == run.card
         outbox == st.cards[n].outbox
     IN \E k \in (IF outbox = <<>> THEN {0} ELSE 1 .. Len(outbox)), fits \in BOOLEAN :
          /\ k = 0 => fits
          /\ run' = [card |-> n, step |-> "append", batch |-> SubSeq(outbox, 1, k),
                     ends |-> st.cards[n].ending /\ fits]
          /\ st' = [st EXCEPT !.cards[n].outbox = SubSeq(outbox, k + 1, Len(outbox))]
  /\ UNCHANGED <<fence, begun, pending, closing>>

\* The cadence lets the next append go: as many events as its bytes hold, and
\* the end with the last of them when it fits too.
TakeBatch ==
  /\ run.step = "slot"
  /\ LET n == run.card
         outbox == st.cards[n].outbox
         last(k) == k = Len(outbox) /\ st.cards[n].ending
     IN \E k \in (IF outbox = <<>> THEN {0} ELSE 1 .. Len(outbox)), fits \in BOOLEAN :
          /\ k = 0 => fits
          /\ run' = [card |-> n, step |-> "append", batch |-> SubSeq(outbox, 1, k),
                     ends |-> last(k) /\ fits]
          /\ st' = [st EXCEPT !.cards[n].outbox = SubSeq(outbox, k + 1, Len(outbox))]
  /\ UNCHANGED <<fence, begun, pending, closing>>

Shown(s) ==
  [s EXCEPT !.cards[run.card].shown = @ \o run.batch,
            !.cards[run.card].end = IF run.ends THEN "end" ELSE @]

Appended ==
  /\ run.step = "append" /\ closing # "aborted"
  /\ Loop(IF run.ends
          THEN [Shown(st) EXCEPT !.cards[run.card].closed = TRUE, !.cards[run.card].outbox = <<>>]
          ELSE Shown(st), run.card)
  /\ UNCHANGED <<fence, begun, pending, closing>>

\* The write may have landed all the same.
AppendFails ==
  /\ run.step = "append"
  /\ \E s \in {st, Shown(st)} : st' = Abandon(s, run.card)
  /\ run' = [run EXCEPT !.step = "failing"]
  /\ UNCHANGED <<fence, begun, pending, closing>>

\* completeWithError, which may fail as well.
ErrorCompleted ==
  /\ run.step = "failing"
  /\ \E told \in BOOLEAN :
       st' = Reap(IF told /\ closing # "aborted"
                  THEN [st EXCEPT !.cards[run.card].end = "error"] ELSE st,
                  Len(st.tail))
  /\ run' = NoRun
  /\ UNCHANGED <<fence, begun, pending, closing>>
----------------------------------------
(* close(): every card is interrupted, and the writer is given a while.      *)
Close ==
  /\ Live /\ closing' = "draining"
  /\ st' = Detach([st EXCEPT !.anchor = NoMessage, !.holder = NoMessage, !.calls = "none"])
  /\ UNCHANGED <<run, fence, begun, pending>>

DrainEnds ==
  /\ closing = "draining" /\ closing' = "aborted"
  /\ pending' = {} /\ fence' = [leader |-> FALSE, targets |-> {}]
  /\ UNCHANGED <<st, run, begun>>

Writer == TaskStarts \/ Created \/ TakeBatch \/ Appended \/ AppendFails \/ ErrorCompleted

Agent ==
  \/ \E m \in Messages : Input(m)
  \/ \E ends \in BOOLEAN : Reason(ends)
  \/ ToolStarts \/ ToolEnds
  \/ \E reason \in BOOLEAN : FinishCard(reason)

Next ==
  \/ \E m \in Messages : BeginInboundSubmission(m) \/ Retire(m) \/ Release(m)
                         \/ SetFallbackAnchorIfAbsent(m)
  \/ Agent
  \/ \E status \in {"open", "closed"} : TeamState(status)
  \/ \E t \in Targets : OnRouteReleased(t) \/ OnRouteClaimed(t)
  \/ Writer \/ Close \/ DrainEnds

Spec == Init /\ [][Next]_vars
\* Every call to Feishu ends, with an answer or at its deadline.
Fairness == WF_vars(Writer)
----------------------------------------
\* Types; a card holds no more than it has room for, and is numbered as opened.
TypeOK ==
  /\ closing \in {"open", "draining", "aborted"}
  /\ fence.leader \in BOOLEAN /\ fence.targets \subseteq Targets
  /\ begun \subseteq Messages /\ pending \subseteq begun
  /\ st.active \in 0 .. st.used /\ st.used \in 0 .. Cards
  /\ {st.anchor, st.holder} \subseteq Messages \union {NoMessage}
  /\ st.calls \in {"none", "here", "earlier"}
  /\ run.card \in 0 .. st.used
  /\ run.step \in {"idle", "create", "slot", "append", "failing"}
  /\ \A n \in Numbers :
       /\ Len(st.cards[n].outbox) <= Room
       /\ st.cards[n].phase = "unborn" <=> n > st.used

(* What a card shows is what was accepted for it, in order and without a     *)
(* gap, and nothing is added to a card that has shown its end.               *)
CardTellsInOrder ==
  \A n \in Numbers : LET card == st.cards[n] IN
    /\ \A i \in DOMAIN card.shown : card.shown[i] = i
    /\ card.end # "none" => run.card # n \/ run.step = "failing"

(* A card that ends as it should has lost nothing that was accepted for it:  *)
(* the end is never written ahead of events that still wait.                *)
EndIsComplete ==
  \A n \in Numbers :
    st.cards[n].end = "end" => Len(st.cards[n].shown) = st.cards[n].said

(* One card at a time stands open for a recipient, and none once its Team    *)
(* has closed: a fenced leader has neither a card nor an anchor to open one. *)
OneOpenCard ==
  /\ \A n \in Numbers : st.cards[n].phase # "unborn" /\ ~Ending(st, n) => n = st.active
  /\ fence.leader => st.active = 0 /\ st.anchor = NoMessage

(* A card that is to end is ended, or given up.                              *)
CardsEnd == \A n \in Numbers : st.cards[n].ending ~> st.cards[n].closed
========================================
