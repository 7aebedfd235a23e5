----------------------------- MODULE CodexTurns -----------------------------
(* The Codex runtime's turns: packages/agent-runtime/codex/src/             *)
(* turn-manager.ts, the collector of events.ts and the requests of rpc.ts.  *)
(*                                                                          *)
(* Submissions and interrupts are decided one at a time.  A submission sends *)
(* turn/start and learns from the response which native turn took it; Codex  *)
(* may fold it into the turn it is running.  The end of a turn is a          *)
(* notification, and nothing orders it against the response: the record of   *)
(* an ended turn is kept until the requests that were in flight have come    *)
(* back.  One frame may end two awaits, so the continuation of a response is *)
(* a step of its own.                                                       *)
EXTENDS Naturals, Sequences, FiniteSets

CONSTANTS
  Subs,       \* submissions Core makes
  Turns,      \* native turns Codex may start
  NoTurn

TurnsAssumption ==
  /\ IsFiniteSet(Subs) /\ "interrupt" \notin Subs
  /\ NoTurn \notin Turns /\ "open" \notin Turns

VARIABLES
  queue,       \* decisionTail: submissions and "interrupt", the head running
  step,        \* where each submission is
  admission,   \* what submit() resolved to
  settlement,  \* of the submission handed to Core: a turn's completion, ...
  records,     \* nativeTurns
  collector,   \* "none", "listening", "closed"
  seen,        \* terminalTurnIds of the collector
  broken,      \* protocolFailure is set
  stopping,    \* "no", "draining", "done"
  connected,   \* the client's socket
  results,     \* turn.result events published, by turn
  native,      \* Codex: each turn "unborn", "running", "ended"
  frames,      \* Codex: terminal frames sent of a turn
  taken        \* Codex: the turn that took a submission

vars == <<queue, step, admission, settlement, records, collector, seen, broken,
          stopping, connected, results, native, frames, taken>>
codexVars == <<native, frames, taken>>

NoRecord == [state |-> "none", members |-> {}, release |-> {}]

Steps == {"new", "queued", "effort", "sent", "answered", "rejected", "over"}

TypeOK ==
  /\ queue \in Seq(Subs \union {"interrupt"})
  /\ step \in [Subs -> Steps]
  /\ admission \in [Subs -> {"pending", "submitted", "stopped", "failed", "ambiguous"}]
  /\ settlement \in [Subs -> Turns \union {"open", "failed", "stopped"}]
  /\ records \in [Turns -> [state : {"none", "open", "ended"},
                            members : SUBSET Subs, release : SUBSET Subs]]
  /\ collector \in {"none", "listening", "closed"}
  /\ seen \subseteq Turns
  /\ broken \in BOOLEAN /\ connected \in BOOLEAN
  /\ stopping \in {"no", "draining", "done"}
  /\ results \in [Turns -> Nat]
  /\ native \in [Turns -> {"unborn", "running", "ended"}]
  /\ frames \in [Turns -> 0 .. 2]
  /\ taken \in [Subs -> Turns \union {NoTurn}]

Init ==
  /\ queue = <<>>
  /\ step = [s \in Subs |-> "new"]
  /\ admission = [s \in Subs |-> "pending"]
  /\ settlement = [s \in Subs |-> "open"]
  /\ records = [t \in Turns |-> NoRecord]
  /\ collector = "none" /\ seen = {} /\ broken = FALSE
  /\ stopping = "no" /\ connected = TRUE
  /\ results = [t \in Turns |-> 0]
  /\ native = [t \in Turns |-> "unborn"]
  /\ frames = [t \in Turns |-> 0]
  /\ taken = [s \in Subs |-> NoTurn]
----------------------------------------
InFlight == {s \in Subs : step[s] \in {"sent", "answered", "rejected"}}

\* Mutant: an ended turn's record goes at once.
ReadyAtOnce(r) == IF r.state = "ended" THEN NoRecord ELSE r

\* An ended turn's record goes when no admission it waits for is left.
Ready(r) == IF r.state = "ended" /\ r.release = {} THEN NoRecord ELSE r

\* releaseCompletedRecords, over the records a decision leaves.
Released(rs, s) ==
  [t \in Turns |-> Ready([rs[t] EXCEPT !.release = @ \ {s}])]

\* deferred.settle: the first settlement stays.
SettleAll(members, what) ==
  settlement' = [s \in Subs |-> IF s \in members /\ settlement[s] = "open"
                                THEN what ELSE settlement[s]]

Running(op) == queue # <<>> /\ Head(queue) = op

\* The decision at the head is over with this admission.
Decided(s, outcome) ==
  /\ step' = [step EXCEPT ![s] = "over"]
  /\ admission' = [admission EXCEPT ![s] = outcome]
  /\ queue' = Tail(queue)
----------------------------------------
(* Core's calls.  A runtime that stops sends nothing new to the manager.    *)
SubmitInput(s) ==
  /\ step[s] = "new" /\ stopping = "no"
  /\ step' = [step EXCEPT ![s] = "queued"]
  /\ queue' = Append(queue, s)
  /\ UNCHANGED <<admission, settlement, records, collector, seen, broken,
                 stopping, connected, results, codexVars>>

\* One interrupt at a time is enough to hold the queue.
Interrupt ==
  /\ stopping = "no" /\ \A i \in DOMAIN queue : queue[i] # "interrupt"
  /\ queue' = Append(queue, "interrupt")
  /\ UNCHANGED <<step, admission, settlement, records, collector, seen, broken,
                 stopping, connected, results, codexVars>>

\* interrupt's decision: idle with nothing open, else a request that is
\* answered or rejected; nothing of the manager changes.
InterruptEnds ==
  /\ Running("interrupt")
  /\ \/ stopping # "no"
     \/ \A t \in Turns : records[t].state # "open"
     \/ connected        \* answered
     \/ ~connected       \* the request is rejected
  /\ queue' = Tail(queue)
  /\ UNCHANGED <<step, admission, settlement, records, collector, seen, broken,
                 stopping, connected, results, codexVars>>

Barred == stopping # "no" \/ broken
WhyBarred == IF stopping # "no" THEN "stopped" ELSE "failed"

\* submit, up to the await of effortFor.
BeginSubmit(s) ==
  /\ Running(s) /\ step[s] = "queued"
  /\ IF Barred
     THEN Decided(s, WhyBarred)
     ELSE step' = [step EXCEPT ![s] = "effort"] /\ UNCHANGED <<admission, queue>>
  /\ UNCHANGED <<settlement, records, collector, seen, broken, stopping,
                 connected, results, codexVars>>

\* effortFor failed, or one of the two conditions has changed meanwhile.
RefuseSubmit(s) ==
  /\ step[s] = "effort"
  /\ Decided(s, IF Barred THEN WhyBarred ELSE "failed")
  /\ UNCHANGED <<settlement, records, collector, seen, broken, stopping,
                 connected, results, codexVars>>

\* turn/start is sent; on a closed client the request rejects at once.
SendTurnStart(s) ==
  /\ step[s] = "effort" /\ ~Barred
  /\ collector' = IF collector = "none" THEN "listening" ELSE collector
  /\ step' = [step EXCEPT ![s] = IF connected THEN "sent" ELSE "rejected"]
  /\ UNCHANGED <<queue, admission, settlement, records, seen, broken, stopping,
                 connected, results, codexVars>>

\* The continuation of a rejected request.
FailSubmit(s) ==
  /\ step[s] = "rejected"
  /\ records' = Released(records, s)
  /\ Decided(s, "ambiguous")
  /\ UNCHANGED <<settlement, collector, seen, broken, stopping, connected,
                 results, codexVars>>

\* bindSubmission and the rest of submit: the answer of an ended turn, else
\* the manager's own end, else a member of the turn's record.
BindSubmission(s) ==
  /\ step[s] = "answered"
  /\ LET t == taken[s]
         r == records[t]
     IN IF r.state = "ended"
        THEN SettleAll({s}, t) /\ records' = Released(records, s)
        ELSE IF Barred
        THEN SettleAll({s}, WhyBarred) /\ records' = Released(records, s)
        ELSE /\ records' = Released([records EXCEPT ![t] =
                     [r EXCEPT !.state = "open", !.members = @ \union {s}]], s)
             /\ UNCHANGED settlement
  /\ Decided(s, "submitted")
  /\ UNCHANGED <<collector, seen, broken, stopping, connected, results, codexVars>>
----------------------------------------
(* Notifications.                                                           *)

\* A terminal frame of t reaches the collector and observeTerminal.
ObserveTerminal(t, how) ==
  IF collector # "listening" \/ t \in seen
  THEN UNCHANGED <<seen, settlement, records, results>>
  ELSE /\ seen' = seen \union {t}
       /\ IF records[t].state = "ended"
          THEN UNCHANGED <<settlement, records, results>>
          ELSE /\ records' = [records EXCEPT ![t] =
                    Ready([state |-> "ended", members |-> {}, release |-> InFlight])]
               /\ SettleAll(records[t].members, t)
               /\ results' = IF how = "interrupted" THEN results
                             ELSE [results EXCEPT ![t] = @ + 1]

\* failProtocol, from an error frame that names no turn: the collector closes.
FailProtocol ==
  /\ connected /\ collector = "listening"
  /\ broken' = TRUE /\ collector' = "closed" /\ seen' = {}
  /\ LET open == {t \in Turns : records[t].state = "open"}
     IN /\ SettleAll(UNION {records[t].members : t \in open}, "failed")
        /\ records' = [t \in Turns |-> IF t \in open THEN NoRecord ELSE records[t]]
  /\ UNCHANGED <<queue, step, admission, stopping, connected, results, codexVars>>

(* Codex (the app-server).  It runs one turn of the thread at a time and may *)
(* fold a submission into it; an end may be told twice (error, then          *)
(* turn/completed).                                                          *)
Accept(s, t) ==
  /\ connected /\ step[s] = "sent" /\ taken[s] = NoTurn
  /\ IF \E u \in Turns : native[u] = "running"
     THEN native[t] = "running" ELSE native[t] = "unborn"
  /\ taken' = [taken EXCEPT ![s] = t]
  /\ native' = [native EXCEPT ![t] = "running"]
  /\ UNCHANGED <<queue, step, admission, settlement, records, collector, seen,
                 broken, stopping, connected, results, frames>>

Respond(s) ==
  /\ connected /\ step[s] = "sent"
  /\ step' = [step EXCEPT ![s] = IF taken[s] = NoTurn THEN "rejected" ELSE "answered"]
  /\ UNCHANGED <<queue, admission, settlement, records, collector, seen, broken,
                 stopping, connected, results, codexVars>>

TurnEnds(t, how) ==
  /\ connected /\ native[t] # "unborn" /\ frames[t] < 2
  /\ native' = [native EXCEPT ![t] = "ended"]
  /\ frames' = [frames EXCEPT ![t] = @ + 1]
  /\ ObserveTerminal(t, how)
  /\ UNCHANGED <<queue, step, admission, collector, broken, stopping, connected, taken>>

\* Mutant: the requests of a client that is closed stay open.
DisconnectedSilently == connected' = FALSE /\ UNCHANGED step

\* tearDown of the client: every pending request is rejected.
Disconnected ==
  /\ connected' = FALSE
  /\ step' = [s \in Subs |-> IF step[s] = "sent" THEN "rejected" ELSE step[s]]

ConnectionLost ==
  /\ connected /\ stopping = "no" /\ Disconnected
  /\ UNCHANGED <<queue, admission, settlement, records, collector, seen, broken,
                 stopping, results, codexVars>>
----------------------------------------
(* The runtime's teardown calls stop() and closes the client before it waits. *)
Stop ==
  /\ stopping = "no"
  /\ stopping' = "draining" /\ collector' = "none" /\ seen' = {}
  /\ Disconnected
  /\ UNCHANGED <<queue, admission, settlement, records, broken, results, codexVars>>

\* Mutant: the stop does not settle what no turn will answer.
StopDrainedSilent ==
  /\ stopping = "draining"
  /\ \A s \in Subs : step[s] \in {"new", "over"}
  /\ stopping' = "done"
  /\ UNCHANGED <<queue, step, admission, settlement, records, collector, seen, broken,
                 connected, results, codexVars>>

\* No admission is pending: what no turn will answer is settled here.
StopDrained ==
  /\ stopping = "draining"
  /\ \A s \in Subs : step[s] \in {"new", "over"}
  /\ stopping' = "done"
  /\ LET open == {t \in Turns : records[t].state = "open"}
     IN /\ SettleAll(UNION {records[t].members : t \in open}, "stopped")
        /\ records' = [t \in Turns |-> IF t \in open THEN NoRecord ELSE records[t]]
  /\ UNCHANGED <<queue, step, admission, collector, seen, broken, connected,
                 results, codexVars>>

Decide(s) == BeginSubmit(s) \/ RefuseSubmit(s) \/ SendTurnStart(s) \/ FailSubmit(s)
               \/ BindSubmission(s)

Codex ==
  \/ \E s \in Subs, t \in Turns : Accept(s, t)
  \/ \E s \in Subs : Respond(s)
  \/ \E t \in Turns, how \in {"completed", "interrupted"} : TurnEnds(t, how)
  \/ ConnectionLost

Next ==
  \/ \E s \in Subs : SubmitInput(s) \/ Decide(s)
  \/ Interrupt \/ InterruptEnds
  \/ FailProtocol \/ Codex
  \/ Stop \/ StopDrained

\* Promise continuations run; Codex and Core promise nothing.
Fairness ==
  /\ \A s \in Subs : WF_vars(Decide(s))
  /\ WF_vars(InterruptEnds) /\ WF_vars(StopDrained)

Spec == Init /\ [][Next]_vars /\ Fairness
----------------------------------------
(* The end of a turn and the response of the requests folded into it arrive *)
(* in any order: whoever was told "submitted" is either answered by the turn *)
(* that took it, or is a member of a turn whose end has not been heard.      *)
NobodyWaitsInVain ==
  \A s \in Subs : admission[s] = "submitted" =>
    \/ settlement[s] \in {taken[s], "failed", "stopped"}
    \/ /\ settlement[s] = "open" /\ stopping # "done"
       /\ s \in records[taken[s]].members /\ taken[s] \notin seen

(* A native turn publishes its result at most once, however often and by    *)
(* whatever frames Codex reports its end.                                   *)
OneResultPerTurn == \A t \in Turns : results[t] <= 1

(* The turns keep the runtime's contract: who was accepted is settled once,  *)
(* and a stop that has resolved leaves nobody asked or accepted.             *)
Promised(s) ==
  CASE step[s] = "new" -> "none"
    [] step[s] # "new" /\ admission[s] = "submitted" ->
         IF settlement[s] = "open" THEN "accepted" ELSE "settled"
    [] step[s] # "new" /\ admission[s] = "pending" -> "asked"
    [] OTHER -> "refused"

Contract == INSTANCE RuntimeContract WITH
  over <- stopping = "done", phase <- [s \in Subs |-> Promised(s)]
KeepsContract == Contract!Spec

(* The contract of AgentRuntime.stop: it ends, whatever Codex does, and      *)
(* not while an admission that has started can still become a submission.    *)
StopConverges ==
  (stopping = "draining") ~>
     (stopping = "done" /\ \A s \in Subs : step[s] \in {"new", "over"})
========================================
