----------------------------- MODULE AgentEntity -----------------------------
(***************************************************************************)
(* One agent entity: AgentService together with the runtime generation and *)
(* the leased state store it owns.  The entity admits input, starts and    *)
(* stops native runtimes, reports settled turns to their recipients, can   *)
(* be locked by a Workflow, released by a stopping host, and closed.       *)
(*                                                                         *)
(* Scheduling.  JavaScript code runs to completion between awaits, and the *)
(* continuation of a settled promise (a microtask) runs before the next    *)
(* I/O event.  Every action below is the code between two real awaits; an  *)
(* await of an already settled promise is not an interleaving point.  The  *)
(* guard Quiet on the actions that stand for I/O completions says that no  *)
(* ready continuation is left.  Calls from other components are not        *)
(* guarded by it: they may come from any microtask.                        *)
(*                                                                         *)
(* The native runtime is external.  It is modelled by the contract of      *)
(* AgentRuntime: stop() fences later submit() calls synchronously,         *)
(* resolves only after every earlier submit() has resolved, and settles    *)
(* what it accepted.  stop() may also reject.                              *)
(***************************************************************************)
EXTENDS Naturals, Sequences, FiniteSets

CONSTANTS
  Ops,        \* the submissions other components make to this entity
  Kinds,      \* the kinds of submission made (a subset of AllKinds)
  MaxWrites,  \* bound: a runtime publishes only while fewer writes are queued
  MaxStops    \* bound: number of host stops and of close calls begun

AllKinds == {"send", "activate", "push", "locked"}

ASSUME EntityAssumption ==
  /\ IsFiniteSet(Ops)
  /\ Kinds \subseteq AllKinds
  /\ MaxWrites \in Nat
  /\ MaxStops \in Nat
  /\ {"host", "close"} \cap Ops = {}

VARIABLES
  phase,        \* EntityPhase of AgentService
  locked,       \* lockToken # null
  live,         \* generation whose runtime is RuntimeGeneration.live, 0 if null
  authority,    \* generation whose lease is current, 0 once revoked
  mcp,          \* generation whose MCP tokens are held, 0 if none
  gens,         \* number of generations opened
  start,        \* the flight behind RuntimeGeneration.starting
  prov,         \* the native runtime of each generation
  op,           \* progress of each submission
  line,         \* admissionContinuationTail: submissions in admission order
  stp,          \* the convergences and runtime stops in progress
  stops,        \* host stops and close calls begun (history, bounds the model)
  durable,      \* is the persisted identity status "closed"?
  writes,       \* the identity store's FIFO of queued updates
  closedFact,   \* has the promise `closed` been resolved?
  rep,          \* the report of each submission's turn
  reportFailed  \* reportFailure # null

rt    == <<live, authority, mcp, gens, start, prov>>
store == <<durable, writes>>
rest  == <<closedFact, rep, reportFailed>>
vars  == <<phase, locked, rt, op, line, stp, stops, store, rest>>

Stoppers == {"host", "close"} \cup Ops

NoStart  == [pc |-> "none", gen |-> 0]
IdleStop == [pc |-> "idle", gen |-> 0, failed |-> FALSE]
IdleOp   == [pc |-> "idle", kind |-> "send", gen |-> 0, res |-> "none", sett |-> "none"]

\* Pcs of a submission that is still between entering and leaving.
Busy == {"prep", "body", "entered", "waitStart", "started", "intent",
         "submitting", "losing"}

HostStopping == stp["host"].pc # "idle"
Closing      == stp["close"].pc # "idle"

\* ordinaryMutations: what enterOrdinaryMutation counted in and leave did not.
Mutating == {o \in Ops : op[o].kind \notin {"locked", "relocked"} /\ op[o].pc \in Busy}

\* retainedTurns whose outcome is not selected.
Unsettled == {o \in Ops : op[o].pc = "attached"}

\* Mutant: the lock is not consulted.
WritableThoughLocked == phase = "active" /\ ~HostStopping

\* enterOrdinaryMutation's condition.
Writable == phase = "active" /\ ~locked /\ ~HostStopping

\* Mutant: the host stop is not consulted.
OwesThoughStopping == phase = "active"

\* owesCompletion.
Owes == phase = "active" /\ ~HostStopping

\* A continuation whose promise has settled and that has not run yet.
Ready(o) ==
  \/ op[o].pc = "started"
  \/ op[o].pc = "entered" /\ (op[o].kind = "push" => start.pc = "none")
  \/ op[o].pc = "prep" /\ start.pc = "none"
  \/ op[o].pc = "attached" /\ op[o].sett # "open"

Quiet ==
  /\ \A o \in Ops : ~Ready(o)
  /\ line # <<>> => op[Head(line)].res = "pending"
  /\ \A s \in Stoppers : stp[s].pc # "joined"

Init ==
  /\ phase = "active" /\ locked = FALSE
  /\ live = 0 /\ authority = 0 /\ mcp = 0 /\ gens = 0
  /\ start = NoStart
  /\ prov = [g \in 1..gens |-> "none"]
  /\ op = [o \in Ops |-> IdleOp]
  /\ line = <<>>
  /\ stp = [s \in Stoppers |-> IdleStop]
  /\ stops = 0
  /\ durable \in BOOLEAN
  /\ writes = <<>>
  /\ closedFact = FALSE
  /\ rep = [o \in Ops |-> "no"]
  /\ reportFailed = FALSE

At(o, pc) == [op EXCEPT ![o].pc = pc]
Words == {"status", "last"}   \* the writes a runtime makes through its lease
Queue(kind, who) == Append(writes, [kind |-> kind, who |-> who, go |-> FALSE])

\* A close publishes its fact unless a holder still has the entity.
FactAtCloseAlways == TRUE
FactAtClose == ~locked

----------------------------------------
(* RuntimeGeneration: starting                                             *)

\* Lease a generation and mint its MCP servers; createRuntime is awaited.
OpenGeneration ==
  /\ gens' = gens + 1
  /\ authority' = gens + 1
  /\ mcp' = gens + 1
  /\ start' = [pc |-> "create", gen |-> gens + 1]
  /\ prov' = [g \in 1..gens + 1 |-> IF g = gens + 1 THEN "none" ELSE prov[g]]
  /\ UNCHANGED live

\* ensureStarted and the head of startFromRecord: a closed record is reopened first.
BeginStart ==
  IF durable
    THEN /\ start' = [pc |-> "reopen", gen |-> 0]
         /\ writes' = Queue("reopen", 0)
         /\ UNCHANGED <<live, authority, mcp, gens, prov, durable>>
    ELSE OpenGeneration /\ UNCHANGED store

\* ensureRuntimeStarted up to its await: join a start, reuse a runtime, or launch.
EnsureStarted(o) ==
  \/ /\ phase # "active"
     /\ op' = At(o, "stopped")
     /\ UNCHANGED <<rt, store>>
  \/ /\ phase = "active" /\ start.pc # "none"
     /\ op' = At(o, "waitStart")
     /\ UNCHANGED <<rt, store>>
  \/ /\ phase = "active" /\ start.pc = "none" /\ live # 0
     /\ op' = At(o, "started")
     /\ UNCHANGED <<rt, store>>
  \/ /\ phase = "active" /\ start.pc = "none" /\ live = 0
     /\ op' = At(o, "waitStart")
     /\ BeginStart

\* The start promise settles: its waiters resume, a stop that joined it goes on.
FlightEnds(outcome) ==
  /\ start' = NoStart
  /\ op' = [o \in Ops |-> IF op[o].pc = "waitStart"
                            THEN [op[o] EXCEPT !.pc = outcome] ELSE op[o]]
  /\ stp' = [s \in Stoppers |-> IF stp[s].pc = "join"
                                  THEN [stp[s] EXCEPT !.pc = "joined"] ELSE stp[s]]

RuntimeCreated ==
  /\ Quiet /\ start.pc = "create"
  /\ prov' = [prov EXCEPT ![start.gen] = "new"]
  /\ live' = start.gen
  /\ start' = [start EXCEPT !.pc = "launch"]
  /\ UNCHANGED <<phase, locked, authority, mcp, gens, op, line, stp, stops, store, rest>>

\* resolveLaunch or createRuntime fails: no runtime exists, drop tokens and lease.
CreateFails ==
  /\ Quiet /\ start.pc = "create"
  /\ mcp' = 0 /\ authority' = 0
  /\ FlightEnds("failed")
  /\ UNCHANGED <<phase, locked, live, gens, prov, line, stops, store, rest>>

\* runtime.start() resolves: only after it published through its lease.  One that
\* a stop overtook is stopped all the same.
RuntimeStarts ==
  /\ Quiet /\ start.pc = "launch" /\ authority = start.gen
  /\ prov' = IF prov[start.gen] = "new" THEN [prov EXCEPT ![start.gen] = "up"] ELSE prov
  /\ FlightEnds("started")
  /\ UNCHANGED <<phase, locked, live, authority, mcp, gens, line, stops, store, rest>>

\* What g's runtime is once it is asked: a stop that was refused is tried "again", one under
\* way is joined.
AskedTo(g) ==
  CASE prov[g] \in {"new", "up"} -> "stopping"
    [] prov[g] = "stuck" -> "again"
    [] OTHER -> prov[g]

\* Mutant: the MCP tokens are kept until the runtime is down.
AskStopFirst(g) == UNCHANGED mcp /\ prov' = [prov EXCEPT ![g] = AskedTo(g)]

\* Ask generation g's runtime to stop; its MCP authority is dropped first.
AskStop(g) == mcp' = 0 /\ prov' = [prov EXCEPT ![g] = AskedTo(g)]

\* runtime.start() rejects: the rollback stops the runtime it launched.
StartFails ==
  /\ Quiet /\ start.pc = "launch"
  /\ AskStop(start.gen)
  /\ start' = [start EXCEPT !.pc = "rollback"]
  /\ UNCHANGED <<phase, locked, live, authority, gens, op, line, stp, stops, store, rest>>

RollbackStopped ==
  /\ Quiet /\ start.pc = "rollback" /\ prov[start.gen] = "down"
  /\ live' = IF live = start.gen THEN 0 ELSE live
  /\ authority' = 0
  /\ FlightEnds("failed")
  /\ UNCHANGED <<phase, locked, mcp, gens, prov, line, stops, store, rest>>

\* RuntimeTerminationUnproven: the handle stays and the entity stops being active.
RollbackUnproven ==
  /\ Quiet /\ start.pc = "rollback" /\ prov[start.gen] = "stuck"
  /\ authority' = 0
  /\ phase' = "closing"
  /\ FlightEnds("failed")
  /\ UNCHANGED <<locked, live, mcp, gens, prov, line, stops, store, rest>>

----------------------------------------
(* RuntimeGeneration.stopRuntime, run by a stopper s                       *)

\* The finally block: continuity, state lease and MCP tokens are dropped.
Revoke == authority' = 0 /\ mcp' = 0

\* Mutant: a submission that lost the race is never answered.
AfterStopSilent(s, failed) ==
  /\ stp' = [stp EXCEPT ![s] = IF s \in Ops THEN IdleStop
                               ELSE [pc |-> "drain", gen |-> 0, failed |-> failed]]
  /\ UNCHANGED op

\* What s does once stopRuntime is over: an op that lost the race is answered.
AfterStop(s, failed) ==
  IF s \in Ops
    THEN /\ stp' = [stp EXCEPT ![s] = IdleStop]
         /\ op' = At(s, IF failed THEN "failed" ELSE "stopped")
    ELSE /\ stp' = [stp EXCEPT ![s] = [pc |-> "drain", gen |-> 0, failed |-> failed]]
         /\ UNCHANGED op

\* Mutant: the lease is revoked as the runtime is asked to stop.
RevokedAtOnce == authority' = 0

\* While a runtime stops it may still write.
WhileStopping == UNCHANGED authority

\* The first stopOwnedRuntime.
StopFirst(s) ==
  \/ /\ live # 0
     /\ AskStop(live) /\ WhileStopping
     /\ stp' = [stp EXCEPT ![s] = [pc |-> "stop1", gen |-> live, failed |-> FALSE]]
     /\ UNCHANGED <<live, gens, start>>
  \/ /\ live = 0 /\ start.pc # "none"
     /\ stp' = [stp EXCEPT ![s] = [pc |-> "join", gen |-> 0, failed |-> FALSE]]
     /\ UNCHANGED rt
  \/ /\ live = 0 /\ start.pc = "none"
     /\ Revoke
     /\ stp' = [stp EXCEPT ![s] = [pc |-> "drain", gen |-> 0, failed |-> FALSE]]
     /\ UNCHANGED <<live, gens, start, prov>>

\* The second stopOwnedRuntime: only a runtime not yet attempted, then the finally.
StopSecond(s, stillLive, failed) ==
  IF stillLive \notin {0, stp[s].gen}
    THEN /\ AskStop(stillLive)
         /\ stp' = [stp EXCEPT ![s] = [pc |-> "stop2", gen |-> stillLive, failed |-> failed]]
         /\ UNCHANGED <<authority, op>>
    ELSE /\ Revoke /\ UNCHANGED prov
         /\ AfterStop(s, failed)

\* The handle goes only with a runtime proved dead (mutant: with any answer).
LiveAfterAnyStop(g) == IF live = g THEN 0 ELSE live
LiveAfterStop(g) == IF live = g /\ prov[g] = "down" THEN 0 ELSE live

\* runtime.stop() answers s: resolved once the runtime is down, rejected if stuck.
StopAnswered(s) ==
  /\ Quiet /\ stp[s].pc \in {"stop1", "stop2"}
  /\ prov[stp[s].gen] \in {"down", "stuck"}
  /\ LET failed == stp[s].failed \/ prov[stp[s].gen] = "stuck"
         left   == LiveAfterStop(stp[s].gen)
     IN  /\ live' = left
         /\ \/ /\ stp[s].pc = "stop1" /\ start.pc # "none"
               /\ stp' = [stp EXCEPT ![s].pc = "join", ![s].failed = failed]
               /\ UNCHANGED <<authority, mcp, prov, op>>
            \/ /\ stp[s].pc = "stop1" /\ start.pc = "none"
               /\ StopSecond(s, left, failed)
            \/ /\ stp[s].pc = "stop2"
               /\ Revoke /\ UNCHANGED prov
               /\ AfterStop(s, failed)
  /\ UNCHANGED <<phase, locked, gens, start, line, stops, store, rest>>

\* The start that s joined has settled.
StopJoined(s) ==
  /\ stp[s].pc = "joined"
  /\ StopSecond(s, live, stp[s].failed)
  /\ UNCHANGED <<phase, locked, live, gens, start, line, stops, store, rest>>

----------------------------------------
(* Submissions                                                             *)

\* submitInput, activate, and the router's prepareCompletion: pass the fence.
Enter(o, kind) ==
  /\ op[o].pc = "idle" /\ kind \in Kinds \ {"locked"}
  /\ Writable
  /\ op' = [op EXCEPT ![o] = [IdleOp EXCEPT !.kind = kind,
                                 !.pc = IF kind = "push" THEN "prep" ELSE "entered"]]
  /\ UNCHANGED <<phase, locked, rt, line, stp, stops, store, rest>>

\* submitLocked: authorized by the lock alone, so not fenced by a host stop.
EnterLocked(o) ==
  /\ op[o].pc = "idle" /\ "locked" \in Kinds
  /\ locked
  /\ LET me == [IdleOp EXCEPT !.kind = "locked"]
     IN  \/ /\ phase # "active"
            /\ op' = [op EXCEPT ![o] = [me EXCEPT !.pc = "stopped"]]
            /\ UNCHANGED <<rt, store>>
         \/ /\ phase = "active" /\ start.pc = "none" /\ live # 0
            /\ op' = [op EXCEPT ![o] = [me EXCEPT !.pc = "started"]]
            /\ UNCHANGED <<rt, store>>
         \/ /\ phase = "active" /\ (start.pc # "none" \/ live = 0)
            /\ op' = [op EXCEPT ![o] = [me EXCEPT !.pc = "waitStart"]]
            /\ IF start.pc = "none" THEN BeginStart ELSE UNCHANGED <<rt, store>>
  /\ UNCHANGED <<phase, locked, line, stp, stops, rest>>

\* prepareCompletion after its await: only a running runtime takes a push-back.
PushPrepares(o) ==
  /\ op[o].pc = "prep" /\ start.pc = "none"
  /\ op' = At(o, IF live = 0 THEN "stopped" ELSE "body")
  /\ UNCHANGED <<phase, locked, rt, line, stp, stops, store, rest>>

PushBodyBuilt(o) ==
  /\ Quiet /\ op[o].pc = "body"
  /\ op' = At(o, "prepared")
  /\ UNCHANGED <<phase, locked, rt, line, stp, stops, store, rest>>

\* submitCompletionInput: the fence is asked again, now to submit.
PushSubmits(o) ==
  /\ op[o].pc = "prepared"
  /\ op' = At(o, IF Writable THEN "entered" ELSE "stopped")
  /\ UNCHANGED <<phase, locked, rt, line, stp, stops, store, rest>>

\* submitRuntimeTurn: mustRuntime, the phase check, runtime.submit, the line.
Submit(o) ==
  \/ /\ live = 0 /\ op' = At(o, "failed") /\ UNCHANGED line
  \/ /\ live # 0 /\ phase # "active" /\ op' = At(o, "stopped") /\ UNCHANGED line
  \/ /\ live # 0 /\ phase = "active"
     /\ op' = [op EXCEPT ![o].pc = "submitting", ![o].gen = live,
                         ![o].res = IF prov[live] = "up" THEN "pending" ELSE "stopped"]
     /\ line' = Append(line, o)

\* The ledger runs the operation: admitToRuntime up to its first real await.
Admit(o) ==
  /\ op[o].pc = "entered"
  /\ \/ /\ op[o].kind # "push"
        /\ EnsureStarted(o)
        /\ UNCHANGED line
     \/ /\ op[o].kind = "push" /\ start.pc = "none"
        /\ IF live = 0 THEN op' = At(o, "stopped") /\ UNCHANGED line ELSE Submit(o)
        /\ UNCHANGED <<rt, store>>
  /\ UNCHANGED <<phase, locked, stp, stops, rest>>

\* ensureRuntimeStarted after its await, the entity still active.
ContinueStarted(o) ==
  /\ op[o].pc = "started" /\ phase = "active"
  /\ \/ /\ op[o].kind = "activate"
        /\ op' = At(o, "done") /\ UNCHANGED <<line, store>>
     \/ /\ op[o].kind = "locked"       \* assertLockToken, then submitAdmitted
        /\ op' = IF locked THEN [op EXCEPT ![o].pc = "entered", ![o].kind = "relocked"]
                           ELSE At(o, "failed")
        /\ UNCHANGED <<line, store>>
     \/ /\ op[o].kind = "send"         \* an input that carries an intent
        /\ op' = At(o, "intent")
        /\ writes' = Queue("intent", o) /\ UNCHANGED <<durable, line>>
     \/ /\ op[o].kind \in {"send", "relocked"}
        /\ Submit(o) /\ UNCHANGED store
  /\ UNCHANGED <<phase, locked, rt, stp, stops, rest>>

\* A close overtook the start: the runtime it produced is stopped here.
LoseStarted(o) ==
  /\ op[o].pc = "started" /\ phase # "active"
  /\ \/ /\ live = 0 /\ start.pc = "none"
        /\ Revoke
        /\ op' = At(o, "stopped")
        /\ UNCHANGED <<live, gens, start, prov, stp>>
     \/ /\ live # 0 \/ start.pc # "none"
        /\ op' = At(o, "losing")
        /\ StopFirst(o)
  /\ UNCHANGED <<phase, locked, line, stops, store, rest>>

\* The admission continuation at the head of the line attaches the turn.
Attach ==
  /\ line # <<>> /\ op[Head(line)].res # "pending"
  /\ line' = Tail(line)
  /\ op' = At(Head(line), IF op[Head(line)].res = "submitted" THEN "attached"
                          ELSE IF op[Head(line)].res = "stopped" THEN "stopped" ELSE "failed")
  /\ UNCHANGED <<phase, locked, rt, stp, stops, store, rest>>

\* The settlement reaction: select the outcome, retire the turn, report it.
React(o) ==
  /\ op[o].pc = "attached" /\ op[o].sett # "open"
  /\ op' = At(o, "done")
  /\ rep' = IF op[o].kind = "send" /\ Owes THEN [rep EXCEPT ![o] = "sending"] ELSE rep
  /\ UNCHANGED <<phase, locked, rt, line, stp, stops, store, closedFact, reportFailed>>

ReportEnds(o) ==
  /\ Quiet /\ rep[o] = "sending"
  /\ rep' = [rep EXCEPT ![o] = "sent"]
  /\ reportFailed' \in {reportFailed, TRUE}
  /\ UNCHANGED <<phase, locked, rt, op, line, stp, stops, store, closedFact>>

----------------------------------------
(* Lock, host stop and close                                               *)

Lock ==
  /\ "locked" \in Kinds
  /\ phase = "active" /\ ~locked /\ Mutating = {} /\ Unsettled = {}
  /\ locked' = TRUE
  /\ UNCHANGED <<phase, rt, op, line, stp, stops, store, rest>>

Unlock ==
  /\ locked /\ phase # "closing"
  /\ locked' = FALSE
  /\ closedFact' = (closedFact \/ phase = "closed")
  /\ UNCHANGED <<phase, rt, op, line, stp, stops, store, rep, reportFailed>>

StopForHost ==
  /\ phase = "active" /\ ~HostStopping /\ stops < MaxStops
  /\ stops' = stops + 1
  /\ stp' = [stp EXCEPT !["host"] = [IdleStop EXCEPT !.pc = "tick"]]
  /\ UNCHANGED <<phase, locked, rt, op, line, store, rest>>

\* convergeRuntimeWork of the host stop; submissions admitted before it run first.
HostConverges ==
  /\ Quiet /\ stp["host"].pc = "tick"
  /\ StopFirst("host")
  /\ UNCHANGED <<phase, locked, op, line, stops, store, rest>>

\* close by anyone while unlocked, or by the holder of the lock: closeAuthorized.
Close ==
  /\ phase # "closed" /\ ~Closing /\ stops < MaxStops
  /\ stops' = stops + 1
  /\ IF phase = "active" /\ durable /\ live = 0 /\ start.pc = "none"
       THEN /\ phase' = "closed"
            /\ closedFact' = FactAtClose
            /\ UNCHANGED <<rt, stp>>
       ELSE /\ phase' = "closing"
            /\ StopFirst("close")
            /\ UNCHANGED closedFact
  /\ UNCHANGED <<locked, op, line, store, rep, reportFailed>>

\* drainAdmissions.
AdmissionsDrained(s) ==
  /\ Quiet /\ stp[s].pc = "drain"
  /\ line = <<>>
  /\ stp' = [stp EXCEPT ![s].pc = "mutations"]
  /\ UNCHANGED <<phase, locked, rt, op, line, stops, store, rest>>

\* ordinaryMutations.drain and convergeRetainedTurns.
MutationsDrained(s) ==
  /\ Quiet /\ stp[s].pc = "mutations"
  /\ Mutating = {}
  /\ stp' = [stp EXCEPT ![s].pc = "reports", ![s].failed = @ \/ Unsettled # {}]
  /\ UNCHANGED <<phase, locked, rt, op, line, stops, store, rest>>

\* convergeReports; a failed convergence rejects, a good close goes on to clean up.
Converged(s) ==
  /\ Quiet /\ stp[s].pc = "reports"
  /\ \A o \in Ops : rep[o] # "sending"
  /\ reportFailed' = FALSE
  /\ stp' = [stp EXCEPT ![s] =
       IF s = "close" /\ ~stp[s].failed /\ ~reportFailed
         THEN [IdleStop EXCEPT !.pc = "cleanup"] ELSE IdleStop]
  /\ UNCHANGED <<phase, locked, rt, op, line, stops, store, closedFact, rep>>

\* worktrees.cleanup: a failure leaves the entity closing and close retryable.
CleanedUp ==
  /\ Quiet /\ stp["close"].pc = "cleanup"
  /\ \/ /\ stp' = [stp EXCEPT !["close"].pc = "write"]
        /\ writes' = Queue("close", 0)
     \/ /\ stp' = [stp EXCEPT !["close"] = IdleStop]
        /\ UNCHANGED writes
  /\ UNCHANGED <<phase, locked, rt, op, line, stops, durable, rest>>

----------------------------------------
(* The identity store: one FIFO of updates, the file written one at a time *)

\* Mutant: the lease is checked at the call only.
RefusedAtCall(w) == FALSE

\* The queued change of a runtime asks for its lease once more.
Refused(w) == w.kind \in Words /\ authority # w.who

\* The stop that waited for the last word of its runtime resolves, written or not.
SaidLast ==
  prov' = IF Head(writes).kind = "last" THEN [prov EXCEPT ![Head(writes).who] = "down"] ELSE prov

\* The change callback runs.
WriteBegins ==
  /\ writes # <<>> /\ ~Head(writes).go
  /\ IF Refused(Head(writes))
       THEN writes' = Tail(writes) /\ SaidLast
       ELSE writes' = [writes EXCEPT ![1].go = TRUE] /\ UNCHANGED prov
  /\ UNCHANGED <<phase, locked, live, authority, mcp, gens, start, op, line, stp, stops, durable, rest>>

Writing(kind) == Quiet /\ writes # <<>> /\ Head(writes).go /\ Head(writes).kind = kind

\* A status of the runtime is written; a failure is the runtime's own affair.
StatusWritten ==
  /\ \E kind \in Words : Writing(kind)
  /\ durable' \in {FALSE, durable} /\ writes' = Tail(writes) /\ SaidLast
  /\ UNCHANGED <<phase, locked, live, authority, mcp, gens, start, op, line, stp, stops, rest>>

\* The input's recovery subject is stored, then the input goes to the runtime.
IntentWritten ==
  /\ Writing("intent") /\ op[Head(writes).who].pc = "intent"
  /\ writes' = Tail(writes)
  /\ \/ Submit(Head(writes).who)
     \/ op' = At(Head(writes).who, "failed") /\ UNCHANGED line
  /\ UNCHANGED <<phase, locked, rt, stp, stops, durable, rest>>

\* A reopened record is "starting"; a failed update fails the start before its lease.
ReopenWritten ==
  /\ Writing("reopen") /\ start.pc = "reopen"
  /\ writes' = Tail(writes)
  /\ \/ /\ durable' = FALSE
        /\ OpenGeneration
        /\ UNCHANGED <<op, stp>>
     \/ /\ FlightEnds("failed")
        /\ UNCHANGED <<durable, live, authority, mcp, gens, prov>>
  /\ UNCHANGED <<phase, locked, line, stops, rest>>

\* The tail of transitionToClosed; a held entity publishes its fact at unlock.
CloseWritten ==
  /\ Writing("close") /\ stp["close"].pc = "write"
  /\ writes' = Tail(writes)
  /\ stp' = [stp EXCEPT !["close"] = IdleStop]
  /\ \/ /\ durable' = TRUE
        /\ phase' = "closed"
        /\ closedFact' = FactAtClose
     \/ UNCHANGED <<durable, phase, closedFact>>
  /\ UNCHANGED <<locked, rt, op, line, stops, rep, reportFailed>>

----------------------------------------
(* The native runtime (external)                                           *)

\* A leased status publication, possibly late; AgentRuntimeStateStore.publish.
Publish(g) ==
  /\ prov[g] # "none" /\ authority = g
  /\ Len(writes) < MaxWrites
  /\ writes' = Queue("status", g)
  /\ UNCHANGED <<phase, locked, rt, op, line, stp, stops, durable, rest>>

RuntimeAdmits(o) ==
  /\ Quiet /\ op[o].pc = "submitting" /\ op[o].res = "pending"
  /\ \E r \in {"submitted", "stopped", "failed"} :
       op' = [op EXCEPT ![o].res = r, ![o].sett = IF r = "submitted" THEN "open" ELSE "none"]
  /\ UNCHANGED <<phase, locked, rt, line, stp, stops, store, rest>>

RuntimeSettles(o) ==
  /\ Quiet /\ op[o].sett = "open"
  /\ op' = [op EXCEPT ![o].sett = "completed"]
  /\ UNCHANGED <<phase, locked, rt, line, stp, stops, store, rest>>

\* The runtime is torn down: it has converged every earlier admission and settles what it
\* accepted.
TornDown(g, next) ==
  /\ \A o \in Ops : op[o].gen = g => op[o].res # "pending"
  /\ prov' = [prov EXCEPT ![g] = next]
  /\ op' = [o \in Ops |-> IF op[o].gen = g /\ op[o].sett = "open"
                            THEN [op[o] EXCEPT !.sett = "stopped"] ELSE op[o]]
  /\ UNCHANGED <<phase, locked, live, authority, mcp, gens, start, line, stp, stops, durable, rest>>

\* Its stop() resolves only once its last word has been written ...
LastWord(g) ==
  /\ Quiet /\ prov[g] = "stopping" /\ authority = g
  /\ writes' = Queue("last", g)
  /\ TornDown(g, "ending")

\* ... unless it has none to say: its sink was lost to it, or it is stopped once more.
RuntimeStops(g) ==
  /\ Quiet /\ prov[g] \in {"stopping", "again"}
  /\ UNCHANGED writes
  /\ TornDown(g, "down")

RuntimeStopFails(g) ==
  /\ Quiet /\ prov[g] \in {"stopping", "again"}
  /\ prov' = [prov EXCEPT ![g] = "stuck"]
  /\ UNCHANGED <<phase, locked, live, authority, mcp, gens, start, op, line, stp, stops, store, rest>>

----------------------------------------
\* The reactions of submission o to promises that have settled.
OpContinues(o) ==
  \/ PushPrepares(o) \/ PushSubmits(o) \/ Admit(o)
  \/ ContinueStarted(o) \/ LoseStarted(o) \/ React(o)

StartAnswered ==
  \/ RuntimeCreated \/ CreateFails \/ RuntimeStarts \/ StartFails
  \/ RollbackStopped \/ RollbackUnproven

StoreAnswers == StatusWritten \/ IntentWritten \/ ReopenWritten \/ CloseWritten

Converges(s) == AdmissionsDrained(s) \/ MutationsDrained(s) \/ Converged(s)

RuntimeDown(g) == LastWord(g) \/ RuntimeStops(g) \/ RuntimeStopFails(g)

Next ==
  \/ Attach \/ WriteBegins
  \/ StartAnswered \/ StoreAnswers
  \/ HostConverges \/ CleanedUp
  \/ Lock \/ Unlock \/ StopForHost \/ Close
  \/ \E o \in Ops : \/ OpContinues(o)
                    \/ PushBodyBuilt(o) \/ ReportEnds(o)
                    \/ RuntimeAdmits(o) \/ RuntimeSettles(o)
                    \/ EnterLocked(o)
                    \/ \E k \in Kinds : Enter(o, k)
  \/ \E s \in Stoppers : StopAnswered(s) \/ StopJoined(s)
  \/ \E s \in {"host", "close"} : Converges(s)
  \/ \E g \in 1..gens : RuntimeDown(g) \/ Publish(g)

Spec == Init /\ [][Next]_vars

\* Promises that settled run; the runtime, the disk and the recipients answer.
\* A turn need not end by itself, and nobody has to call the entity.
Fairness ==
  /\ WF_vars(Attach) /\ WF_vars(WriteBegins)
  /\ WF_vars(StartAnswered) /\ WF_vars(StoreAnswers)
  /\ WF_vars(HostConverges) /\ WF_vars(CleanedUp)
  /\ \A o \in Ops : /\ WF_vars(OpContinues(o))
                     /\ WF_vars(PushBodyBuilt(o))
                     /\ WF_vars(ReportEnds(o))
                     /\ WF_vars(RuntimeAdmits(o))
  /\ \A s \in Stoppers : WF_vars(StopAnswered(s)) /\ WF_vars(StopJoined(s))
  /\ \A s \in {"host", "close"} : WF_vars(Converges(s))
  /\ \A g \in 1..2 * Cardinality(Ops) : WF_vars(g \in 1..gens /\ RuntimeDown(g))

FairSpec == Spec /\ Fairness

----------------------------------------
(* Properties                                                              *)

ProvStates  == {"none", "new", "up", "stopping", "ending", "down", "stuck", "again"}
OpPcs       == Busy \cup {"idle", "prepared", "attached", "done", "stopped", "failed"}
StopPcs     == {"idle", "tick", "stop1", "join", "joined", "stop2", "drain",
                "mutations", "reports", "cleanup", "write"}
OpType      == [pc : OpPcs, kind : AllKinds \cup {"relocked"}, gen : Nat,
                res : {"none", "pending", "submitted", "stopped", "failed"},
                sett : {"none", "open", "completed", "stopped"}]
StartType   == [pc : {"none", "reopen", "create", "launch", "rollback"}, gen : Nat]
StopType    == [pc : StopPcs, gen : Nat, failed : BOOLEAN]
WriteType   == [kind : Words, who : Nat, go : BOOLEAN]
               \cup [kind : {"intent"}, who : Ops, go : BOOLEAN]
               \cup [kind : {"reopen", "close"}, who : {0}, go : BOOLEAN]

\* Type invariant: every variable of the entity has a value of its type.
TypeOK ==
  /\ phase \in {"active", "closing", "closed"}
  /\ locked \in BOOLEAN
  /\ gens \in Nat
  /\ live \in 0..gens /\ authority \in 0..gens /\ mcp \in 0..gens
  /\ start \in StartType
  /\ prov \in [1..gens -> ProvStates]
  /\ op \in [Ops -> OpType]
  /\ line \in Seq(Ops)
  /\ stp \in [Stoppers -> StopType]
  /\ stops \in Nat
  /\ durable \in BOOLEAN
  /\ writes \in Seq(WriteType)
  /\ closedFact \in BOOLEAN
  /\ rep \in [Ops -> {"no", "sending", "sent"}]
  /\ reportFailed \in BOOLEAN

\* No native runtime is orphaned: every runtime that was created and not stopped
\* is the one the entity still holds, whatever close, host stop, failed start or
\* joined start came in between.  In particular there is never a second one.
RuntimeIsHeld ==
  \A g \in 1..gens : prov[g] \in ProvStates \ {"none", "down"} => live = g

\* MCP authority is gone before the native runtime it served is torn down: a
\* shim that survives cannot start work for an entity that is going away.
McpGoneBeforeTeardown ==
  \A g \in 1..gens : prov[g] \in ProvStates \ {"none", "new", "up"} => mcp # g

LeaseStep ==
  /\ \A g \in 1..gens :
       /\ authority = g /\ authority' # g => prov[g] \in {"none", "down", "stuck", "again"}
       /\ prov[g] = "ending" /\ prov'[g] # "ending" =>
            Head(writes) = [kind |-> "last", who |-> g, go |-> TRUE]
  /\ /\ writes # <<>> /\ Head(writes).kind \in Words /\ ~Head(writes).go
     /\ writes' = [writes EXCEPT ![1].go = TRUE]
     => authority = Head(writes).who

\* The state lease outlives the runtime, and nothing else does.  While a runtime runs or stops
\* it keeps its lease, unless a stop of it was refused; its last word is never turned away
\* (runtime-generation.ts:147-174); and what a runtime has queued is not written for it once
\* the lease is gone, whoever holds the entity by then (runtime-state.ts:153-169).
LastWordBeforeRevoke == [][LeaseStep]_vars

\* A closed entity owns nothing: no runtime, no start, no tokens, no lease, no
\* accepted input without its outcome and no report still on its way.
ClosedOwnsNothing ==
  phase = "closed" =>
    /\ live = 0 /\ start.pc = "none" /\ authority = 0 /\ mcp = 0
    /\ line = <<>> /\ Unsettled = {}
    /\ \A o \in Ops : rep[o] # "sending"

\* A lock holder has the entity for itself: no ordinary submission, activation
\* or push-back is between its fence and its end while the lock is held.
LockExcludesMutation == locked => Mutating = {}

\* The owner may drop the entity on `closed`: by then no lock is held and the
\* entity is closed on disk.
ClosedFactOnlyWhenRetired == closedFact => phase = "closed" /\ ~locked /\ durable

\* So `closed` means gone: to the owner, on disk, and to everything the entity had.
ClosedMeansGone == ClosedOwnsNothing /\ ClosedFactOnlyWhenRetired

\* A turn that a stop ended is never reported to the party that asked for it.
NoReportOfStoppedTurn == \A o \in Ops : rep[o] # "no" => op[o].sett # "stopped"

(* Every close call ends: it closes the entity or it rejects and can be       *)
(* retried.  Every host stop ends, so the fence it put up comes down again.   *)
(* And a submission that passed the fence is answered, whatever stops, fails  *)
(* or is superseded meanwhile.                                                *)
EntitySettles ==
  /\ Closing ~> ~Closing
  /\ HostStopping ~> ~HostStopping
  /\ \A o \in Ops : op[o].pc \in Busy ~> op[o].pc \notin Busy
========================================
