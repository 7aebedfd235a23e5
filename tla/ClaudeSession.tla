---------------------------- MODULE ClaudeSession ----------------------------
(* The Claude Code runtime and its resident session: runtime.ts,            *)
(* supervisor.ts, rpc.ts and control-rpc.ts of packages/agent-runtime/      *)
(* claude-code/src.                                                         *)
(*                                                                          *)
(* A submission waits for a live session, is registered and written to the  *)
(* child, and is answered by a native result; an idle timer bounds how long  *)
(* the child may be silent while work is outstanding.  A session that ends   *)
(* is replaced by the next submission.  Sessions are numbered; only the      *)
(* newest has an open transport.                                            *)
EXTENDS Naturals, FiniteSets

CONSTANTS
  Subs,        \* submissions Core makes
  Sessions     \* bound: sessions the runtime makes

SessionsAssumption ==
  IsFiniteSet(Subs) /\ "start" \notin Subs /\ Sessions \in Nat \ {0}

VARIABLES
  stopped, fenced,       \* of the runtime
  session,               \* this.session, 0 for null
  made,                  \* sessions made
  child,                 \* of each session: "unborn", "alive", "dead"
  bound,                 \* sessions whose spawn was seen: the child reference
  stopReq, exitErr,      \* sessions asked to stop; sessions whose child was lost
  kill,                  \* of each session: "no", "running", "failed", "done"
  rpc,                   \* the session whose transport is open, or 0
  requests, consumed,    \* of that transport; consumed by the native turn
  timer,                 \* its idle timer
  ask, asked,            \* a pending interrupt; interruptRequested
  step, target,          \* of each submission and of "start"
  admission, settlement, \* of each submission
  pc, on, verdict,       \* tasks that wait for a session to be stopped
  creating               \* sessionStarting: where the creation is

runtime == <<stopped, fenced, session, made>>
children == <<child, bound, stopReq, exitErr, kill>>
transport == <<rpc, requests, consumed, timer, ask, asked>>
callers == <<step, target, admission, settlement>>
waits == <<pc, on, verdict>>
vars == <<runtime, children, transport, callers, waits, creating>>

Numbers == 1 .. Sessions
Callers == Subs \union {"start"}
Tasks == {"create", "exit", "stop", "fence"}

TypeOK ==
  /\ stopped \in BOOLEAN /\ fenced \in BOOLEAN
  /\ {session, made, rpc} \subseteq 0 .. Sessions
  /\ child \in [Numbers -> {"unborn", "alive", "dead"}]
  /\ UNION {bound, stopReq, exitErr} \subseteq Numbers
  /\ kill \in [Numbers -> {"no", "running", "failed", "done"}]
  /\ requests \subseteq Subs /\ consumed \subseteq Subs
  /\ {timer, ask, asked} \subseteq BOOLEAN
  /\ step \in [Callers -> {"new", "opening", "ensuring", "have", "writing",
                           "readying", "over"}]
  /\ target \in [Callers -> 0 .. Sessions]
  /\ admission \in [Subs -> {"pending", "submitted", "stopped", "failed", "ambiguous"}]
  /\ settlement \in [Subs -> {"open", "completion", "failed", "stopped"}]
  /\ on \in [Tasks -> 0 .. Sessions] /\ verdict \in [Tasks -> {"none", "gone", "kept"}]
  /\ pc \in [Tasks -> {"idle", "waiting", "closing", "draining", "stuck", "over"}]
  /\ creating \in {"no", "clearing", "opening", "launching", "publishing", "aborting"}

Init ==
  /\ stopped = FALSE /\ fenced = FALSE /\ session = 0 /\ made = 0
  /\ child = [n \in Numbers |-> "unborn"] /\ bound = {} /\ stopReq = {} /\ exitErr = {}
  /\ kill = [n \in Numbers |-> "no"]
  /\ rpc = 0 /\ requests = {} /\ consumed = {} /\ timer = FALSE
  /\ ask = FALSE /\ asked = FALSE
  /\ step = [c \in Callers |-> "new"] /\ target = [c \in Callers |-> 0]
  /\ admission = [s \in Subs |-> "pending"] /\ settlement = [s \in Subs |-> "open"]
  /\ pc = [k \in Tasks |-> "idle"] /\ on = [k \in Tasks |-> 0]
  /\ verdict = [k \in Tasks |-> "none"]
  /\ creating = "no"
----------------------------------------
IsAlive(n) == n \in bound /\ n \notin stopReq \union exitErr

\* Requests end: those not yet admitted are admitted as `outcome`.
Settle(ended, outcome, how) ==
  /\ admission' = [s \in Subs |-> IF s \in ended /\ admission[s] = "pending"
                                  THEN outcome ELSE admission[s]]
  /\ settlement' = [s \in Subs |-> IF s \in ended THEN how ELSE settlement[s]]
  /\ step' = [c \in Callers |-> IF c \in ended THEN "over" ELSE step[c]]

\* Mutant: the transport goes without answering what was written to it.
CloseTransportSilent(how) ==
  /\ rpc' = 0 /\ requests' = {} /\ consumed' = {} /\ timer' = FALSE
  /\ ask' = (ask /\ ~asked) /\ asked' = FALSE
  /\ UNCHANGED <<admission, settlement, step>>

\* close(): the transport ends, every request and a pending interrupt with it.
CloseTransport(how) ==
  /\ rpc' = 0 /\ requests' = {} /\ consumed' = {} /\ timer' = FALSE
  /\ ask' = (ask /\ ~asked) /\ asked' = FALSE
  /\ Settle(requests, "ambiguous", how)

KeepTransport == UNCHANGED <<transport, step, admission, settlement>>

\* ClaudeCodeSession.stop by the tasks ks: a session stopped before resolves at
\* once, a stop under way is joined, one that failed is tried again.
StopSession(n, ks) ==
  LET needed == n # 0 /\ kill[n] \in {"no", "failed"}
      waiting == n # 0 /\ (kill[n] = "running" \/ (needed /\ child[n] # "unborn"))
  IN /\ stopReq' = IF n = 0 THEN stopReq ELSE stopReq \union {n}
     /\ kill' = IF needed THEN [kill EXCEPT ![n] = IF child[n] = "unborn"
                                                   THEN "done" ELSE "running"]
                ELSE kill
     /\ IF needed /\ rpc = n THEN CloseTransport("stopped") ELSE KeepTransport
     /\ on' = [k \in Tasks |-> IF k \in ks THEN n ELSE on[k]]
     /\ verdict' = [k \in Tasks |-> IF k \notin ks THEN verdict[k]
                                    ELSE IF waiting THEN "none" ELSE "gone"]

\* The reference goes when the session it names is proved gone.
Dropped(k) == session' = IF verdict[k] = "gone" /\ session = on[k] THEN 0 ELSE session

\* Waiters of a creation go on with the session, or without one.
Ensured(n) ==
  /\ step' = [c \in Callers |-> IF step[c] # "ensuring" THEN step[c]
                                ELSE IF n # 0 THEN "have"
                                ELSE "over"]
  /\ target' = [c \in Callers |-> IF step[c] = "ensuring" THEN n ELSE target[c]]
  /\ admission' = [s \in Subs |-> IF step[s] = "ensuring" /\ n = 0
                                  THEN IF stopped THEN "stopped" ELSE "failed"
                                  ELSE admission[s]]

Refused(s, why) ==
  /\ admission' = [admission EXCEPT ![s] = why]
  /\ step' = [step EXCEPT ![s] = "over"]
----------------------------------------
(* start and submit, up to a session.                                       *)

\* "starting" is published first; nothing else of a start comes before it.
Start ==
  /\ step["start"] = "new" /\ ~stopped
  /\ step' = [step EXCEPT !["start"] = "opening"]
  /\ UNCHANGED <<runtime, children, transport, target, admission, settlement, waits, creating>>

\* createSession: a session that is there is stopped before the next is made.
\* It is not alive, so its transport, when it opened after the loss of the
\* child, has neither a request nor an interrupt.
NewSession ==
  /\ made < Sessions /\ made' = made + 1 /\ session' = made + 1
  /\ creating' = "opening"
BeginCreation ==
  IF session # 0
  THEN /\ creating' = "clearing" /\ UNCHANGED <<session, made>>
       /\ rpc' = IF rpc = session THEN 0 ELSE rpc
       /\ LET n == session IN
          /\ stopReq' = stopReq \union {n}
          /\ kill' = [kill EXCEPT ![n] = IF @ \in {"no", "failed"} THEN "running" ELSE @]
          /\ on' = [on EXCEPT !["create"] = n]
          /\ verdict' = [verdict EXCEPT !["create"] =
                           IF kill[n] = "done" THEN "gone" ELSE "none"]
  ELSE NewSession /\ UNCHANGED <<rpc, stopReq, kill, on, verdict>>

\* ensureSession, of a start whose first write landed or of a submission.
Ensure(c) ==
  /\ \/ c = "start" /\ step[c] = "opening"
     \/ c \in Subs /\ step[c] = "new" /\ step["start"] # "new"
  /\ IF stopped
     THEN /\ step' = [step EXCEPT ![c] = "over"]
          /\ admission' = [s \in Subs |-> IF s = c THEN "stopped" ELSE admission[s]]
          /\ UNCHANGED <<target, session, made, rpc, stopReq, kill, on, verdict, creating>>
     ELSE /\ UNCHANGED admission
          /\ IF creating = "no" /\ session # 0 /\ IsAlive(session)
             THEN /\ step' = [step EXCEPT ![c] = "have"]
                  /\ target' = [target EXCEPT ![c] = session]
                  /\ UNCHANGED <<session, made, rpc, stopReq, kill, on, verdict, creating>>
             ELSE /\ step' = [step EXCEPT ![c] = "ensuring"] /\ UNCHANGED target
                  /\ IF creating = "no" THEN BeginCreation
                     ELSE UNCHANGED <<session, made, rpc, stopReq, kill, on, verdict, creating>>
  /\ UNCHANGED <<stopped, fenced, child, bound, exitErr, requests, consumed, timer,
                 ask, asked, settlement, pc>>

CreationFails ==
  /\ creating' = "no" /\ Ensured(0)

\* The previous session is gone, or could not be proved gone.
Cleared ==
  /\ creating = "clearing" /\ verdict["create"] # "none"
  /\ LET gone == verdict["create"] = "gone"
         free == IF gone /\ session = on["create"] THEN 0 ELSE session
     IN IF gone /\ ~stopped
        THEN /\ NewSession /\ UNCHANGED <<step, target, admission>>
        ELSE /\ CreationFails /\ session' = free /\ UNCHANGED made
  /\ UNCHANGED <<stopped, fenced, children, transport, settlement, waits>>

\* startSession up to the spawn: the supervisor and its pid are there at once.
Launch ==
  /\ creating = "opening"
  /\ \/ /\ made \notin stopReq
        /\ child' = [child EXCEPT ![made] = "alive"] /\ creating' = "launching"
     \/ creating' = "aborting" /\ UNCHANGED child
  /\ UNCHANGED <<runtime, bound, stopReq, exitErr, kill, transport, callers, waits>>

\* The spawn is seen: the transport opens and the session is published.
Spawned ==
  /\ creating = "launching"
  /\ bound' = bound \union {made}
  /\ IF made \notin stopReq
     THEN rpc' = made /\ creating' = "publishing"
     ELSE creating' = "aborting" /\ UNCHANGED rpc
  /\ UNCHANGED <<runtime, child, stopReq, exitErr, kill, requests, consumed, timer,
                 ask, asked, callers, waits>>

Published ==
  /\ creating = "publishing"
  /\ IF stopped THEN creating' = "aborting" /\ UNCHANGED <<step, target, admission>>
     ELSE creating' = "no" /\ Ensured(made)
  /\ UNCHANGED <<runtime, children, transport, settlement, waits>>

\* A failed creation stops what it made, unless the runtime's own stop does.
Abort ==
  /\ creating = "aborting" /\ pc["create"] = "idle"
  /\ IF stopped
     THEN /\ CreationFails
          /\ UNCHANGED <<stopReq, kill, transport, settlement, waits>>
     ELSE /\ pc' = [pc EXCEPT !["create"] = "waiting"]
          /\ StopSession(made, {"create"})
          /\ UNCHANGED <<creating, target>>
  /\ UNCHANGED <<runtime, child, bound, exitErr>>

Aborted ==
  /\ pc["create"] = "waiting" /\ verdict["create"] # "none"
  /\ pc' = [pc EXCEPT !["create"] = "idle"]
  /\ Dropped("create") /\ CreationFails
  /\ UNCHANGED <<stopped, fenced, made, children, transport, settlement, on, verdict>>

\* The start has its session: "ready" is published, and the start is over.
StartEnds ==
  /\ \/ step["start"] = "have" /\ step' = [step EXCEPT !["start"] = "readying"]
     \/ step["start"] = "readying" /\ step' = [step EXCEPT !["start"] = "over"]
  /\ UNCHANGED <<runtime, children, transport, target, admission, settlement, waits, creating>>
----------------------------------------
(* A submission that has a session.                                         *)
Write(s) ==
  /\ step[s] = "have"
  /\ LET n == target[s] IN
     IF stopped \/ n \in stopReq \/ n \in exitErr \/ rpc # n
     THEN /\ Refused(s, IF stopped \/ (n \notin exitErr /\ n \in stopReq)
                        THEN "stopped" ELSE "failed")
          /\ UNCHANGED <<requests, timer>>
     ELSE /\ requests' = requests \union {s} /\ timer' = TRUE
          /\ step' = [step EXCEPT ![s] = "writing"] /\ UNCHANGED admission
  /\ UNCHANGED <<runtime, children, rpc, consumed, ask, asked, target, settlement,
                 waits, creating>>

Accepted(s) == [admission EXCEPT ![s] = IF @ = "pending" THEN "submitted" ELSE @]

WriteAcked(s) ==
  /\ s \in requests /\ admission[s] = "pending"
  /\ admission' = Accepted(s) /\ step' = [step EXCEPT ![s] = "over"]
  /\ UNCHANGED <<runtime, children, transport, target, settlement, waits, creating>>

\* failWrite, of a request nothing has acknowledged.
WriteFailed(s) ==
  /\ s \in requests /\ admission[s] = "pending"
  /\ requests' = requests \ {s} /\ consumed' = consumed \ {s}
  /\ timer' = (timer /\ requests' # {})
  /\ Settle({s}, "ambiguous", "failed")
  /\ UNCHANGED <<runtime, children, rpc, ask, asked, target, waits, creating>>

\* command_lifecycle "started": evidence of the write, and part of the turn.
CommandStarted(s) ==
  /\ rpc # 0 /\ s \in requests /\ s \notin consumed
  /\ consumed' = consumed \union {s}
  /\ admission' = Accepted(s) /\ step' = [step EXCEPT ![s] = "over"]
  /\ timer' = (requests # {})
  /\ UNCHANGED <<runtime, children, rpc, requests, ask, asked, target, settlement,
                 waits, creating>>

\* "discarded", "refused", or "cancelled": the command ends here, except that
\* the result of a turn answers the cancelled commands it consumed.
CommandEnded(s, how) ==
  /\ rpc # 0 /\ s \in requests
  /\ IF how = "cancelled" /\ s \in consumed
     THEN /\ timer' = (requests # {})
          /\ admission' = Accepted(s)
          /\ UNCHANGED <<requests, settlement, step>>
     ELSE /\ requests' = requests \ {s} /\ timer' = (requests' # {})
          /\ Settle({s}, "submitted", "failed")
  /\ UNCHANGED <<runtime, children, rpc, consumed, ask, asked, target, waits, creating>>

\* A native result answers the requests its turn consumed, and the one it
\* names; the first after an interrupt answers that.
Result(named, interrupted) ==
  /\ rpc # 0
  /\ LET answered == requests \intersect (consumed \union named) IN
     /\ requests' = requests \ answered
     /\ Settle(answered, "submitted", IF interrupted THEN "stopped" ELSE "completion")
  /\ consumed' = {} /\ timer' = (requests' # {})
  /\ ask' = (ask /\ ~asked) /\ asked' = FALSE
  /\ UNCHANGED <<runtime, children, rpc, target, waits, creating>>

Interrupt ==
  /\ rpc # 0 /\ session = rpc /\ ~stopped /\ IsAlive(session) /\ ~ask
  /\ ask' = TRUE /\ asked' = TRUE
  /\ UNCHANGED <<runtime, children, rpc, requests, consumed, timer, callers, waits, creating>>

\* The control response, or the refusal of the write, which forgets the ask.
InterruptAnswered ==
  /\ rpc # 0 /\ ask /\ ask' = FALSE
  /\ asked' \in {asked, FALSE}
  /\ UNCHANGED <<runtime, children, rpc, requests, consumed, timer, callers, waits, creating>>
----------------------------------------
(* The child is lost.                                                       *)

\* onChildExit: the transport fails and the runtime, if this is its session,
\* stops what is left of it.
ChildLost(n, also) ==
  /\ exitErr' = exitErr \union {n}
  /\ LET handles == session = n /\ ~stopped /\ pc["exit"] = "idle"
         stops == handles \/ also
     IN /\ stopReq' = IF stops THEN stopReq \union {n} ELSE stopReq
        /\ kill' = IF stops THEN [kill EXCEPT ![n] = "running"] ELSE kill
        /\ IF handles
           THEN /\ pc' = [pc EXCEPT !["exit"] = "waiting"]
                /\ on' = [on EXCEPT !["exit"] = n]
                /\ verdict' = [verdict EXCEPT !["exit"] = "none"]
           ELSE UNCHANGED waits
  /\ IF rpc = n THEN CloseTransport("failed") ELSE KeepTransport

ChildExits(n) ==
  /\ child[n] = "alive" /\ child' = [child EXCEPT ![n] = "dead"]
  /\ IF n \in stopReq \union exitErr
     THEN UNCHANGED <<stopReq, exitErr, kill, waits>> /\ KeepTransport
     ELSE ChildLost(n, FALSE)
  /\ UNCHANGED <<runtime, bound, target, creating>>

\* Nothing on the stream for turn_timeout_ms: the session is reaped.
IdleTimerFires ==
  /\ timer /\ rpc \notin stopReq \union exitErr
  /\ ChildLost(rpc, TRUE)
  /\ UNCHANGED <<runtime, child, bound, target, creating>>

ExitHandled ==
  /\ pc["exit"] = "waiting" /\ verdict["exit"] # "none"
  /\ pc' = [pc EXCEPT !["exit"] = "idle"] /\ Dropped("exit")
  /\ UNCHANGED <<stopped, fenced, made, children, transport, callers, on, verdict, creating>>

KillEnds(n) ==
  /\ kill[n] = "running"
  /\ \E gone \in BOOLEAN :
       /\ gone \/ child[n] = "alive"
       /\ child' = [child EXCEPT ![n] = IF gone THEN "dead" ELSE @]
       /\ kill' = [kill EXCEPT ![n] = IF gone THEN "done" ELSE "failed"]
       /\ verdict' = [k \in Tasks |-> IF on[k] = n /\ verdict[k] = "none"
                                      THEN IF gone THEN "gone" ELSE "kept" ELSE verdict[k]]
  /\ UNCHANGED <<runtime, bound, stopReq, exitErr, transport, callers, pc, on, creating>>
----------------------------------------
(* stop() and the fence.                                                    *)

\* Both fence the input and stop the session at hand by one step.
StopBegins ==
  /\ pc["stop"] = "idle" /\ ~fenced
  /\ stopped' = TRUE /\ pc' = [pc EXCEPT !["stop"] = "waiting"]
  /\ StopSession(session, {"stop"})
  /\ UNCHANGED <<fenced, session, made, child, bound, exitErr, target, creating>>

\* A write of the state that nobody or a creation awaits has failed.
FenceCloses ==
  /\ ~fenced /\ step["start"] # "new" /\ pc["stop"] # "over"
  /\ fenced' = TRUE /\ stopped' = TRUE
  /\ pc' = [pc EXCEPT !["fence"] = "waiting"]
  /\ StopSession(session, {"fence"})
  /\ UNCHANGED <<session, made, child, bound, exitErr, target, creating>>

FenceTorn ==
  /\ pc["fence"] = "waiting" /\ verdict["fence"] # "none"
  /\ pc' = [pc EXCEPT !["fence"] = IF verdict["fence"] = "gone" THEN "over" ELSE "stuck"]
  /\ Dropped("fence")
  /\ UNCHANGED <<stopped, fenced, made, children, transport, callers, on, verdict, creating>>

\* A stop that follows the fence joins it, and tries again what it left.
StopFenced ==
  /\ pc["stop"] = "idle" /\ fenced
  /\ \/ /\ pc["fence"] = "over" /\ pc' = [pc EXCEPT !["stop"] = "draining"]
        /\ UNCHANGED <<stopReq, kill, on, verdict>> /\ KeepTransport
     \/ /\ pc["fence"] = "stuck" /\ pc' = [pc EXCEPT !["stop"] = "closing"]
        /\ StopSession(session, {"stop"})
  /\ UNCHANGED <<runtime, child, bound, exitErr, target, creating>>

\* "stopping" is published; the session that is there by now is stopped too.
StopAgain ==
  /\ pc["stop"] = "waiting" /\ pc' = [pc EXCEPT !["stop"] = "closing"]
  /\ IF session = on["stop"]
     THEN UNCHANGED <<stopReq, kill, on, verdict>> /\ KeepTransport
     ELSE StopSession(session, {"stop"})
  /\ UNCHANGED <<runtime, child, bound, exitErr, target, creating>>

StopTorn ==
  /\ pc["stop"] = "closing" /\ verdict["stop"] # "none" /\ Dropped("stop")
  /\ pc' = [pc EXCEPT !["stop"] = IF verdict["stop"] = "gone" THEN "draining" ELSE "idle"]
  /\ UNCHANGED <<stopped, fenced, made, children, transport, callers, on, verdict, creating>>

\* drainAdmissions; "stopped" is the last thing published.
StopEnds ==
  /\ pc["stop"] = "draining" /\ \A s \in Subs : step[s] \in {"new", "over"}
  /\ pc' = [pc EXCEPT !["stop"] = "over"]
  /\ UNCHANGED <<runtime, children, transport, callers, on, verdict, creating>>

Creation == Cleared \/ Launch \/ Spawned \/ Published \/ Abort \/ Aborted

Next ==
  \/ Start \/ StartEnds
  \/ \E c \in Callers : Ensure(c)
  \/ Creation
  \/ \E s \in Subs : Write(s) \/ WriteAcked(s) \/ WriteFailed(s) \/ CommandStarted(s)
  \/ \E s \in Subs, how \in {"cancelled", "refused"} : CommandEnded(s, how)
  \/ \E named \in {{}} \union {{s} : s \in Subs}, b \in BOOLEAN : Result(named, b)
  \/ Interrupt \/ InterruptAnswered
  \/ \E n \in Numbers : ChildExits(n) \/ KillEnds(n)
  \/ IdleTimerFires \/ ExitHandled
  \/ StopBegins \/ FenceCloses \/ FenceTorn \/ StopFenced \/ StopAgain \/ StopTorn \/ StopEnds

Spec == Init /\ [][Next]_vars
----------------------------------------
(* A submission that Core was told is accepted is settled, or the transport *)
(* it was written to is open and its idle timer runs: a result, the loss of *)
(* the child, the timer or a stop will end it, whichever comes first.       *)
NoWorkWithoutDeadline ==
  \A s \in Subs : admission[s] = "submitted" /\ settlement[s] = "open" =>
    s \in requests /\ rpc # 0 /\ timer

(* The session keeps the runtime's contract: who was accepted is settled     *)
(* once, and a stop that has resolved leaves nobody asked or accepted.       *)
Promised(s) ==
  CASE step[s] = "new" -> "none"
    [] step[s] # "new" /\ admission[s] = "submitted" ->
         IF settlement[s] = "open" THEN "accepted" ELSE "settled"
    [] step[s] # "new" /\ admission[s] = "pending" -> "asked"
    [] OTHER -> "refused"

Contract == INSTANCE RuntimeContract WITH
  over <- pc["stop"] = "over", phase <- [s \in Subs |-> Promised(s)]
KeepsContract == Contract!Spec

(* A stop that resolves has left no child and no unanswered interrupt.       *)
StopLeavesNothing ==
  pc["stop"] = "over" =>
    /\ \A n \in Numbers : child[n] # "alive"
    /\ rpc = 0 /\ ~ask
========================================
