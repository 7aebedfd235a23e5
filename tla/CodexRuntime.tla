---------------------------- MODULE CodexRuntime ----------------------------
(* The resident Codex app-server of an agent: runtime.ts and supervisor.ts   *)
(* of packages/agent-runtime/codex/src, over the supervised child and the    *)
(* state fence of packages/dreamux-utils/src.                                *)
(*                                                                          *)
(* Four tasks share one process, one client and one turn manager: the start, *)
(* the restart a timer begins after the child or the socket is lost, the     *)
(* stop, and the teardown of the fence, which closes when a state write      *)
(* fails.  Each await is a step; what a task does after it is guarded by the *)
(* generation it began in.  The attempts to start a child are numbered, and  *)
(* so are the client and the thread an attempt makes.                        *)
EXTENDS Naturals, Sequences, FiniteSets

CONSTANTS
  Attempts,     \* bound: children the runtime makes
  Resumes       \* the session the identity already has, or 0

ASSUME RuntimeAssumption == Attempts \in Nat \ {0} /\ Resumes \in Nat

VARIABLES
  status, stopping, restarting, generation, timer, fenced,
  process, client, manager, thread,      \* this.process, ...; 0 is null
  pc, gen, mine, candidate,              \* of each task
  cleared,      \* the restart's first teardown is behind it
  joined,       \* the stop follows a fence whose teardown failed
  wasStopping,  \* of cleanupOnFailure
  writes,       \* state writes on their way, in order: a task that waits for
                \* its own, or "degraded" and "stopping", nobody's
  used,         \* attempts made
  child,        \* of each attempt: "unborn", "alive", "dead"
  reap,         \* of each attempt: "no", "running", "failed", "done"
  open,         \* attempts whose socket is connected
  known, lost   \* Core's record: the session, session_lost told since

own == <<status, stopping, restarting, generation, timer, fenced>>
parts == <<process, client, manager, thread>>
flags == <<cleared, joined, wasStopping>>
tasks == <<pc, gen, mine, candidate, flags, writes>>
world == <<used, child, reap, open>>
record == <<known, lost>>
vars == <<own, parts, tasks, world, record>>

Starters == {"start", "restart"}
Tasks == Starters \union {"stop", "fence"}
Numbers == 1 .. Attempts
Session(p) == Resumes + p     \* the thread that attempt p starts afresh

TypeOK ==
  /\ status \in {"declared", "starting", "ready", "degraded", "stopping", "stopped"}
  /\ {stopping, restarting, timer, fenced, cleared, joined, wasStopping, lost} \subseteq BOOLEAN
  /\ generation \in Nat /\ gen \in [Starters -> Nat]
  /\ {process, client, manager} \subseteq 0 .. Attempts
  /\ {thread, known, candidate.start, candidate.restart} \subseteq 0 .. (Resumes + Attempts)
  /\ writes \in Seq(Tasks \union {"degraded", "stopping"})
  /\ child \in [Numbers -> {"unborn", "alive", "dead"}]
  /\ reap \in [Numbers -> {"no", "running", "failed", "done"}]
  /\ open \subseteq Numbers /\ used \in 0 .. Attempts
  /\ DOMAIN pc = Tasks /\ mine \in [Tasks -> 0 .. Attempts]

Init ==
  /\ status = "declared" /\ generation = 0
  /\ stopping = FALSE /\ restarting = FALSE /\ timer = FALSE /\ fenced = FALSE
  /\ process = 0 /\ client = 0 /\ manager = 0 /\ thread = Resumes
  /\ pc = [k \in Tasks |-> "idle"] /\ gen = [k \in Starters |-> 0]
  /\ mine = [k \in Tasks |-> 0] /\ candidate = [k \in Starters |-> 0]
  /\ cleared = FALSE /\ joined = FALSE /\ wasStopping = FALSE /\ writes = <<>>
  /\ used = 0 /\ child = [p \in Numbers |-> "unborn"]
  /\ reap = [p \in Numbers |-> "no"] /\ open = {}
  /\ known = Resumes /\ lost = FALSE
----------------------------------------
Alive(k) == ~stopping /\ ~fenced /\ gen[k] = generation    \* assertGeneration

Goto(k, label) == pc' = [pc EXCEPT ![k] = label]

Publish(w) == writes' = Append(writes, w)
\* The oldest write is over, and w calls for another one.
Lands(w) == writes # <<>> /\ Head(writes) = w
Landed == writes' = Tail(writes)
LandsNext(w) == writes' = Append(Tail(writes), w)

\* A fenced runtime's status is its teardown's.
SetStatus(s) == status' = IF fenced THEN status ELSE s

\* CodexProcess.reap: a child that was never launched needs no killing, and a
\* reap that failed is tried again.
Reaping == IF process = 0 \/ reap[process] = "done" THEN reap
           ELSE [reap EXCEPT ![process] = IF child[process] = "unborn"
                                          THEN "done" ELSE "running"]

\* teardownCodexRuntime up to its await, by the tasks ks at once: the manager
\* stops, the client is closed, the reap begins.  In none of its callers does
\* the closed client start a restart.  Whom nothing holds goes on.
Torn(ks, p) == [k \in Tasks |-> IF k \in ks
                  THEN IF p # 0 /\ Reaping[p] = "running" THEN "tearing" ELSE "torn"
                  ELSE pc[k]]
Teardown(ks) ==
  /\ reap' = Reaping
  /\ open' = open \ {client}
  /\ pc' = Torn(ks, process)
  /\ mine' = [k \in Tasks |-> IF k \in ks THEN process ELSE mine[k]]

\* The end of a teardown: of what it took down, a child that survived stays.
ClearedBy(k, ref) == IF ref = mine[k] THEN 0 ELSE ref
Clear(k) == /\ process' = IF pc[k] = "torn" THEN ClearedBy(k, process) ELSE process
            /\ client' = ClearedBy(k, client)
            /\ manager' = ClearedBy(k, manager)
Over(k) == pc[k] \in {"torn", "kept"}

\* RuntimeStateFence.close and terminateForFence, for a write that failed;
\* the task that awaited it, if one did, goes on at `next`.
CloseFence(k, next) ==
  LET after(pcs) == [pcs EXCEPT ![k] = next] IN
  IF fenced
  THEN /\ pc' = after(pc)
       /\ UNCHANGED <<stopping, generation, timer, fenced, reap, open, mine>>
  ELSE /\ fenced' = TRUE /\ stopping' = TRUE /\ generation' = generation + 1
       /\ timer' = FALSE
       /\ reap' = Reaping /\ open' = open \ {client}
       /\ mine' = [mine EXCEPT !["fence"] = process]
       /\ pc' = after(Torn({"fence"}, process))

\* scheduleRestart.
ScheduleRestart ==
  IF ~stopping /\ ~timer /\ ~restarting
  THEN /\ timer' = TRUE /\ SetStatus("degraded")
       /\ Publish("degraded")
  ELSE UNCHANGED <<timer, status, writes>>
----------------------------------------
(* The start and the restart.                                               *)
Start ==
  /\ pc["start"] = "idle" /\ ~stopping /\ status # "stopped"
  /\ restarting' = FALSE /\ timer' = FALSE /\ generation' = generation + 1
  /\ gen' = [gen EXCEPT !["start"] = generation + 1]
  /\ SetStatus("starting") /\ Goto("start", "opening") /\ Publish("start")
  /\ UNCHANGED <<stopping, fenced, parts, mine, candidate, flags, 
                 world, record>>

\* No restart runs while the timer is set, nor the timer while one runs.  The
\* first backoff (one second) outlasts what is left of a start that has
\* lost its child: the start's next answer fails and its cleanup clears the timer.
TimerFires ==
  /\ timer /\ timer' = FALSE
  /\ pc["start"] \in {"done", "rejected"}
  /\ restarting' = TRUE /\ cleared' = FALSE
  /\ gen' = [gen EXCEPT !["restart"] = generation]
  /\ SetStatus("starting") /\ Goto("restart", "opening") /\ Publish("restart")
  /\ UNCHANGED <<stopping, generation, fenced, parts, mine, candidate, joined,
                 wasStopping, world, record>>

\* A write a task waits for fails.
WriteFails(k) ==
  /\ Lands(k) /\ Landed
  /\ \/ pc[k] \in {"opening", "losing", "naming", "readying"} /\ CloseFence(k, "failed")
     \/ pc[k] = "degrading" /\ CloseFence(k, "settled")
     \/ pc[k] = "closing" /\ CloseFence(k, "done")
  /\ UNCHANGED <<status, restarting, parts, gen, candidate, flags, 
                 used, child, record>>

\* "starting" is recorded: a start makes its child, a restart first takes down
\* what is left of the one before.
Opened(k) ==
  /\ pc[k] = "opening" /\ Lands(k) /\ Landed
  /\ IF k = "start" THEN Goto(k, "creating") /\ UNCHANGED <<reap, open, mine>>
     ELSE Teardown({k})
  /\ UNCHANGED <<own, parts, gen, candidate, flags, used, child, record>>

\* The process object is published before anything is awaited.
Create(k) ==
  /\ pc[k] = "creating"
  /\ IF Alive(k) /\ process = 0
     THEN /\ used < Attempts /\ used' = used + 1 /\ process' = used + 1
          /\ mine' = [mine EXCEPT ![k] = used + 1]
          /\ Goto(k, "preparing")
     ELSE Goto(k, "failed") /\ UNCHANGED <<used, process, mine>>
  /\ UNCHANGED <<own, client, manager, thread, gen, candidate, flags,
                 writes, child, reap, open, record>>

\* Mutant: a child is launched for an attempt that was reaped meanwhile.
LaunchAnyway(k) ==
  /\ pc[k] = "preparing"
  /\ child' = [child EXCEPT ![mine[k]] = "alive"] /\ Goto(k, "binding")
  /\ UNCHANGED <<own, parts, gen, mine, candidate, flags, writes, used,
                 reap, open, record>>

\* The directories and logs are there: the supervisor and the child's pid are
\* published by one step, or the attempt ends without a child.
Launch(k) ==
  /\ pc[k] = "preparing"
  /\ \/ /\ reap[mine[k]] = "no"
        /\ child' = [child EXCEPT ![mine[k]] = "alive"]
        /\ Goto(k, "binding")
     \/ Goto(k, "failed") /\ UNCHANGED child
  /\ UNCHANGED <<own, parts, gen, mine, candidate, flags, writes, used,
                 reap, open, record>>

\* waitForSocket: the socket is bound and the client made, or the attempt's
\* child has to be killed by the start itself.
Bound(k) ==
  LET p == mine[k] IN
  /\ pc[k] = "binding"
  /\ \/ /\ child[p] = "alive" /\ reap[p] = "no"
        /\ IF Alive(k)
           THEN client' = p /\ open' = open \union {p} /\ Goto(k, "talking")
           ELSE Goto(k, "failed") /\ UNCHANGED <<client, open>>
     \/ Goto(k, "aborting") /\ UNCHANGED <<client, open>>
  /\ UNCHANGED <<own, process, manager, thread, gen, mine, candidate, flags,
                 writes, used, child, reap, record>>

\* terminateSpawnedProcess shares the kill of a reap that runs.
Aborted(k) ==
  /\ pc[k] = "aborting" /\ reap[mine[k]] # "running"
  /\ \/ child' = [child EXCEPT ![mine[k]] = "dead"]
     \/ UNCHANGED child
  /\ Goto(k, "failed")
  /\ UNCHANGED <<own, parts, gen, mine, candidate, flags, writes, used,
                 reap, open, record>>

\* Mutant: a restart replaces the session without a word about the old one.
TalkedSilently(k) ==
  LET p == mine[k] IN
  /\ pc[k] = "talking"
  /\ \/ /\ p \in open /\ Alive(k)
        /\ candidate' = [candidate EXCEPT ![k] = IF k = "restart" THEN Session(p) ELSE thread]
        /\ Goto(k, "naming") /\ Publish(k)
     \/ Goto(k, "failed") /\ UNCHANGED <<candidate, writes>>
  /\ UNCHANGED <<own, parts, gen, mine, flags, world, record>>

\* The handshake, the skill roots and the request for the thread.  A session
\* that cannot be resumed ends a start; a restart asks for another thread.
Talked(k) ==
  LET p == mine[k]
      takes(session, next) ==
        candidate' = [candidate EXCEPT ![k] = session] /\ Goto(k, next) /\ Publish(k)
  IN
  /\ pc[k] = "talking"
  /\ \/ /\ p \in open /\ Alive(k)
        /\ \/ thread = 0 /\ takes(Session(p), "naming")
           \/ thread # 0 /\ takes(thread, "naming")
           \/ thread # 0 /\ k = "restart" /\ takes(Session(p), "losing")
     \/ Goto(k, "failed") /\ UNCHANGED <<candidate, writes>>
  /\ UNCHANGED <<own, parts, gen, mine, flags, world, record>>

\* session_lost is recorded and the new session published, unless the fence
\* has closed meanwhile.
LossTold(k) ==
  /\ pc[k] = "losing" /\ Lands(k)
  /\ lost' = TRUE /\ IF fenced THEN Goto(k, "failed") /\ Landed
                    ELSE Goto(k, "naming") /\ LandsNext(k)
  /\ UNCHANGED <<own, parts, gen, mine, candidate, flags, world, known>>

\* The session is recorded: the thread is the runtime's, the turn manager is
\* made, and the runtime says it is ready.
Named(k) ==
  /\ pc[k] = "naming" /\ Lands(k)
  /\ known' = candidate[k] /\ lost' = FALSE
  /\ IF Alive(k)
     THEN /\ thread' = candidate[k] /\ manager' = mine[k]
          /\ SetStatus("ready") /\ Goto(k, "readying") /\ LandsNext(k)
     ELSE Goto(k, "failed") /\ Landed /\ UNCHANGED <<thread, manager, status>>
  /\ UNCHANGED <<stopping, restarting, generation, timer, fenced, process, client,
                 gen, mine, candidate, flags, world>>

\* "ready" is recorded.
Readied(k) ==
  /\ pc[k] = "readying" /\ Lands(k) /\ Landed
  /\ IF ~Alive(k) THEN Goto(k, "failed") /\ UNCHANGED restarting
     ELSE IF k = "start" THEN Goto(k, "done") /\ UNCHANGED restarting
     ELSE Goto(k, "idle") /\ restarting' = FALSE
  /\ UNCHANGED <<status, stopping, generation, timer, fenced, parts, gen, mine,
                 candidate, flags, world, record>>
----------------------------------------
(* A start that fails says so, unless it is being stopped, and takes down    *)
(* what it made under the stop fence; a restart that fails takes down what   *)
(* it made, says so and is tried again.                                      *)
StartFails ==
  /\ pc["start"] = "failed"
  /\ IF ~stopping /\ gen["start"] = generation
     THEN SetStatus("degraded") /\ Goto("start", "degrading") /\ Publish("start")
     ELSE Goto("start", "settled") /\ UNCHANGED <<status, writes>>
  /\ UNCHANGED <<stopping, restarting, generation, timer, fenced, parts, gen, mine,
                 candidate, flags, world, record>>

Settled(k) ==
  /\ pc[k] = "degrading" /\ Lands(k) /\ Landed /\ Goto(k, "settled")
  /\ UNCHANGED <<own, parts, gen, mine, candidate, flags, world, record>>

CleanUp ==
  /\ pc["start"] = "settled"
  /\ timer' = FALSE /\ wasStopping' = stopping /\ stopping' = TRUE
  /\ Teardown({"start"})
  /\ UNCHANGED <<status, restarting, generation, fenced, parts, gen, candidate,
                 cleared, joined, writes, used, child, record>>

CleanedUp ==
  /\ Over("start") /\ Clear("start") /\ Goto("start", "rejected")
  /\ stopping' = IF pc["start"] = "torn" THEN wasStopping ELSE TRUE
  /\ UNCHANGED <<status, restarting, generation, timer, fenced, thread, gen, mine,
                 candidate, flags, writes, world, record>>

RestartCleared ==
  /\ Over("restart") /\ ~cleared /\ cleared' = TRUE /\ Clear("restart")
  /\ Goto("restart", IF pc["restart"] = "torn" THEN "creating" ELSE "failed")
  /\ UNCHANGED <<own, thread, gen, mine, candidate, joined, wasStopping,
                 writes, world, record>>

RestartFails ==
  /\ pc["restart"] = "failed" /\ cleared' = TRUE
  /\ Teardown({"restart"})
  /\ UNCHANGED <<own, parts, gen, candidate, joined, wasStopping, writes,
                 used, child, record>>

RestartTorn ==
  /\ Over("restart") /\ cleared /\ Clear("restart")
  /\ IF stopping \/ gen["restart"] # generation
     THEN Goto("restart", "idle") /\ restarting' = FALSE /\ UNCHANGED <<status, writes>>
     ELSE Goto("restart", "degrading") /\ SetStatus("degraded") /\ Publish("restart")
          /\ UNCHANGED restarting
  /\ UNCHANGED <<stopping, generation, timer, fenced, thread, gen, mine, candidate,
                 flags, world, record>>

RestartAgain ==
  /\ pc["restart"] = "settled" /\ Goto("restart", "idle") /\ restarting' = FALSE
  /\ IF ~stopping /\ ~timer
     THEN timer' = TRUE /\ SetStatus("degraded")
          /\ Publish("degraded")
     ELSE UNCHANGED <<timer, status, writes>>
  /\ UNCHANGED <<stopping, generation, fenced, parts, gen, mine, candidate, flags,
                 world, record>>
----------------------------------------
(* stop(), again after one that failed; and the teardown of the fence.       *)
Stop ==
  /\ pc["stop"] = "idle" /\ ~fenced /\ status # "stopped"
  /\ stopping' = TRUE /\ timer' = FALSE
  /\ generation' = IF stopping THEN generation ELSE generation + 1
  /\ SetStatus("stopping") /\ Publish("stopping")
  /\ Teardown({"stop"})
  /\ UNCHANGED <<restarting, fenced, parts, gen, candidate, flags, used, child, record>>

\* A fenced runtime is already being taken down: join that, and try again what
\* it could not prove.
StopFenced ==
  /\ pc["stop"] = "idle" /\ fenced
  /\ \/ /\ pc["fence"] = "over" /\ status' = "stopped" /\ Goto("stop", "done")
        /\ UNCHANGED <<joined, reap, open, mine>>
     \/ /\ pc["fence"] = "stuck" /\ joined' = TRUE /\ Teardown({"stop"})
        /\ UNCHANGED status
  /\ UNCHANGED <<stopping, restarting, generation, timer, fenced, parts, gen,
                 candidate, cleared, wasStopping, writes, used, child, record>>

StopTorn ==
  /\ Over("stop") /\ (\A i \in DOMAIN writes : writes[i] # "stopping") /\ Clear("stop")
  /\ IF pc["stop"] = "torn" /\ ~fenced
     THEN Goto("stop", "closing") /\ Publish("stop")
     ELSE Goto("stop", IF pc["stop"] = "torn" THEN "done" ELSE "idle") /\ UNCHANGED writes
  /\ status' = IF joined /\ pc["stop"] = "torn" THEN "stopped" ELSE status
  /\ UNCHANGED <<stopping, restarting, generation, timer, fenced, thread, gen, mine,
                 candidate, flags, world, record>>

Closed ==
  /\ pc["stop"] = "closing" /\ Lands("stop") /\ Landed /\ SetStatus("stopped") /\ Goto("stop", "done")
  /\ UNCHANGED <<stopping, restarting, generation, timer, fenced, parts, gen, mine,
                 candidate, flags, world, record>>

FenceTorn ==
  /\ Over("fence") /\ Clear("fence")
  /\ Goto("fence", IF pc["fence"] = "torn" THEN "over" ELSE "stuck")
  /\ status' = IF pc["fence"] = "torn" THEN "stopped" ELSE status
  /\ UNCHANGED <<stopping, restarting, generation, timer, fenced, thread, gen, mine,
                 candidate, flags, writes, world, record>>

BackgroundWrite(w) ==
  /\ Lands(w) /\ Landed
  /\ \/ UNCHANGED <<stopping, generation, timer, fenced, reap, open, mine, pc>>
     \/ CloseFence("nobody", "idle")
  /\ UNCHANGED <<status, restarting, parts, gen, candidate, flags, used, child, record>>
----------------------------------------
(* The child and its socket.                                                *)

\* SIGTERM and SIGKILL to the group: it goes, or it is still there.  Whoever
\* waits for this reap goes on.
KillEnds(p) ==
  /\ reap[p] = "running"
  /\ \E gone \in BOOLEAN :
       /\ gone \/ child[p] = "alive"
       /\ child' = [child EXCEPT ![p] = IF gone THEN "dead" ELSE @]
       /\ reap' = [reap EXCEPT ![p] = IF gone THEN "done" ELSE "failed"]
       /\ pc' = [k \in Tasks |-> IF pc[k] = "tearing" /\ mine[k] = p
                                 THEN IF gone THEN "torn" ELSE "kept" ELSE pc[k]]
  /\ UNCHANGED <<own, parts, gen, mine, candidate, flags, writes, used, open, record>>

\* The child exits of itself; nobody is told of a child that is being killed.
ChildExits(p) ==
  /\ child[p] = "alive" /\ child' = [child EXCEPT ![p] = "dead"]
  /\ IF reap[p] = "no" /\ process = p /\ \A k \in Starters : pc[k] # "aborting"
     THEN ScheduleRestart ELSE UNCHANGED <<timer, status, writes>>
  /\ UNCHANGED <<stopping, restarting, generation, fenced, parts, pc, gen, mine,
                 candidate, flags, used, reap, open, record>>

SocketLost(p) ==
  /\ p \in open /\ open' = open \ {p}
  /\ IF client = p THEN ScheduleRestart ELSE UNCHANGED <<timer, status, writes>>
  /\ UNCHANGED <<stopping, restarting, generation, fenced, parts, pc, gen, mine,
                 candidate, flags, used, child, reap, record>>

Starting(k) ==
  \/ Opened(k) \/ Create(k) \/ Launch(k) \/ Bound(k) \/ Aborted(k) \/ Talked(k)
  \/ LossTold(k) \/ Named(k) \/ Readied(k) \/ Settled(k)

Next ==
  \/ Start \/ TimerFires
  \/ \E k \in Starters : Starting(k)
  \/ \E k \in Tasks : WriteFails(k)
  \/ StartFails \/ CleanUp \/ CleanedUp
  \/ RestartCleared \/ RestartFails \/ RestartTorn \/ RestartAgain
  \/ Stop \/ StopFenced \/ StopTorn \/ Closed \/ FenceTorn
  \/ \E w \in {"degraded", "stopping"} : BackgroundWrite(w)
  \/ \E p \in Numbers : KillEnds(p) \/ ChildExits(p) \/ SocketLost(p)

Spec == Init /\ [][Next]_vars
----------------------------------------
(* A stop resolves only when no child is left, and none comes later: however *)
(* the start, a restart and the fence stand when it is called.               *)
StopProvesNoChild ==
  pc["stop"] = "done" => \A p \in Numbers : child[p] # "alive"

(* Two app-servers never run on one thread.                                  *)
OneChildAtATime == Cardinality({p \in Numbers : child[p] = "alive"}) <= 1

(* So every child is accounted for, in tenure and at the end.                *)
ChildIsAccounted == StopProvesNoChild /\ OneChildAtATime

(* Core's session is replaced only after it was told that the old one is     *)
(* lost (resolveThread).                                                     *)
LossToldFirst ==
  [][known # 0 /\ known' # known => lost]_vars

(* A runtime that has started and is not being stopped has its app-server,   *)
(* or a restart is on its way.                                               *)
ServedOrRestarting ==
  pc["start"] = "done" /\ pc["restart"] = "idle" /\ ~timer /\ ~stopping =>
    process # 0 /\ child[process] = "alive" /\ client \in open
========================================
