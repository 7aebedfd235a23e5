----------------------------- MODULE HostProcess -----------------------------
(* The processes of `dreamux serve` on one machine and what they leave on    *)
(* its disk: server.ts (start, shutdown), admin/socket.ts, the pidfile of    *)
(* platform/instance-lock.ts, cli/server.ts (signals and their deadline) and *)
(* the restart marker of service/dispatcher-service/restart-intent.ts in     *)
(* packages/dreamux/src.  A process here is one run of the program, with a   *)
(* pid of its own.                                                          *)
EXTENDS Naturals, FiniteSets

CONSTANTS
  Procs,     \* bound: runs of the program
  Restarts,  \* bound: restarts asked for with a notice
  Attempts,  \* RECLAIM_ATTEMPTS
  Nobody

ProcessAssumption ==
  /\ Attempts \in Nat \ {0}
  /\ Nobody \notin Procs \cup Restarts \cup [by : Procs, full : BOOLEAN]

VARIABLES
  pc,        \* where each process stands; "off" before it is run, "dead" after
  tries,     \* acquireInstanceLock: attempts made
  lock,      \* the pidfile: Nobody, or [by, full]: full once the pid is in it
  socket,    \* whose admin socket is at the path
  marker,    \* the restart marker on disk
  notice,    \* the marker each process holds in memory
  cli,       \* `daemon restart --notify-resumed`: "none", "control", "ended"
  expired,   \* markers older than their TTL
  announced, \* <<restart, process>>: notices given to a resumed dispatcher
  stolen     \* a live process lost its pidfile to another

vars == <<pc, tries, lock, socket, marker, notice, cli, expired, announced, stolen>>
files == <<lock, socket, stolen>>
restart == <<marker, notice, cli, expired, announced>>

Init ==
  /\ pc = [p \in Procs |-> "off"] /\ tries = [p \in Procs |-> 0]
  /\ lock = Nobody /\ socket = Nobody
  /\ marker = Nobody /\ notice = [p \in Procs |-> Nobody]
  /\ cli = [r \in Restarts |-> "none"] /\ expired = {} /\ announced = {}
  /\ stolen = FALSE

Alive(p) == pc[p] \notin {"off", "dead"}
At(p, here) == pc[p] = here
Go(p, there) == pc' = [pc EXCEPT ![p] = there]
----------------------------------------
(* Server.start, before the lock.                                           *)

\* RestartIntentConsumer.load: read, then removed whatever it was.
ReadMarker(p) ==
  /\ At(p, "off") /\ Go(p, "loading")
  /\ notice' = [notice EXCEPT ![p] = marker]
  /\ UNCHANGED <<tries, files, marker, cli, expired, announced>>

\* Mutant: the marker is kept until it has been acted on.
DropMarkerLater(p) ==
  /\ At(p, "loading") /\ Go(p, "preflight")
  /\ notice' = [notice EXCEPT ![p] = IF @ \in expired THEN Nobody ELSE @]
  /\ UNCHANGED <<tries, files, marker, cli, expired, announced>>

DropMarker(p) ==
  /\ At(p, "loading") /\ Go(p, "preflight") /\ marker' = Nobody
  /\ notice' = [notice EXCEPT ![p] = IF @ \in expired THEN Nobody ELSE @]
  /\ UNCHANGED <<tries, files, cli, expired, announced>>

\* Workspaces and the legacy lock; a failure ends the start.
Preflight(p) ==
  /\ At(p, "preflight") /\ (Go(p, "acquiring") \/ Go(p, "dead"))
  /\ UNCHANGED <<tries, files, restart>>
----------------------------------------
(* acquireInstanceLock.                                                     *)

\* open with wx: the file is there, empty, before the pid is in it.
TryCreate(p) ==
  /\ At(p, "acquiring")
  /\ IF lock = Nobody THEN lock' = [by |-> p, full |-> FALSE] /\ Go(p, "writing")
     ELSE Go(p, "exists") /\ UNCHANGED lock
  /\ UNCHANGED <<tries, socket, stolen, restart>>

Mine(p) == lock # Nobody /\ lock.by = p

\* The write goes to the file that was opened, be it at the path or not.
WritePid(p) ==
  /\ At(p, "writing") /\ Go(p, "held")
  /\ lock' = IF Mine(p) THEN [lock EXCEPT !.full = TRUE] ELSE lock
  /\ UNCHANGED <<tries, socket, stolen, restart>>

\* A live holder ends the start; a dead one, or a file without a pid, is stale.
ReadHolder(p) ==
  /\ At(p, "exists")
  /\ IF lock # Nobody /\ lock.full /\ Alive(lock.by) THEN Go(p, "dead") ELSE Go(p, "removing")
  /\ UNCHANGED <<tries, files, restart>>

\* By path, whoever's file is there by now.
RemoveStale(p) ==
  /\ At(p, "removing") /\ lock' = Nobody
  /\ stolen' = (stolen \/ (lock # Nobody /\ lock.by # p /\ Alive(lock.by)))
  /\ tries' = [tries EXCEPT ![p] = @ + 1]
  /\ IF tries[p] + 1 = Attempts THEN Go(p, "dead") ELSE Go(p, "acquiring")
  /\ UNCHANGED <<socket, restart>>
----------------------------------------
(* The rest of start, and shutdown.                                         *)

\* What is at the path is removed before this one listens there.
Listen(p) ==
  /\ At(p, "held") /\ socket' = p /\ Go(p, "listening")
  /\ UNCHANGED <<tries, lock, stolen, restart>>

\* listen or chmod fails: the path is cleared and the lock given back.
ListenFails(p) ==
  /\ At(p, "held") /\ socket' = Nobody /\ Go(p, "releasing")
  /\ UNCHANGED <<tries, lock, stolen, restart>>

\* The sweep of the run root, then the dispatchers; it may throw.
StartDispatchers(p) ==
  /\ At(p, "listening") /\ (Go(p, "serving") \/ Go(p, "dead"))
  /\ UNCHANGED <<tries, files, restart>>

\* A dispatcher comes up resumed: claim, once, and not when it is stale.
Announce(p) ==
  /\ At(p, "serving") /\ notice[p] # Nobody
  /\ notice' = [notice EXCEPT ![p] = Nobody]
  /\ announced' = IF notice[p] \in expired THEN announced
                  ELSE announced \union {<<notice[p], p>>}
  /\ UNCHANGED <<pc, tries, files, marker, cli, expired>>

\* SIGTERM: admission is closed and the dispatchers end, or the deadline comes.
Signal(p) ==
  /\ At(p, "serving") /\ Go(p, "closing")
  /\ UNCHANGED <<tries, files, restart>>

\* admin.close: the server, the path, then the lock if it still names us.
CloseSocket(p) ==
  /\ At(p, "closing") /\ socket' = Nobody /\ Go(p, "releasing")
  /\ UNCHANGED <<tries, lock, stolen, restart>>

ReadOwn(p) ==
  /\ At(p, "releasing")
  /\ IF Mine(p) /\ lock.full THEN Go(p, "unlocking") ELSE Go(p, "dead")
  /\ UNCHANGED <<tries, files, restart>>

Unlock(p) ==
  /\ At(p, "unlocking") /\ lock' = Nobody /\ Go(p, "dead")
  /\ stolen' = (stolen \/ (lock # Nobody /\ lock.by # p /\ Alive(lock.by)))
  /\ UNCHANGED <<tries, socket, restart>>

\* A signal before start has returned, the shutdown deadline, or a crash.
Dies(p) == Alive(p) /\ Go(p, "dead") /\ UNCHANGED <<tries, files, restart>>
----------------------------------------
(* notifyResumedRestart: the marker is on disk before the service manager is *)
(* asked; it is taken back if that fails while the caller lives.             *)
WriteMarker(r) ==
  /\ cli[r] = "none" /\ cli' = [cli EXCEPT ![r] = "control"] /\ marker' = r
  /\ UNCHANGED <<pc, tries, files, notice, expired, announced>>

ControlReturns(r) ==
  /\ cli[r] = "control" /\ cli' = [cli EXCEPT ![r] = "ended"]
  /\ marker' \in {marker, Nobody}
  /\ UNCHANGED <<pc, tries, files, notice, expired, announced>>

Expires(r) ==
  /\ cli[r] # "none" /\ r \notin expired /\ expired' = expired \union {r}
  /\ UNCHANGED <<pc, tries, files, marker, notice, cli, announced>>

Next ==
  \/ \E p \in Procs :
       \/ ReadMarker(p) \/ DropMarker(p) \/ Preflight(p)
       \/ TryCreate(p) \/ WritePid(p) \/ ReadHolder(p) \/ RemoveStale(p)
       \/ Listen(p) \/ ListenFails(p) \/ StartDispatchers(p) \/ Announce(p)
       \/ Signal(p) \/ CloseSocket(p) \/ ReadOwn(p) \/ Unlock(p) \/ Dies(p)
  \/ \E r \in Restarts : WriteMarker(r) \/ ControlReturns(r) \/ Expires(r)

Spec == Init /\ [][Next]_vars
----------------------------------------
TypeOK ==
  /\ pc \in [Procs -> {"off", "loading", "preflight", "acquiring", "exists", "removing",
                       "writing", "held", "listening", "serving", "closing", "releasing",
                       "unlocking", "dead"}]
  /\ tries \in [Procs -> 0 .. Attempts]
  /\ lock = Nobody \/ lock \in [by : Procs, full : BOOLEAN]
  /\ socket \in Procs \union {Nobody} /\ marker \in Restarts \union {Nobody}
  /\ notice \in [Procs -> Restarts \union {Nobody}]
  /\ cli \in [Restarts -> {"none", "control", "ended"}]
  /\ expired \subseteq Restarts /\ announced \subseteq Restarts \X Procs
  /\ stolen \in BOOLEAN

Holding == {p \in Procs : pc[p] \in {"held", "listening", "serving", "closing"}}

(* The comment of acquireInstanceLock: of two that reclaim the same stale    *)
(* file one wins and the other sees "their live PID on the next iteration    *)
(* and bails out"; so two processes never hold the lock.  The code removes   *)
(* by path what it judged by content, and a pidfile is empty at first.       *)
OneServer == Cardinality(Holding) <= 1

(* Unless a live process lost its pidfile that way, the admin socket at the  *)
(* path is the one of the process that serves, whatever a predecessor is     *)
(* still tearing down.                                                      *)
ServesItsSocket == ~stolen => \A p \in Procs : At(p, "serving") => socket = p

(* A notice that reached a dispatcher is gone from the disk: no later boot   *)
(* replays it, in whatever order processes boot, die and are restarted.      *)
NeverReplayed == \A r \in Restarts, p \in Procs : <<r, p>> \in announced => marker # r

(* The process that serves is the one the admin socket reaches, unless its   *)
(* pidfile was stolen, and a restart notice that was given is not given to a *)
(* later boot (server.ts, restart-intent.ts).                                *)
OneServerAnswers == ServesItsSocket /\ NeverReplayed
========================================
