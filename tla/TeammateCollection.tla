------------------------- MODULE TeammateCollection -------------------------
(***************************************************************************)
(* The collection that owns the TeamMates of a dispatcher or a Team, seen  *)
(* at one name: the services built for it, the maps that hold them, the    *)
(* calls that resolve the name, and the sweeps of the dispatcher's close.  *)
(*                                                                         *)
(* The entity behind a service is reduced to what the collection can see   *)
(* of AgentEntity: a runtime that starts in one flight shared by the sends *)
(* that wait for it, an intent written once it is up, a close, a host stop.*)
(*                                                                         *)
(* Every action is the code between two awaits of real I/O.  A call whose  *)
(* promise has settled (pc "resolved") continues before the next I/O does, *)
(* and a new call arrives as I/O does: it is the work of a request handler.*)
(***************************************************************************)
EXTENDS Naturals, FiniteSets

CONSTANTS
  Calls,         \* the calls of spawn, send and close
  KindOf,        \* what each of them is
  MaxServices,   \* bound: AgentService objects built for the name
  ReopenWritesFail  \* whether the write of an intent can fail for a send that reopens, too

\* Nothing but sends of the name: a value of KindOf.
AllSends == [c \in Calls |-> "send"]

CollectionAssumption ==
  /\ KindOf \in [Calls -> {"spawn", "send", "close"}]
  /\ \A a, b \in Calls : KindOf[a] = "spawn" /\ KindOf[b] = "spawn" => a = b
  /\ MaxServices \in Nat
  /\ ReopenWritesFail \in BOOLEAN

VARIABLES
  fence,      \* has the owner's work fence gone up?
  record,     \* the identity file: "absent", "open" or "closed"
  built,      \* number of services built; they are 1..built
  phase,      \* EntityPhase of each service
  rt,         \* its runtime: "none", "starting", "stuck" (a start that hangs) or "up"
  hostStop,   \* its stopForHost: "no", "stop", "drain"
  closing,    \* its close: "no", "stop", "drain"
  entities,   \* the service the entities map holds, 0 if none
  flight,     \* materializations: "none", "creating", "reading", "joining" or "opening"
  reopening,  \* the map of that name: [pc, svc, owner]
  pc,         \* where each call stands
  target,     \* the service a call has resolved, 0 for a closed record
  sweep,      \* the close of the dispatcher: "none", "join", "reopen", "stop", "drain", "done"
  pass,       \* which of the two sweeps it is in
  held        \* what heldMembers found and the sweep has yet to stop

svcs  == <<built, phase, rt, hostStop, closing>>
maps  == <<entities, flight, reopening>>
calls == <<pc, target>>
host  == <<fence, sweep, pass, held>>
vars  == <<record, svcs, maps, calls, host>>

Nobody == "nobody"
NoReopen == [pc |-> "none", svc |-> 0, owner |-> Nobody]

Materialized == 1..built
Retired(i) == phase[i] = "closed"

\* liveEntity: a retired service is dropped by whoever looks first.
Live == IF entities # 0 /\ ~Retired(entities) THEN entities ELSE 0

Over(c) == pc[c] \in {"idle", "refused", "returned", "threw"}

\* No continuation is left to run: I/O may complete.
Quiet == \A c \in Calls : pc[c] # "resolved"

\* The send that reopens awaits its build before anyone joins it, and continues first.
Continues(c) ==
  /\ pc[c] = "resolved"
  /\ \A d \in Calls : reopening.owner = d /\ pc[d] = "resolved" => d = c

\* The sends inside service i that its drains wait for.
Inside(i) == {c \in Calls : target[c] = i /\ pc[c] \in {"starting", "intent", "submitting"}}

Init ==
  /\ fence = FALSE
  /\ record \in (IF \E c \in Calls : KindOf[c] = "spawn" THEN {"absent"} ELSE {"open", "closed"})
  /\ built = 0
  /\ phase = <<>> /\ rt = <<>> /\ hostStop = <<>> /\ closing = <<>>
  /\ entities = 0 /\ flight = "none" /\ reopening = NoReopen
  /\ pc = [c \in Calls |-> "idle"]
  /\ target = [c \in Calls |-> 0]
  /\ sweep = "none" /\ pass = 0 /\ held = {}

Grow(f, x) == [i \in 1..built + 1 |-> IF i \in Materialized THEN f[i] ELSE x]

\* The factory opens or creates the store and builds a service around it.
Build ==
  /\ built < MaxServices
  /\ built' = built + 1
  /\ phase' = Grow(phase, "active") /\ rt' = Grow(rt, "none")
  /\ hostStop' = Grow(hostStop, "no") /\ closing' = Grow(closing, "no")

----------------------------------------
(* The verbs, up to the service they act on                                *)

\* Behind the fence every verb is refused.
Refused(c) ==
  /\ pc[c] = "idle" /\ fence
  /\ pc' = [pc EXCEPT ![c] = "refused"]
  /\ UNCHANGED <<record, svcs, maps, target, host>>

\* A spawn asks for a name first; the collection counts it in.
SpawnAllocates(c) ==
  /\ pc[c] = "idle" /\ ~fence /\ Quiet /\ KindOf[c] = "spawn"
  /\ pc' = [pc EXCEPT ![c] = "allocating"]
  /\ UNCHANGED <<record, svcs, maps, target, host>>

\* The name is there, and the build is registered in the same continuation.
SpawnRegisters(c) ==
  /\ pc[c] = "allocating" /\ Quiet /\ flight = "none"
  /\ flight' = "creating"
  /\ pc' = [pc EXCEPT ![c] = "waiting"]
  /\ UNCHANGED <<record, svcs, entities, reopening, target, host>>

\* The service a caller can have at once: the live one, or the one a send reopened.
AtHand == IF Live # 0 THEN Live ELSE reopening.svc

\* resolveEntity: that service, the flight under way, or a new flight.
Resolve(c) ==
  /\ pc[c] = "idle" /\ ~fence /\ Quiet /\ KindOf[c] # "spawn"
  /\ IF AtHand # 0 /\ (Live = 0 => flight = "none")
       THEN /\ pc' = [pc EXCEPT ![c] = "resolved"]
            /\ target' = [target EXCEPT ![c] = AtHand]
            /\ UNCHANGED flight
       ELSE /\ pc' = [pc EXCEPT ![c] = "waiting"]
            /\ flight' = IF flight # "none" THEN flight
                         ELSE IF reopening.pc # "none" THEN "joining" ELSE "reading"
            /\ UNCHANGED target
  /\ UNCHANGED <<record, svcs, entities, reopening, host>>

Waiting == {c \in Calls : pc[c] = "waiting"}

\* The flight settles, and every caller that waits for it gets what it found.
Settles(found) ==
  /\ flight' = "none"
  /\ pc' = [c \in Calls |-> IF c \in Waiting THEN "resolved" ELSE pc[c]]
  /\ target' = [c \in Calls |-> IF c \in Waiting THEN found ELSE target[c]]

FlightFails ==
  /\ flight' = "none"
  /\ pc' = [c \in Calls |-> IF c \in Waiting THEN "threw" ELSE pc[c]]
  /\ UNCHANGED target

\* selfCloseIfClosing: whoever built a service behind the fence does not go on.
SelfClose == fence

\* createFreshEntity: the record, the service and its place in the map.
FlightCreates ==
  /\ flight = "creating" /\ Quiet
  /\ Build
  /\ record' = "open"
  /\ entities' = built + 1
  /\ IF SelfClose THEN FlightFails ELSE Settles(built + 1)
  /\ UNCHANGED <<reopening, host>>

\* materializeEntity has read the record.
FlightReads ==
  /\ flight = "reading" /\ Quiet
  /\ \/ record = "absent" /\ FlightFails
     \/ record # "absent" /\ Live # 0 /\ Settles(Live)
     \/ record = "closed" /\ Live = 0 /\ Settles(0)
     \/ record = "open" /\ Live = 0 /\ flight' = "opening" /\ UNCHANGED calls
  /\ UNCHANGED <<record, svcs, entities, reopening, host>>

\* It builds from an open record and publishes.
FlightOpens ==
  /\ flight = "opening" /\ Quiet
  /\ Build
  /\ entities' = built + 1
  /\ Settles(built + 1)
  /\ UNCHANGED <<record, reopening, host>>

----------------------------------------
(* Reopening                                                               *)

\* reopenFrom: the first send of a closed record builds, the others join it.
SendReopens(c) ==
  /\ Continues(c) /\ KindOf[c] = "send" /\ target[c] = 0
  /\ IF reopening.pc = "none"
       THEN /\ reopening' = [pc |-> "building", svc |-> 0, owner |-> c]
            /\ pc' = [pc EXCEPT ![c] = "building"] /\ UNCHANGED target
       ELSE /\ UNCHANGED reopening
            /\ pc' = [pc EXCEPT ![c] = IF reopening.pc = "built" THEN "resolved" ELSE "building"]
            /\ target' = [target EXCEPT ![c] = reopening.svc]
  /\ UNCHANGED <<record, svcs, entities, flight, host>>

\* The callers of the build: sends of the closed record, and the flight that joined it.
Builders == {c \in Calls : pc[c] = "building" \/ (flight = "joining" /\ pc[c] = "waiting")}

\* The build is over.  Behind the fence it throws, and the owner drops the entry.
ReopenBuilt ==
  /\ reopening.pc = "building" /\ Quiet
  /\ Build
  /\ flight' = IF flight = "joining" THEN "none" ELSE flight
  /\ IF SelfClose
       THEN /\ reopening' = NoReopen
            /\ pc' = [c \in Calls |-> IF c \in Builders THEN "threw" ELSE pc[c]]
            /\ UNCHANGED target
       ELSE /\ reopening' = [reopening EXCEPT !.pc = "built", !.svc = built + 1]
            /\ pc' = [c \in Calls |-> IF c \in Builders THEN "resolved" ELSE pc[c]]
            /\ target' = [c \in Calls |-> IF c \in Builders THEN built + 1 ELSE target[c]]
  /\ UNCHANGED <<record, entities, host>>

----------------------------------------
(* A send inside its service                                               *)

\* sendReopened's finally: the entry goes, however the send ended.
Leaves(c, ok) == IF reopening.owner = c THEN NoReopen ELSE reopening

\* Mutant: what a send reopened stays out of the map.
PublishNever(i) == entities

\* publish(): a send that returned puts its service in the map; a closed one is evicted.
Publish(i) == IF Retired(i) THEN IF entities = i THEN 0 ELSE entities ELSE i

\* The sends of S end: those that return publish, a spawn that fails closes its service.
Ends(S, ok) ==
  /\ pc' = [c \in Calls |->
              IF c \notin S THEN pc[c]
              ELSE IF ok THEN "returned"
              ELSE IF KindOf[c] = "spawn" THEN "undoing" ELSE "threw"]
  /\ reopening' = IF \E c \in S : reopening.owner = c
                    THEN Leaves(reopening.owner, ok) ELSE reopening
  /\ entities' = IF ok /\ \E c \in S : KindOf[c] = "send"
                   THEN Publish(target[CHOOSE c \in S : KindOf[c] = "send"]) ELSE entities

\* enterOrdinaryMutation, then ensureRuntimeStarted up to its first I/O.
Enter(c) ==
  /\ Continues(c) /\ KindOf[c] \in {"send", "spawn"} /\ target[c] # 0
  /\ LET i == target[c] IN
       IF phase[i] # "active" \/ hostStop[i] # "no"
         THEN Ends({c}, FALSE) /\ UNCHANGED rt
         ELSE /\ pc' = [pc EXCEPT ![c] = IF rt[i] = "up" THEN "intent" ELSE "starting"]
              /\ \/ rt[i] # "none" /\ UNCHANGED rt
                 \/ rt[i] = "none" /\ rt' = [rt EXCEPT ![i] = "starting"]
                 \/ rt[i] = "none" /\ ~fence /\ rt' = [rt EXCEPT ![i] = "stuck"]
              /\ UNCHANGED <<entities, reopening>>
  /\ UNCHANGED <<record, built, phase, hostStop, closing, flight, target, host>>

Starters(i) == {c \in Calls : target[c] = i /\ pc[c] = "starting"}

\* The runtime is up, and the record says so.
Started(i) ==
  /\ rt[i] = "starting" /\ Quiet
  /\ rt' = [rt EXCEPT ![i] = "up"]
  /\ record' = "open"
  /\ pc' = [c \in Calls |-> IF c \in Starters(i) THEN "intent" ELSE pc[c]]
  /\ UNCHANGED <<built, phase, hostStop, closing, maps, target, host>>

\* The start fails for every send that waits for it.
StartFails(i) ==
  /\ rt[i] = "starting" /\ Quiet
  /\ rt' = [rt EXCEPT ![i] = "none"]
  /\ Ends(Starters(i), FALSE)
  /\ UNCHANGED <<record, built, phase, hostStop, closing, flight, target, host>>

\* admitToRuntime: the intent is recorded; the runtime may have been stopped meanwhile, or the
\* write fails.
Intent(c) ==
  /\ pc[c] = "intent" /\ Quiet
  /\ \/ /\ rt[target[c]] = "up"
        /\ pc' = [pc EXCEPT ![c] = "submitting"]
        /\ UNCHANGED <<entities, reopening>>
     \/ /\ rt[target[c]] # "up" \/ reopening.owner # c \/ ReopenWritesFail
        /\ Ends({c}, FALSE)
  /\ UNCHANGED <<record, svcs, flight, target, host>>

\* The runtime has answered the submission.
Submitted(c) ==
  /\ pc[c] = "submitting" /\ Quiet
  /\ Ends({c}, TRUE)
  /\ UNCHANGED <<record, svcs, flight, target, host>>

----------------------------------------
(* Closing and stopping a service                                          *)

Stopping(i) == closing[i] = "stop" \/ hostStop[i] = "stop"

\* close() of a resolved call: a closed record or a closed service is answered as it is.
CloseBegins(c) ==
  /\ (Continues(c) /\ KindOf[c] = "close") \/ pc[c] = "undoing"
  /\ LET i == target[c]
         over == i = 0 \/ Retired(i) IN
       /\ pc' = [pc EXCEPT ![c] = IF ~over THEN "closing"
                                  ELSE IF KindOf[c] = "spawn" THEN "threw" ELSE "returned"]
       /\ IF over \/ closing[i] # "no"
            THEN UNCHANGED <<phase, closing>>
            ELSE /\ phase' = [phase EXCEPT ![i] = "closing"]
                 /\ closing' = [closing EXCEPT ![i] = "stop"]
  /\ UNCHANGED <<record, built, rt, hostStop, maps, target, host>>

\* stopRuntime: a start in flight, hanging or not, is cut off; the sends that wait for
\* it fail, or are told "stopped" by a service that is closing.  A stop resolves once every
\* submission that was begun has settled.
RuntimeStops(i) ==
  /\ Stopping(i) /\ Quiet
  /\ \A c \in Calls : pc[c] = "submitting" => target[c] # i
  /\ rt' = [rt EXCEPT ![i] = "none"]
  /\ closing' = [closing EXCEPT ![i] = IF @ = "stop" THEN "drain" ELSE @]
  /\ hostStop' = [hostStop EXCEPT ![i] = IF @ = "stop" THEN "drain" ELSE @]
  /\ \E ok \in (IF closing[i] = "no" THEN {FALSE} ELSE BOOLEAN) : Ends(Starters(i), ok)
  /\ UNCHANGED <<record, built, phase, flight, target, host>>

\* transitionToClosed: drained, the record is written closed and the map forgets it.
Closed(i) ==
  /\ closing[i] = "drain" /\ Quiet /\ Inside(i) = {}
  /\ closing' = [closing EXCEPT ![i] = "no"]
  /\ phase' = [phase EXCEPT ![i] = "closed"]
  /\ record' = "closed"
  /\ entities' = IF entities = i THEN 0 ELSE entities
  /\ pc' = [c \in Calls |->
              IF pc[c] = "closing" /\ target[c] = i
                THEN IF KindOf[c] = "spawn" THEN "threw" ELSE "returned"
                ELSE pc[c]]
  /\ UNCHANGED <<built, rt, hostStop, flight, reopening, target, host>>

HostStopped(i) ==
  /\ hostStop[i] = "drain" /\ Quiet /\ Inside(i) = {}
  /\ hostStop' = [hostStop EXCEPT ![i] = "no"]
  /\ UNCHANGED <<record, built, phase, rt, closing, maps, calls, host>>

----------------------------------------
(* The dispatcher's close: sweep, join the admitted work, sweep again      *)

Fence ==
  /\ ~fence /\ Quiet
  /\ fence' = TRUE /\ pass' = 1 /\ sweep' = "join"
  /\ UNCHANGED <<record, svcs, maps, calls, held>>

\* heldMembers joins the name allocations and the materializations.
Joined == flight = "none" /\ \A c \in Calls : pc[c] # "allocating"

SweepJoins ==
  /\ sweep = "join" /\ Quiet /\ Joined
  /\ held' = {Live} \ {0}
  /\ sweep' = "reopen"
  /\ UNCHANGED <<record, svcs, maps, calls, fence, pass>>

\* The service a send is reopening is nobody's yet, and is held all the same.
HeldByReopen == {i \in {reopening.svc} \ {0} : ~Retired(i)}

SweepReopens ==
  /\ sweep = "reopen" /\ Quiet /\ reopening.pc # "building"
  /\ held' = held \cup HeldByReopen
  /\ sweep' = "stop"
  /\ UNCHANGED <<record, svcs, maps, calls, fence, pass>>

\* stopForHost of one held member; one that is closing gives up its runtime itself.
SweepStops(i) ==
  /\ sweep = "stop" /\ Quiet /\ i \in held
  /\ \A j \in Materialized : hostStop[j] = "no"
  /\ held' = held \ {i}
  /\ hostStop' = [hostStop EXCEPT ![i] = IF phase[i] = "active" THEN "stop" ELSE "no"]
  /\ UNCHANGED <<record, built, phase, rt, closing, maps, calls, fence, sweep, pass>>

\* Mutant: the second sweep is left out.
LastPassFirst == 1

LastPass == 2

\* The sweep is over; the admitted work is joined between the two.
SweepEnds ==
  /\ sweep = "stop" /\ Quiet /\ held = {}
  /\ \A j \in Materialized : hostStop[j] = "no"
  /\ sweep' = IF pass = LastPass THEN "done" ELSE "drain"
  /\ UNCHANGED <<record, svcs, maps, calls, fence, pass, held>>

Drained ==
  /\ sweep = "drain" /\ Quiet /\ \A c \in Calls : Over(c)
  /\ sweep' = "join" /\ pass' = pass + 1
  /\ UNCHANGED <<record, svcs, maps, calls, fence, held>>

----------------------------------------

CallSteps(c) ==
  Enter(c) \/ SendReopens(c) \/ CloseBegins(c) \/ Intent(c) \/ Submitted(c) \/ SpawnRegisters(c)
FlightSteps == FlightCreates \/ FlightReads \/ FlightOpens \/ ReopenBuilt
SvcSteps(i) ==
  Started(i) \/ StartFails(i) \/ RuntimeStops(i) \/ Closed(i) \/ HostStopped(i) \/ SweepStops(i)
SweepSteps == SweepJoins \/ SweepReopens \/ SweepEnds \/ Drained

Next ==
  \/ Fence \/ FlightSteps \/ SweepSteps
  \/ \E c \in Calls : Refused(c) \/ SpawnAllocates(c) \/ Resolve(c) \/ CallSteps(c)
  \/ \E i \in Materialized : SvcSteps(i)

Spec == Init /\ [][Next]_vars

Fairness ==
  /\ WF_vars(FlightSteps) /\ WF_vars(SweepSteps)
  /\ \A c \in Calls : WF_vars(CallSteps(c))
  /\ \A i \in 1..MaxServices : WF_vars(i \in Materialized /\ SvcSteps(i))

----------------------------------------
(* Properties                                                              *)

Phases == {"active", "closing", "closed"}
Outs == {"idle", "refused", "returned", "threw", "allocating", "waiting", "resolved", "building",
         "starting", "intent", "submitting", "undoing", "closing"}

\* Types, and an entry of either map names a service that was built.
TypeOK ==
  /\ fence \in BOOLEAN /\ record \in {"absent", "open", "closed"}
  /\ built \in 0..MaxServices
  /\ phase \in [Materialized -> Phases]
  /\ rt \in [Materialized -> {"none", "starting", "stuck", "up"}]
  /\ hostStop \in [Materialized -> {"no", "stop", "drain"}]
  /\ closing \in [Materialized -> {"no", "stop", "drain"}]
  /\ entities \in 0..built
  /\ flight \in {"none", "creating", "reading", "joining", "opening"}
  /\ reopening \in [pc : {"none", "building", "built"}, svc : 0..built, owner : Calls \cup {Nobody}]
  /\ pc \in [Calls -> Outs] /\ target \in [Calls -> 0..built]
  /\ sweep \in {"none", "join", "reopen", "stop", "drain", "done"}
  /\ pass \in 0..2 /\ held \subseteq Materialized

\* One TeamMate has at most one runtime, however many services were built for its name:
\* "a second send finds the Agent already reopening rather than starting a second runtime"
\* (index.ts:286-294).
OneRuntimePerAgent ==
  \A i, j \in Materialized : rt[i] # "none" /\ rt[j] # "none" => i = j

\* The dispatcher's close leaves no runtime behind: those that start while it sweeps
\* are found by the pass that follows the admitted work.
SweptClean == sweep = "done" => \A i \in Materialized : rt[i] = "none"

\* The close ends, though a runtime start that was under way may hang for ever: the
\* first pass cuts it off, and with it the call the drain waits for.
CloseEnds == (sweep = "join") ~> (sweep = "done")
========================================
