--------------------------- MODULE MCAgentEntity ---------------------------
(* An Agent entity and what a dispatcher's Channels are told of its agents,  *)
(* in one run.  They share no state; a behaviour is one of them, the other   *)
(* resting in its initial state.                                             *)
EXTENDS AgentEntity, TLC

CONSTANTS o1, o2, ch1, ch2, l1, l2, l3

VARIABLES
  part,
  evtAt, evtStart, evtClose, evtSources, evtListeners, evtQueue, evtDue, evtSnap, evtLog,
  evtSince, evtUntil, evtHeard, evtStatus, evtRoster, evtTeam, evtCreating, evtTurn

evtVars ==
  <<evtAt, evtStart, evtClose, evtSources, evtListeners, evtQueue, evtDue, evtSnap, evtLog,
  evtSince, evtUntil, evtHeard, evtStatus, evtRoster, evtTeam, evtCreating, evtTurn>>
hostVars == <<part, vars, evtVars>>

Symmetric == Permutations(Ops)

Subscriptions == (ch1 :> {l1, l2}) @@ (ch2 :> {l3})

V == INSTANCE ConversationEvents WITH
  Channels <- <<ch1, ch2>>, Listens <- Subscriptions, MaxFacts <- 2, at <- evtAt,
  start <- evtStart, close <- evtClose, sources <- evtSources, listeners <- evtListeners,
  queue <- evtQueue, due <- evtDue, snap <- evtSnap, log <- evtLog, since <- evtSince,
  until <- evtUntil, heard <- evtHeard, status <- evtStatus, roster <- evtRoster,
  team <- evtTeam, creating <- evtCreating, turn <- evtTurn

ASSUME HarnessAssumption == V!EventsAssumption

HostInit ==
  /\ part \in {"entity", "events"}
  /\ Init /\ V!Init
  /\ part = "entity" => evtStatus["leader"] = "none"
  /\ evtStatus["leader"] = "none" => evtStatus["member"] = "none"
  /\ part = "events" => durable

\* Bound of the entity: one turn of a Workflow at a time.
OneHolderTurn == Cardinality({o \in Ops : op'[o].kind \in {"locked", "relocked"}}) <= 1

\* Bounds of what is told: the Team's agents or the dispatcher's, one turn at a time; the
\* sessions subscribe when they are initialized, the first listener before the others, and
\* once a listener of the first session changes a subscription; behind the fence no agent
\* comes or changes its state, and behind the revoke only the sessions go on.
Bounded ==
  /\ evtTeam' # "down" =>
       /\ evtStatus'["agent"] = "none" /\ evtStatus'["mate"] = "stopped"
       /\ evtTurn'["agent"] = "none" /\ evtTurn'["mate"] = "none"
  /\ evtTurn'["member"] = "none"
  /\ Cardinality({a \in V!Agents : evtTurn'[a] # "none"}) <= 1
  /\ evtSince'[l2] # V!Never \/ evtSince'[l3] # V!Never => evtSince'[l1] # V!Never
  /\ evtSince'[l3] <= 0
  /\ Cardinality({r \in V!Regs : evtSince'[r] > 0 \/ (evtUntil'[r] # V!Never /\ evtClose' # "revoked")}) <= 1
  /\ V!Quiet /\ evtClose' # "revoked" =>
       evtUntil' = evtUntil /\ (evtStart = "initializing" \/ evtSince' = evtSince)
  /\ V!Fenced => UNCHANGED <<evtStatus, evtCreating, evtTeam>>
  /\ evtClose = "revoked" => UNCHANGED <<evtTurn, evtRoster>>

HostNext ==
  /\ UNCHANGED part
  /\ \/ part = "entity" /\ Next /\ OneHolderTurn /\ UNCHANGED evtVars
     \/ part = "events" /\ V!Next /\ Bounded /\ UNCHANGED vars

HostSpec == HostInit /\ [][HostNext]_hostVars
----------------------------------------
(* Whoever listens hears every fact published while it does, in order and    *)
(* once, whatever the other listeners do, and none behind the revoke; every  *)
(* input a display was shown ends on it; a Team's roster is what its agents' *)
(* identities say; and nothing is shown of another conversation or of a      *)
(* secret that was not reasoned about (dispatcher-core-events/index.ts,      *)
(* conversation-projection.ts, agent/service.ts, team/service.ts).           *)
DisplaysAreTold ==
  /\ [](/\ V!TypeOK /\ V!HeardAsPublished /\ V!InputsEnd /\ V!RosterIsTrue
        /\ V!OnlyItsConversation)
  /\ V!RevokedIsSilent
========================================
