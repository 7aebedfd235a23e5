------------------------ MODULE ConversationEvents ------------------------
(***************************************************************************)
(* What a dispatcher's Channel sessions are told: the bus of live facts    *)
(* and its leases, the inputs and activities of agents projected on to it, *)
(* the states of agents and the roster their Team reports; from the first  *)
(* session that is initialized to the close that revokes the sources.      *)
(*                                                                         *)
(* A publication is synchronous: while facts are delivered only listeners  *)
(* run, and a listener may throw, reject, subscribe or unsubscribe.        *)
(***************************************************************************)
EXTENDS Integers, Sequences, SequencesExt, FiniteSets

CONSTANTS
  Channels,   \* the configured channels, a sequence in configuration order
  Listens,    \* of each channel, the subscriptions its session may make
  MaxFacts    \* bound: facts beyond which nothing new is begun

EventsAssumption ==
  /\ IsInjective(Channels) /\ Channels # <<>> /\ MaxFacts \in Nat
  /\ DOMAIN Listens = Range(Channels)
  /\ \A c, d \in Range(Channels) : c # d => Listens[c] \cap Listens[d] = {}

\* The dispatcher's own Agent, a TeamMate of the dispatcher, a Team's leader and its member.
Agents == {"agent", "mate", "leader", "member"}
InTeam == {"leader", "member"}
Regs == UNION {Listens[c] : c \in Range(Channels)}

VARIABLES
  at,        \* the session initialize is at; beyond the last one it has returned
  start,     \* of that start: "initializing", "initialized" or "failed"
  close,     \* where the close stands: "none", its steps, "revoked"
  sources,   \* DispatcherCoreEventBus.sources: the channels with a live lease
  listeners, \* of each source, its registrations in order
  queue,     \* facts the running code has yet to publish
  due, snap, \* of the fact in delivery: the sources, and the registrations of this one, left
  log,       \* every fact published
  since, until, \* of each registration, the facts published when it began and ended, or none
  heard,     \* what it was told
  status,    \* of each agent, the committed status of its identity
  roster,    \* TeamService.rosterMembers, "none" for an agent that is not there
  team,      \* the Team: "down", "seeded" or "up"
  creating,  \* its Agents whose identity is committed and whose creation has yet to return
  turn       \* of each agent: "none", "admitting", "running" or "stuck" in a stop that failed

bus  == <<sources, listeners, queue, due, snap, log, since, until, heard>>
life == <<at, start, close>>
core == <<status, roster, team, creating, turn>>
vars == <<life, bus, core>>

Statuses == {"none", "stopped", "running"}
Never == -1

Init ==
  /\ at = 1 /\ start = "initializing" /\ close = "none"
  /\ sources = <<Channels[1]>>
  /\ listeners = [c \in Range(Channels) |-> <<>>]
  /\ queue = <<>> /\ due = <<>> /\ snap = <<>> /\ log = <<>>
  /\ since = [r \in Regs |-> Never] /\ until = [r \in Regs |-> Never]
  /\ heard = [r \in Regs |-> <<>>]
  /\ status \in [Agents -> {"none", "stopped"}]
  /\ status["agent"] = "none" /\ status["mate"] = "stopped"
  /\ roster = [a \in InTeam |-> "none"] /\ team = "down" /\ creating = {}
  /\ turn = [a \in Agents |-> "none"]

----------------------------------------
(* The bus                                                                 *)

Quiet == queue = <<>> /\ due = <<>> /\ snap = <<>>

\* Nothing is built for a dispatcher without sources (hasSources).
Publishes(facts) ==
  /\ Quiet
  /\ queue' = IF sources = <<>> THEN <<>> ELSE facts
  /\ UNCHANGED <<sources, listeners, due, snap, log, since, until, heard>>

\* publish: the sources in the order of their creation.
Publish ==
  /\ queue # <<>> /\ due = <<>> /\ snap = <<>>
  /\ log' = Append(log, Head(queue)) /\ queue' = Tail(queue) /\ due' = sources
  /\ UNCHANGED <<life, core, sources, listeners, snap, since, until, heard>>

\* dispatch: the registrations of a source as they are when its turn comes.
Dispatch ==
  /\ due # <<>> /\ snap = <<>>
  /\ snap' = listeners[Head(due)] /\ due' = Tail(due)
  /\ UNCHANGED <<life, core, sources, listeners, queue, log, since, until, heard>>

Subscribed(c, r) ==
  /\ since[r] = Never /\ c \in Range(sources)
  /\ listeners' = [listeners EXCEPT ![c] = Append(@, r)]
  /\ since' = [since EXCEPT ![r] = Len(log)]
  /\ UNCHANGED until

Unsubscribed(c, r) ==
  /\ r \in Range(listeners[c])
  /\ listeners' = [listeners EXCEPT ![c] = Remove(@, r)]
  /\ until' = [until EXCEPT ![r] = Len(log)]
  /\ UNCHANGED since

Resubscribes(c) == \E r \in Listens[c] : Subscribed(c, r) \/ Unsubscribed(c, r)

RestUnlessThrown(end) == IF end = "throws" THEN <<>> ELSE Tail(snap)

\* A listener that throws, or whose promise rejects, is logged.
Rest(end) == Tail(snap)

\* One listener is called; it may touch the subscriptions of its own session.
Call(end) ==
  /\ snap # <<>>
  /\ heard' = [heard EXCEPT ![Head(snap)] = Append(@, Last(log))]
  /\ snap' = Rest(end)
  /\ \/ UNCHANGED <<listeners, since, until>>
     \/ \E c \in Range(Channels) : Head(snap) \in Listens[c] /\ Resubscribes(c)
  /\ UNCHANGED <<life, core, sources, queue, due, log>>

\* A session subscribes and unsubscribes whenever it likes.
Resubscribe(c) ==
  /\ Quiet /\ Resubscribes(c)
  /\ UNCHANGED <<life, core, sources, queue, due, snap, log, heard>>

\* revokeSources: each lease is deactivated and its listeners are cleared.
Revoked ==
  /\ sources' = <<>>
  /\ listeners' = [c \in Range(Channels) |-> <<>>]
  /\ until' = [r \in Regs |->
       IF \E c \in Range(Channels) : r \in Range(listeners[c]) THEN Len(log) ELSE until[r]]

----------------------------------------
(* The sessions (service/channel-service)                                  *)

Fenced == close # "none"

\* The port of a session takes its Commands until the fence goes up.
Accepts == ~Fenced

\* session.initialize has returned: the next session gets its source unless the fence is up.
Initialized ==
  /\ Quiet /\ start = "initializing"
  /\ IF Fenced THEN start' = "failed" /\ UNCHANGED <<at, sources>>
     ELSE IF at = Len(Channels) THEN start' = "initialized" /\ UNCHANGED <<at, sources>>
     ELSE /\ at' = at + 1 /\ sources' = Append(sources, Channels[at + 1])
          /\ UNCHANGED start
  /\ UNCHANGED <<close, core, listeners, queue, due, snap, log, since, until, heard>>

\* A start that fails, here or further on, closes the dispatcher.
StartFails ==
  /\ Quiet /\ start = "initializing"
  /\ start' = "failed"
  /\ close' = IF Fenced THEN close ELSE "draining"
  /\ UNCHANGED <<at, core, bus>>

\* The fence goes up at once; subscriptions outlive it.
Close ==
  /\ Quiet /\ close = "none"
  /\ close' = "draining"
  /\ UNCHANGED <<at, start, core, bus>>

\* What was admitted is joined after a first sweep over the runtimes, and before a second.
Drained ==
  /\ Quiet /\ close = "draining" /\ "admitting" \notin Range(turn)
  /\ close' = "resweeping"
  /\ UNCHANGED <<at, start, core, bus>>

\* closeAll, once both sweeps have been over every runtime.
CloseAll ==
  /\ Quiet /\ close = "resweeping" /\ "running" \notin Range(turn)
  /\ close' = "revoked"
  /\ Revoked
  /\ UNCHANGED <<at, start, core, queue, due, snap, log, since, heard>>

----------------------------------------
(* What Core tells                                                         *)

Budget == Len(log) < MaxFacts

\* actorScope: a TeamMate of the dispatcher has no conversation.
Scoped(a) == a \in InTeam \cup {"agent"}

\* Texts are redacted, reasoning is not; one that no redaction gets through is not shown.
Shown(kind, text) == IF kind = "reasoning" \/ text # "secret" THEN text ELSE "redacted"
Lost(kind, text) == text = "broken" /\ kind # "reasoning"

Projected(a, kind, text) ==
  IF Scoped(a) /\ ~Lost(kind, text)
  THEN <<[kind |-> kind, of |-> a, text |-> Shown(kind, text)]>> ELSE <<>>

\* The agent can be written to: a Team's once it is up, the dispatcher's once it is built.
There(a) ==
  /\ status[a] # "none"
  /\ a \in InTeam => team = "up" /\ roster[a] # "none"

\* submitAdmitted: an input is announced before anything can fail.
Announce(a, text) ==
  /\ There(a) /\ turn[a] = "none" /\ Accepts /\ Budget
  /\ turn' = [turn EXCEPT ![a] = "admitting"]
  /\ Publishes(Projected(a, "input", text))
  /\ UNCHANGED <<life, status, roster, team, creating>>

FailedEnd(a) == Projected(a, "ended", "failed")

\* The admission throws or answers anything but submitted.
AdmissionFails(a) ==
  /\ turn[a] = "admitting"
  /\ turn' = [turn EXCEPT ![a] = "none"]
  /\ Publishes(FailedEnd(a))
  /\ UNCHANGED <<life, status, roster, team, creating>>

Admitted(a) ==
  /\ Quiet /\ turn[a] = "admitting"
  /\ turn' = [turn EXCEPT ![a] = "running"]
  /\ UNCHANGED <<life, bus, status, roster, team, creating>>

Works(a, kind, text) ==
  /\ turn[a] = "running" /\ Budget
  /\ Publishes(Projected(a, kind, text))
  /\ UNCHANGED <<life, core>>

\* A native end, or the one a runtime reports of its teardown.
TurnEnds(a) ==
  /\ turn[a] = "running"
  /\ turn' = [turn EXCEPT ![a] = "none"]
  /\ Publishes(Projected(a, "ended", "plain"))
  /\ UNCHANGED <<life, status, roster, team, creating>>

\* A stop that fails leaves the turn where it is.
StopFails(a) ==
  /\ Quiet /\ Fenced /\ turn[a] = "running"
  /\ turn' = [turn EXCEPT ![a] = "stuck"]
  /\ UNCHANGED <<life, bus, status, roster, team, creating>>

StateOf(a, s) == [kind |-> "state", of |-> a, status |-> s]
TeamState(r) == [kind |-> "team", roster |-> r]

\* The commit of a new identity is told before the Team has it on its roster.
Create(a) ==
  /\ status[a] = "none" /\ Budget
  /\ a = "agent" => start = "initialized"
  /\ a = "leader" => team = "seeded"
  /\ a = "member" => team = "up"
  /\ creating' = creating \cup ({a} \cap InTeam)
  /\ status' = [status EXCEPT ![a] = "stopped"]
  /\ Publishes(<<StateOf(a, "stopped")>>)
  /\ UNCHANGED <<life, roster, team, turn>>

Remembered(a, s) == [roster EXCEPT ![a] = s]

\* The awaited create has returned: the Team publishes its aggregate.
Join(a) ==
  /\ a \in creating
  /\ creating' = creating \ {a}
  /\ roster' = Remembered(a, status[a])
  /\ team' = "up"
  /\ Publishes(<<TeamState(roster')>>)
  /\ UNCHANGED <<life, status, turn>>

\* The aggregate follows the state of an Agent the Team observes.
Aggregated(a) == IF a \in InTeam THEN <<TeamState(roster')>> ELSE <<>>

\* An update that changes the status of an identity tells its state, then the aggregate's.
StatusChanges(a) ==
  /\ There(a) /\ Budget
  /\ \E s \in Statuses \ {"none", status[a]} :
       /\ status' = [status EXCEPT ![a] = s]
       /\ roster' = IF a \in InTeam THEN Remembered(a, s) ELSE roster
       /\ Publishes(<<StateOf(a, s)>> \o Aggregated(a))
  /\ UNCHANGED <<life, team, creating, turn>>

Seeded == [roster EXCEPT !["member"] = status["member"]]

\* A Team rebuilt from its record takes its members in before its leader, whose identity it
\* may find and which it then tells nothing of.
Rebuild ==
  /\ Quiet /\ team = "down" /\ ~Fenced
  /\ roster' = Seeded
  /\ team' = "seeded"
  /\ UNCHANGED <<life, bus, status, creating, turn>>

LeaderOpens ==
  /\ Quiet /\ team = "seeded" /\ status["leader"] # "none" /\ creating = {}
  /\ roster' = Remembered("leader", status["leader"])
  /\ team' = "up"
  /\ UNCHANGED <<life, bus, status, creating, turn>>

AgentTells(a) ==
  \/ \E text \in {"secret", "broken"} :
       \/ Announce(a, text)
       \/ \E kind \in {"message", "reasoning"} : Works(a, kind, text)
  \/ AdmissionFails(a) \/ Admitted(a) \/ TurnEnds(a) \/ StopFails(a)
  \/ Create(a) \/ StatusChanges(a)

Next ==
  \/ Publish \/ Dispatch \/ \E end \in {"returns", "throws", "rejects"} : Call(end)
  \/ \E c \in Range(Channels) : Resubscribe(c)
  \/ Initialized \/ StartFails \/ Close \/ Drained \/ CloseAll
  \/ \E a \in Agents : AgentTells(a)
  \/ \E a \in InTeam : Join(a)
  \/ Rebuild \/ LeaderOpens

Spec == Init /\ [][Next]_vars
----------------------------------------
TypeOK ==
  /\ at \in DOMAIN Channels
  /\ start \in {"initializing", "initialized", "failed"}
  /\ close \in {"none", "draining", "resweeping", "revoked"}
  /\ IsPrefix(sources, Channels)
  /\ \A c \in Range(Channels) : IsInjective(listeners[c]) /\ Range(listeners[c]) \subseteq Listens[c]
  /\ Range(snap) \subseteq Regs
  /\ since \in [Regs -> Nat \cup {Never}] /\ until \in [Regs -> Nat \cup {Never}]
  /\ status \in [Agents -> Statuses] /\ roster \in [InTeam -> Statuses]
  /\ creating \subseteq InTeam
  /\ turn \in [Agents -> {"none", "admitting", "running", "stuck"}]

(* Every registration hears what was published while it was there, in that   *)
(* order and once, whatever the other listeners do (publish, dispatch).      *)
HeardAsPublished ==
  Quiet => \A r \in Regs : since[r] # Never =>
    heard[r] = SubSeq(log, since[r] + 1, IF until[r] = Never THEN Len(log) ELSE until[r])

(* An input a display was shown, and whose end it was not, is still owed it; *)
(* once the sources are revoked only a runtime that could not be stopped     *)
(* owes one (submitAdmitted, closeAll).                                      *)
InputsEnd ==
  Quiet => \A r \in Regs, a \in Agents :
    LET Of(kind) == {i \in DOMAIN heard[r] : heard[r][i].kind = kind /\ heard[r][i].of = a} IN
    /\ until[r] \in {Never, Len(log)}
    /\ \E i \in Of("input") : \A j \in Of("ended") : j < i
    => turn[a] \in IF close = "revoked" THEN {"stuck"} ELSE {"admitting", "running", "stuck"}

(* A Team's roster agrees with the identities it is made from, and so does    *)
(* the last aggregate that was published, but for an Agent whose creation     *)
(* has yet to return (TeamService.publish, seedMembers).                      *)
RosterIsTrue ==
  LET told == SelectSeq(log, LAMBDA f : f.kind = "team") IN
  Quiet =>
    /\ team = "up" => \A a \in InTeam :
         roster[a] = IF a \in creating THEN "none" ELSE status[a]
    /\ sources # <<>> /\ told # <<>> => Last(told).roster = roster

(* A display is shown its own conversations only, and no secret that was not  *)
(* reasoned about (actorScope, projectedActivity).                            *)
OnlyItsConversation ==
  \A f \in Range(log) : f.kind \notin {"state", "team"} =>
    f.of # "mate" /\ (f.text = "secret" => f.kind = "reasoning")

(* Behind the revoke no source is left, nobody hears anything and no          *)
(* subscription is taken (revokeSources, initialize).                         *)
RevokedIsSilent ==
  [][close = "revoked" => sources' = <<>> /\ UNCHANGED <<heard, since>>]_vars
========================================
