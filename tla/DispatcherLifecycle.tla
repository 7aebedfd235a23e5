------------------------ MODULE DispatcherLifecycle ------------------------
(***************************************************************************)
(* The one start and the one terminal close of a dispatcher: its Channel   *)
(* sessions, built, initialized and opened in order by the start; the      *)
(* dispatcher's own Agent; the work that Channels let in; and the release  *)
(* sweep of the close, which a failed start runs too and a failed release  *)
(* leaves to be retried.                                                   *)
(*                                                                         *)
(* Every action is the code between two awaits.  The Team, TeamMate and    *)
(* Workflow containers are swept next to the Agent and left out.           *)
(***************************************************************************)
EXTENDS Naturals, FiniteSets

CONSTANTS
  Channels,       \* the configured channels, 1..n in configuration order
  MaxWork,        \* bound: commands admitted at a time
  MaxFailures,    \* bound: releases that fail
  CloseMayPrecedeBuild \* whether a close may come before the sessions are published

LifecycleAssumption ==
  /\ IsFiniteSet(Channels) /\ Channels = 1..Cardinality(Channels)
  /\ Channels # {}   \* without one there is no session to lose
  /\ MaxWork \in Nat /\ MaxFailures \in Nat
  /\ CloseMayPrecedeBuild \in BOOLEAN

VARIABLES
  fence,      \* WorkFence.closed
  work,       \* admitted commands that run: how many are about to use the Agent
  start,      \* where the start stands
  at,         \* the channel it is at
  entries,    \* ChannelService.entries: the sessions it can reach
  session,    \* each session: "none", "built", "initialized", "live" or "closed"
  lease,      \* its Core port: "none", "open" or "fenced"
  agent,      \* the dispatcher's Agent: "none", "idle", "starting" or "up"
  admissions, \* which of Workflows, scheduler and Teams are open to work
  close,      \* where the close stands: "none", its steps, "done"
  failed,     \* whether this attempt has failed to release something
  todo,       \* the entries closeAll has yet to close
  failures    \* releases that have failed so far

starting == <<start, at>>
channels == <<entries, session, lease>>
closing  == <<close, failed, todo, failures>>
vars == <<fence, work, starting, channels, agent, admissions, closing>>

Settled == start \in {"idle", "ready", "failed"}
Doors == <<"workflows", "scheduler", "teams">>

Init ==
  /\ fence = FALSE /\ work = 0
  /\ start = "idle" /\ at = 1
  /\ entries = {}
  /\ session = [c \in Channels |-> "none"] /\ lease = [c \in Channels |-> "none"]
  /\ agent = "none" /\ admissions = {}
  /\ close = "none" /\ failed = FALSE /\ todo = {} /\ failures = 0

----------------------------------------
(* doStart                                                                 *)

Starts ==
  /\ start = "idle" /\ ~fence
  /\ start' = "workspace" /\ at' = 1
  /\ UNCHANGED <<fence, work, channels, agent, admissions, closing>>

\* Whatever step fails, closeAfterFailedTransition closes the dispatcher.
Fails(step) == start = step /\ start' = "failing" /\ UNCHANGED at

\* assertOpen after a step: behind the fence the start fails.
Goes(next) ==
  /\ start' = IF fence THEN "failing" ELSE next
  /\ at' = 1

WorkspaceEnsured ==
  /\ \/ start = "workspace" /\ start' = "building" /\ at' = 1
     \/ Fails("workspace")
  /\ UNCHANGED <<fence, work, channels, agent, admissions, closing>>

\* build: one createSession after the other, published when the last one is there.
BuildsSession ==
  /\ start = "building" /\ at \in Channels
  /\ session' = [session EXCEPT ![at] = "built"]
  /\ at' = at + 1
  /\ UNCHANGED <<fence, work, start, entries, lease, agent, admissions, closing>>

\* The session initialize comes to gets its Core port before it answers.
Minted(c) == lease' = [lease EXCEPT ![c] = "open"]

\* initialize follows in the same continuation, without a look at the fence.
Publishes ==
  /\ start = "building" /\ at \notin Channels
  /\ entries' = Channels
  /\ start' = "initializing" /\ at' = 1
  /\ Minted(1)
  /\ UNCHANGED <<fence, work, session, agent, admissions, closing>>

\* A createSession that fails: those built so far are closed, nothing is published.
BuildFails ==
  /\ Fails("building") /\ at \in Channels
  /\ session' = [c \in Channels |-> IF session[c] = "built" THEN "closed" ELSE session[c]]
  /\ UNCHANGED <<fence, work, entries, lease, agent, admissions, closing>>

\* What a session becomes when a step of its own returns: a closed one stays closed.
Becomes(c, state) == [session EXCEPT ![c] = IF @ = "closed" THEN @ ELSE state]

\* One session is done: the loop goes on unless the fence is up.
NextSession(after) ==
  IF fence THEN start' = "failing" /\ UNCHANGED at
  ELSE IF at + 1 \in Channels THEN at' = at + 1 /\ UNCHANGED start
  ELSE start' = after /\ at' = 1

Initialized ==
  /\ start = "initializing"
  /\ \/ /\ session' = Becomes(at, "initialized")
        /\ NextSession("agent")
        /\ IF ~fence /\ at + 1 \in Channels THEN Minted(at + 1) ELSE UNCHANGED lease
     \/ Fails("initializing") /\ UNCHANGED <<session, lease>>
  /\ UNCHANGED <<fence, work, entries, agent, admissions, closing>>

\* DispatcherAgent.build commits the Agent as its last step.
AgentBuilt ==
  /\ \/ start = "agent" /\ agent' = "idle" /\ Goes("recovering")
     \/ Fails("agent") /\ UNCHANGED agent
  /\ UNCHANGED <<fence, work, channels, admissions, closing>>

\* Recovery of Workflows and Teams, then the Agent, if a restart notice wants it.
Recovered ==
  /\ \/ start = "recovering" /\ Goes("activating") /\ UNCHANGED agent
     \/ /\ start = "recovering" /\ ~fence /\ agent = "idle"
        /\ agent' = "starting" /\ start' = "activating" /\ at' = 1
     \/ Fails("recovering") /\ UNCHANGED agent
  /\ UNCHANGED <<fence, work, channels, admissions, closing>>

\* A runtime that was cut off while it started fails the step.
Activated ==
  /\ \/ start = "activating" /\ agent # "starting" /\ Goes("opening") /\ UNCHANGED agent
     \/ /\ start = "activating" /\ agent = "starting"
        /\ agent' = "up" /\ Goes("opening")
     \/ Fails("activating") /\ agent' = IF agent = "starting" THEN "idle" ELSE agent
  /\ UNCHANGED <<fence, work, channels, admissions, closing>>

SessionStarted ==
  /\ start = "opening"
  /\ \/ /\ session' = IF fence THEN session ELSE Becomes(at, "live")
        /\ NextSession("workflows")
     \/ Fails("opening") /\ UNCHANGED session
  /\ UNCHANGED <<fence, work, entries, lease, agent, admissions, closing>>

\* Ordinary admission opens once every Channel has started.
DoorOpens ==
  /\ \E i \in 1..3 :
       /\ start = Doors[i]
       /\ \/ /\ admissions' = admissions \cup {Doors[i]}
             /\ Goes(IF i = 3 THEN "ready" ELSE Doors[i + 1])
          \/ Fails(Doors[i]) /\ UNCHANGED admissions
  /\ UNCHANGED <<fence, work, channels, agent, closing>>

----------------------------------------
(* Admitted work                                                           *)

\* Input: a session whose port is open, or a cron job.  admit refuses behind the fence.
Arrives ==
  /\ ~fence /\ work < MaxWork /\ agent # "none"
  /\ \/ \E c \in Channels : session[c] = "live" /\ lease[c] = "open"
     \/ "scheduler" \in admissions
  /\ work' = work + 1
  /\ UNCHANGED <<fence, starting, channels, agent, admissions, closing>>

\* It starts the Agent's runtime, or revives one that a sweep has stopped.
WakesAgent ==
  /\ work > 0 /\ agent = "idle"
  /\ agent' = "up"
  /\ UNCHANGED <<fence, work, starting, channels, admissions, closing>>

WorkEnds ==
  /\ work > 0 /\ work' = work - 1
  /\ UNCHANGED <<fence, starting, channels, agent, admissions, closing>>

----------------------------------------
(* close and doClose                                                       *)

\* closeAdmission, for the entries the service can reach.
Fenced(L) == [c \in Channels |-> IF c \in entries /\ L[c] = "open" THEN "fenced" ELSE L[c]]

\* The first close raises the fence; every one that finds no task begins the release.
BeginsClose ==
  /\ close = "none"
  /\ close' = "sweep" /\ failed' = FALSE
  /\ fence' = TRUE
  /\ IF fence THEN UNCHANGED <<lease, admissions>> ELSE lease' = Fenced(lease) /\ admissions' = {}
  /\ UNCHANGED <<work, entries, session, agent, todo, failures>>

Closes ==
  /\ CloseMayPrecedeBuild \/ start \notin {"workspace", "building"}
  /\ BeginsClose
  /\ UNCHANGED starting

\* A failed start closes, or waits for the close that is there.
FailedStartCloses ==
  /\ start = "failing" /\ start' = "closing" /\ UNCHANGED at
  /\ \/ BeginsClose
     \/ close # "none" /\ UNCHANGED <<fence, work, channels, agent, admissions, closing>>

StartFailed ==
  /\ start = "closing" /\ close \in {"none", "done"}
  /\ start' = "failed"
  /\ UNCHANGED <<fence, work, at, channels, agent, admissions, closing>>

Broke == failures < MaxFailures /\ failures' = failures + 1 /\ failed' = TRUE

AfterDrain == "sweep again"

\* stopForHost of the Agent; a start under way is cut off.
SweepsAgent ==
  /\ close \in {"sweep", "sweep again"}
  /\ close' = IF close = "sweep" THEN "drain" ELSE "close all"
  /\ \/ agent' = (IF agent = "none" THEN agent ELSE "idle") /\ UNCHANGED <<failed, failures>>
     \/ agent = "up" /\ Broke /\ UNCHANGED agent
  /\ UNCHANGED <<fence, work, starting, channels, admissions, todo>>

\* Every admitted command is over; the start is not one of them.
NothingAdmitted == work = 0

Drains ==
  /\ close = "drain" /\ NothingAdmitted
  /\ close' = AfterDrain
  /\ UNCHANGED <<fence, work, starting, channels, agent, admissions, failed, todo, failures>>

\* closeAll goes through the entries that are there when it is called.
BeginsCloseAll ==
  /\ close = "close all"
  /\ close' = "channels" /\ todo' = entries
  /\ lease' = Fenced(lease)
  /\ UNCHANGED <<fence, work, starting, entries, session, agent, admissions, failed, failures>>

\* Mutant: an entry is given up whatever its close said.
RemainsNever(c, closed) == entries \ {c}

\* An entry is removed only once its own close resolves.
Remains(c, closed) == IF closed THEN entries \ {c} ELSE entries

ClosesSession(c) ==
  /\ close = "channels" /\ c \in todo /\ \A d \in todo : c <= d
  /\ todo' = todo \ {c}
  /\ \/ /\ session' = [session EXCEPT ![c] = "closed"]
        /\ entries' = Remains(c, TRUE) /\ UNCHANGED <<failed, failures>>
     \/ Broke /\ entries' = Remains(c, FALSE) /\ UNCHANGED session
  /\ UNCHANGED <<fence, work, starting, lease, agent, admissions, close>>

\* A failed release gives the task up for a later close; a complete one keeps it.
AfterRelease == IF failed THEN "none" ELSE "done"

CloseSettles ==
  /\ close = "channels" /\ todo = {}
  /\ close' = AfterRelease
  /\ UNCHANGED <<fence, work, starting, channels, agent, admissions, failed, todo, failures>>

----------------------------------------

StartSteps ==
  \/ WorkspaceEnsured \/ BuildsSession \/ Publishes \/ BuildFails \/ Initialized
  \/ AgentBuilt \/ Recovered \/ Activated \/ SessionStarted \/ DoorOpens
  \/ FailedStartCloses \/ StartFailed

CloseSteps ==
  \/ SweepsAgent \/ Drains \/ BeginsCloseAll \/ CloseSettles
  \/ \E c \in Channels : ClosesSession(c)

Next == Starts \/ StartSteps \/ Arrives \/ WakesAgent \/ WorkEnds \/ Closes \/ CloseSteps

Spec == Init /\ [][Next]_vars

\* The host owes neither a start nor a close.
Fairness == WF_vars(StartSteps) /\ WF_vars(CloseSteps) /\ WF_vars(WorkEnds)

----------------------------------------
(* Properties                                                              *)

StartStates == {"idle", "workspace", "building", "initializing", "agent", "recovering", "activating",
  "opening", "workflows", "scheduler", "teams", "ready", "failing", "closing", "failed"}

\* Types; a session has a port from the moment initialize comes to it, and no earlier.
TypeOK ==
  /\ fence \in BOOLEAN /\ work \in 0..MaxWork
  /\ start \in StartStates /\ at \in 1..Cardinality(Channels) + 1
  /\ entries \subseteq Channels
  /\ session \in [Channels -> {"none", "built", "initialized", "live", "closed"}]
  /\ lease \in [Channels -> {"none", "open", "fenced"}]
  /\ \A c \in Channels : session[c] \in {"initialized", "live"} => lease[c] # "none"
  /\ agent \in {"none", "idle", "starting", "up"}
  /\ admissions \subseteq {"workflows", "scheduler", "teams"}
  /\ close \in {"none", "done", "sweep", "drain", "sweep again", "close all", "channels"}
  /\ failed \in BOOLEAN /\ todo \subseteq Channels /\ failures \in 0..MaxFailures

\* A dispatcher that is closed holds no session, and no way into Core through one, at
\* whatever step its start was: "Whatever partial state this attempt built ... is torn down by
\* the same close()" (lifecycle.ts:197-203).
ClosedHoldsNoSession ==
  close = "done" /\ Settled =>
    \A c \in Channels : session[c] \in {"none", "closed"} /\ lease[c] # "open"

\* Nor has it a runtime: one that admitted work revived behind the first sweep is found
\* by the second, and one that would not stop is kept for the retry.
ClosedRunsNothing == close = "done" => agent \in {"none", "idle"} /\ work = 0

\* A closed dispatcher has let go of all that its start built or its sessions admitted.
ClosedHoldsNothing == ClosedHoldsNoSession /\ ClosedRunsNothing

\* A start settles, one that fails at any step too, also when a close is under way; and a
\* close that has begun settles: its drain waits for nothing that waits for it.
StartAndCloseSettle ==
  /\ start = "workspace" ~> Settled
  /\ close = "sweep" ~> close \in {"none", "done"}
========================================
