---------------------------- MODULE FeishuRouting ----------------------------
(* Where a Feishu Channel sends what it receives: routing/index.ts,          *)
(* routing/operations.ts and routing/store.ts (the routing document and its  *)
(* commits), inbound/router.ts, feishu-provisioning.ts and the delivery half *)
(* of inbound/pipeline.ts in packages/channel/feishu-channel/src.            *)
(*                                                                          *)
(* One chat and the topics in it.  Every change of the document is a job of  *)
(* one queue: its mutator reads what was committed last and its result is    *)
(* published only when the write lands.  Messages are planned against the    *)
(* committed document, without waiting for what is queued.                   *)
EXTENDS Naturals, Sequences, FiniteSets

CONSTANTS
  Chat, Topics,   \* the whole chat, and topics inside it
  Messages,       \* messages and settled question cards
  Settlements,    \* the settled cards among them
  TargetOf,       \* where each stands
  ByHand,          \* Teams made by hand
  Fresh,          \* bound: Teams that provisioning may create
  NoTeam, NoMessage,
  Edits           \* bound: changes made by tools and commands

RoutingAssumption ==
  /\ NoMessage \notin Messages
  /\ TargetOf \in [Messages -> Topics \union {Chat}]
  /\ Chat \notin Topics /\ NoTeam \notin ByHand \union Fresh

VARIABLES
  doc,      \* the committed document
  queue,    \* commits that wait for their turn
  core,     \* the Teams of Core: "none", "open", "closed"
  fence,    \* LeaderLifecycleFence: <<team, target>> that may open no card
  stage,    \* where each message stands
  to,       \* the recipient a submission names; NoTeam is the Dispatcher's Agent
  running,  \* provisioning runs in flight, by topic
  session,  \* "live", "fenced" (Core's port is closed), "draining", "closed"
  admitted, \* recipients a message was admitted by
  told,     \* messages answered in place with the failure notice
  edits,
  made,     \* <<team, topic>>: Teams created for a topic
  disturbed \* a route was edited by hand or a write failed

vars == <<doc, queue, core, fence, stage, to, running, session, admitted, told,
          edits, made, disturbed>>

Targets == Topics \union {Chat}
Teams == ByHand \union Fresh
Tracked == Messages \ Settlements
Dispatcher == NoTeam

Init ==
  /\ doc = [bind |-> [t \in Targets |-> NoTeam], root |-> {}, space |-> FALSE, docs |-> {}]
  /\ queue = <<>>
  /\ core = [t \in Teams |-> IF t \in ByHand THEN "open" ELSE "none"]
  /\ fence = {}
  /\ stage = [m \in Messages |-> "none"]
  /\ to = [m \in Messages |-> NoTeam]
  /\ running = [t \in Topics |-> NoMessage]
  /\ session = "live"
  /\ admitted = [m \in Messages |-> {}]
  /\ told = {}
  /\ edits = 0 /\ made = {} /\ disturbed = FALSE
----------------------------------------
Live == session \in {"live", "fenced"}

\* boundPlan: the exact row, else the row of the parent group.
Serving(d, t) == IF d.bind[t] # NoTeam THEN d.bind[t] ELSE d.bind[Chat]

Plan(t, canProvision) ==
  IF Serving(doc, t) # NoTeam THEN "bound"
  ELSE IF canProvision /\ t \in Topics /\ doc.space THEN "provision" ELSE "dispatcher"

NoJob == [op |-> "none", team |-> NoTeam, target |-> Chat, owner |-> NoTeam,
          for |-> NoMessage]
Enqueue(job) == queue' = Append(queue, job)
----------------------------------------
(* Tools and commands: each becomes a commit.                                *)
Edit(job) ==
  /\ session = "live" /\ edits < Edits
  /\ edits' = edits + 1 /\ Enqueue(job)
  /\ disturbed' = (disturbed \/ job.op \in {"bind", "unbind"})
  /\ UNCHANGED <<doc, core, fence, stage, to, running, session, admitted, told, made>>

\* A TeamLeader may claim what is free and release what is its own.
Authorities(team) == {NoTeam, team}

BindChannel(team, t) ==
  /\ core[team] = "open"
  /\ \E owner \in Authorities(team) :
       Edit([NoJob EXCEPT !.op = "bind", !.team = team, !.target = t, !.owner = owner])

UnbindChannel(t) ==
  \E owner \in {NoTeam} \union Teams :
    Edit([NoJob EXCEPT !.op = "unbind", !.target = t, !.owner = owner])

BindSpace == Edit([NoJob EXCEPT !.op = "bindSpace"])
UnbindSpace == Edit([NoJob EXCEPT !.op = "unbindSpace"])
Subscribe(team) == core[team] = "open" /\ Edit([NoJob EXCEPT !.op = "subscribe", !.team = team])
Unsubscribe(team) == Edit([NoJob EXCEPT !.op = "unsubscribe", !.team = team])

\* Core closes a Team and says so: the listener queues the removal.
TeamCloses(team) ==
  /\ core[team] = "open" /\ core' = [core EXCEPT ![team] = "closed"]
  /\ IF Live THEN Enqueue([NoJob EXCEPT !.op = "forget", !.team = team]) ELSE UNCHANGED queue
  /\ UNCHANGED <<doc, fence, stage, to, running, session, admitted, told, edits, made,
                 disturbed>>
----------------------------------------
\* Mutant: a space is bound whatever serves the chat.
RefusedByOwner(d, job) ==
  /\ job.op \in {"bind", "unbind"}
  /\ job.owner # NoTeam /\ d.bind[job.target] \notin {NoTeam, job.owner}

(* The mutators.  A refused change throws; one that changes nothing is not   *)
(* written.                                                                  *)
Refused(d, job) ==
  CASE job.op = "bind" ->
         \/ job.target = Chat /\ d.space
         \/ job.owner # NoTeam /\ d.bind[job.target] \notin {NoTeam, job.owner}
    [] job.op = "unbind" ->
         job.owner # NoTeam /\ d.bind[job.target] \notin {NoTeam, job.owner}
    [] job.op = "bindSpace" -> d.bind[Chat] # NoTeam
    [] OTHER -> FALSE

Without(d, ts) ==
  [d EXCEPT !.bind = [t \in Targets |-> IF t \in ts THEN NoTeam ELSE d.bind[t]],
            !.root = @ \ ts]

RoutesOf(d, team) == {t \in Targets : d.bind[t] = team}

Mutated(d, job) ==
  CASE job.op = "bind" ->
         [d EXCEPT !.bind[job.target] = job.team,
                   !.root = IF job.for # NoMessage THEN @ \union {job.target} ELSE @]
    [] job.op = "unbind" -> Without(d, {job.target})
    [] job.op = "forget" -> [Without(d, RoutesOf(d, job.team)) EXCEPT !.docs = @ \ {job.team}]
    [] job.op = "fill" ->
         [d EXCEPT !.root = IF d.bind[job.target] # NoTeam THEN @ \union {job.target} ELSE @]
    [] job.op = "bindSpace" -> [d EXCEPT !.space = TRUE]
    [] job.op = "unbindSpace" -> [d EXCEPT !.space = FALSE]
    [] job.op = "subscribe" -> [d EXCEPT !.docs = @ \union {job.team}]
    [] job.op = "unsubscribe" -> [d EXCEPT !.docs = @ \ {job.team}]

\* What a commit tells the presentation.  A route is remembered as released
\* only for a leader that has cards: known.
Released(f, team, t, known) ==
  IF team # NoTeam /\ team \in known THEN f \union {<<team, t>>} ELSE f
Claimed(f, team, t) == f \ {<<team, t>>}

Presented(before, job, known) ==
  LET served == Serving(before, job.target)
      left == Serving(Mutated(before, job), job.target)
  IN CASE job.op = "bind" ->
            Claimed(IF served # job.team THEN Released(fence, served, job.target, known)
                    ELSE fence, job.team, job.target)
       [] job.op = "unbind" /\ before.bind[job.target] # NoTeam ->
            Claimed(Released(fence, before.bind[job.target], job.target, known),
                    left, job.target)
       [] job.op = "forget" ->
            fence \union {<<job.team, t>> : t \in IF job.team \in known
                                                  THEN RoutesOf(before, job.team) ELSE {}}
       [] OTHER -> fence
----------------------------------------
(* Submission and its answer.                                                *)

\* submit: refused at once when the session is no longer live, or by Core's port
\* when that is closed.  A rejected submission through a bound route has a next
\* recipient; a final one has none.
Submit(m, team, kind) ==
  IF session = "live" THEN stage' = [stage EXCEPT ![m] = kind] /\ to' = [to EXCEPT ![m] = team]
  ELSE stage' = [stage EXCEPT ![m] = "ended"] /\ to' = to

\* A run is over for the topic it was for.
RunOver(m) == [t \in Topics |-> IF running[t] = m THEN NoMessage ELSE running[t]]

\* An accepted message that nothing admitted is answered in place.
Tell(m) == told' = IF Live /\ m \in Tracked THEN told \union {m} ELSE told

\* What a message does when its commit is settled.
Continue(job, ok) ==
  LET m == job.for IN
  CASE m = NoMessage -> UNCHANGED <<stage, to, running, told>>
    [] m # NoMessage /\ job.op = "fill" ->
         /\ stage' = [stage EXCEPT ![m] = "building"] /\ UNCHANGED <<to, running, told>>
    [] m # NoMessage /\ job.op = "forget" ->
         Submit(m, Dispatcher, "final") /\ UNCHANGED <<running, told>>
    [] m # NoMessage /\ job.op = "bind" ->
         IF ok
         THEN /\ Submit(m, job.team, "final") /\ UNCHANGED told
              /\ running' = IF session = "live" THEN running ELSE RunOver(m)
         ELSE /\ stage' = [stage EXCEPT ![m] = "ended"] /\ running' = RunOver(m)
              /\ Tell(m) /\ UNCHANGED to

\* The leaders a commit may have to fence.
Routed == {doc.bind[t] : t \in Targets} \ {NoTeam}

\* One commit; what waited for it goes on before another write can land.
Commit ==
  /\ queue # <<>> /\ queue' = Tail(queue)
  /\ LET job == Head(queue)
         refused == Refused(doc, job)
         next == Mutated(doc, job)
     IN \E written \in (IF ~refused /\ next # doc THEN BOOLEAN ELSE {TRUE}) :
          LET ok == ~refused /\ written IN
          /\ doc' = IF ok THEN next ELSE doc
          /\ disturbed' = (disturbed \/ ~written)
          /\ \E known \in SUBSET Routed : fence' = IF ok /\ Live THEN Presented(doc, job, known)
                                                   ELSE fence
          /\ Continue(job, ok)
  /\ UNCHANGED <<core, session, admitted, edits, made>>
----------------------------------------
(* A message.                                                                *)

\* Classified, gated and projected; a settled card skips what follows.
Arrive(m) ==
  /\ Live /\ stage[m] = "none"
  /\ stage' = [stage EXCEPT ![m] = IF m \in Settlements THEN "building" ELSE "routed"]
  /\ UNCHANGED <<doc, queue, core, fence, to, running, session, admitted, told, edits, made,
                 disturbed>>

\* learnTopicRoot: a topic row that has none is given its root.
LearnTopicRoot(m) ==
  /\ stage[m] = "routed"
  /\ LET t == TargetOf[m] IN
     IF ~Live
     THEN stage' = [stage EXCEPT ![m] = "ended"] /\ UNCHANGED queue
     ELSE IF t \in Topics /\ doc.bind[t] # NoTeam /\ t \notin doc.root
     THEN /\ stage' = [stage EXCEPT ![m] = "filling"]
          /\ Enqueue([NoJob EXCEPT !.op = "fill", !.target = t, !.for = m])
     ELSE stage' = [stage EXCEPT ![m] = "building"] /\ UNCHANGED queue
  /\ UNCHANGED <<doc, core, fence, to, running, session, admitted, told, edits, made,
                 disturbed>>

\* deliver: the plan and what it leads to are one step.  Only a topic that was
\* seen in the topic format may be given a Team.
Deliver(m) ==
  /\ stage[m] = "building"
  /\ \E canProvision \in BOOLEAN :
       LET t == TargetOf[m]
           plan == Plan(t, canProvision)
       IN CASE m \in Tracked /\ ~Live ->
                 stage' = [stage EXCEPT ![m] = "ended"] /\ UNCHANGED <<to, running>>
            [] (m \in Settlements \/ Live) /\ plan = "dispatcher" ->
                 Submit(m, Dispatcher, "final") /\ UNCHANGED running
            [] (m \in Settlements \/ Live) /\ plan = "bound" ->
                 Submit(m, Serving(doc, t), "submitting") /\ UNCHANGED running
            [] (m \in Settlements \/ Live) /\ plan = "provision" ->
                 /\ UNCHANGED to
                 /\ IF running[t] = NoMessage /\ session = "live"
                    THEN stage' = [stage EXCEPT ![m] = "creating"]
                         /\ running' = [running EXCEPT ![t] = m]
                    ELSE stage' = [stage EXCEPT ![m] = IF running[t] = NoMessage THEN "refused"
                                                                                ELSE "waiting"]
                         /\ UNCHANGED running
  /\ UNCHANGED <<doc, queue, core, fence, session, admitted, told, edits, made, disturbed>>

\* Core creates the Team, or refuses; the route to it is committed next.
TeamCreated(m) ==
  /\ stage[m] = "creating"
  /\ \E team \in Fresh :
       /\ core[team] = "none" /\ core' = [core EXCEPT ![team] = "open"]
       /\ made' = made \union {<<team, TargetOf[m]>>}
       /\ Enqueue([NoJob EXCEPT !.op = "bind", !.team = team, !.target = TargetOf[m],
                                !.for = m])
  /\ stage' = [stage EXCEPT ![m] = "binding"]
  /\ UNCHANGED <<doc, fence, to, running, session, admitted, told, edits, disturbed>>

CreateFails(m) ==
  /\ stage[m] \in {"creating", "refused"} /\ stage' = [stage EXCEPT ![m] = "ended"]
  /\ running' = RunOver(m) /\ Tell(m)
  /\ UNCHANGED <<doc, queue, core, fence, to, session, admitted, edits, made, disturbed>>

\* deliverAfterRun: through the route the run installed, or not at all.
DeliverAfterRun(m) ==
  /\ stage[m] = "waiting" /\ running[TargetOf[m]] = NoMessage
  /\ IF doc.bind[TargetOf[m]] # NoTeam
     THEN Submit(m, doc.bind[TargetOf[m]], "final") /\ UNCHANGED told
     ELSE stage' = [stage EXCEPT ![m] = "ended"] /\ Tell(m) /\ UNCHANGED to
  /\ UNCHANGED <<doc, queue, core, fence, running, session, admitted, edits, made, disturbed>>

ClosedTeams == {team \in Teams : core[team] = "closed"}

Over(m) == stage' = [stage EXCEPT ![m] = "ended"] /\ running' = RunOver(m)

\* Core admits it, or cannot say whether it did.
Admitted(m) ==
  /\ stage[m] \in {"submitting", "final"}
  /\ to[m] \in {Dispatcher} \union {team \in Teams : core[team] = "open"}
  /\ admitted' = [admitted EXCEPT ![m] = @ \union {to[m]}] /\ Over(m)
  /\ UNCHANGED <<doc, queue, core, fence, to, session, told, edits, made, disturbed>>

\* Not admitted, but not for want of a Team: nobody is tried next.
NotAdmitted(m) ==
  /\ stage[m] \in {"submitting", "final"} /\ Over(m)
  /\ UNCHANGED <<doc, queue, core, fence, to, session, admitted, told, edits, made, disturbed>>

\* TEAM_NOT_FOUND or TEAM_CLOSED, before admission: the routes of the Team go,
\* and the Dispatcher's Agent is next.
Rejected(m) ==
  /\ stage[m] = "submitting" /\ to[m] \in ClosedTeams
  /\ Enqueue([NoJob EXCEPT !.op = "forget", !.team = to[m], !.for = m])
  /\ stage' = [stage EXCEPT ![m] = "falling"]
  /\ UNCHANGED <<doc, core, fence, to, running, session, admitted, told, edits, made,
                 disturbed>>

RejectedFinally(m) ==
  /\ stage[m] = "final" /\ to[m] \in ClosedTeams
  /\ Over(m) /\ Tell(m)
  /\ UNCHANGED <<doc, queue, core, fence, to, session, admitted, edits, made, disturbed>>
----------------------------------------
(* Presentation and the end of the session.                                 *)

\* A team.state of a Team that is not closed lifts what was fenced.
TeamState(team) ==
  /\ Live /\ core[team] = "open"
  /\ fence' = {f \in fence : f[1] # team} /\ fence' # fence
  /\ UNCHANGED <<doc, queue, core, stage, to, running, session, admitted, told, edits, made,
                 disturbed>>

\* The dispatcher closes the port and lets the Commands admitted before end.
CloseAdmission ==
  /\ session = "live" /\ session' = "fenced"
  /\ UNCHANGED <<doc, queue, core, fence, stage, to, running, admitted, told, edits, made,
                 disturbed>>

InCore == {m \in Messages : stage[m] \in {"creating", "submitting", "final"}}

Abort ==
  /\ session = "fenced" /\ InCore = {} /\ session' = "draining" /\ fence' = {}
  /\ UNCHANGED <<doc, queue, core, stage, to, running, admitted, told, edits, made, disturbed>>

Drained ==
  /\ session = "draining" /\ \A m \in Tracked : stage[m] \in {"none", "ended"}
  /\ queue = <<>> /\ session' = "closed"
  /\ UNCHANGED <<doc, queue, core, fence, stage, to, running, admitted, told, edits, made,
                 disturbed>>

Answers(m) == Admitted(m) \/ NotAdmitted(m) \/ Rejected(m) \/ RejectedFinally(m)
Handling(m) ==
  \/ LearnTopicRoot(m) \/ Deliver(m) \/ TeamCreated(m) \/ CreateFails(m)
  \/ DeliverAfterRun(m) \/ Answers(m)

Next ==
  \/ \E team \in Teams, t \in Targets : BindChannel(team, t)
  \/ \E t \in Targets : UnbindChannel(t)
  \/ BindSpace \/ UnbindSpace
  \/ \E team \in Teams : Subscribe(team) \/ Unsubscribe(team) \/ TeamCloses(team)
                          \/ TeamState(team)
  \/ Commit
  \/ \E m \in Messages : Arrive(m) \/ Handling(m)
  \/ CloseAdmission \/ Abort \/ Drained

Spec == Init /\ [][Next]_vars

\* Every await of the path ends: writes and Commands settle, with an answer or
\* an error.
Fairness == WF_vars(Commit) /\ \A m \in Messages : WF_vars(Handling(m))
----------------------------------------
TypeOK ==
  /\ doc.bind \in [Targets -> Teams \union {NoTeam}]
  /\ doc.root \subseteq Topics /\ doc.docs \subseteq Teams
  /\ core \in [Teams -> {"none", "open", "closed"}]
  /\ fence \subseteq Teams \X Targets
  /\ running \in [Topics -> Messages \union {NoMessage}]
  /\ session \in {"live", "fenced", "draining", "closed"}

(* The document never says both that a chat is one Team's as a whole and     *)
(* that each of its topics gets a Team of its own, however the commits that  *)
(* would say so are queued behind each other; and a root is kept only for a  *)
(* topic that has a route.                                                   *)
OneRuleForTheChat ==
  /\ ~(doc.space /\ doc.bind[Chat] # NoTeam)
  /\ \A t \in doc.root : doc.bind[t] # NoTeam

(* A message is admitted by one recipient at most, and its sender is told    *)
(* that nothing could be started only if nobody has it.                      *)
OneRecipient ==
  \A m \in Messages :
    /\ Cardinality(admitted[m]) <= 1
    /\ m \in told => admitted[m] = {} /\ stage[m] = "ended"

(* Provisioning gives a topic one Team: while no route was edited by hand    *)
(* and no write failed, two open Teams are never there for one topic.        *)
OneTeamPerTopic ==
  ~disturbed =>
    \A t \in Topics : Cardinality({team \in Fresh : <<team, t>> \in made /\ core[team] = "open"}) <= 1

(* A Team whose own row routes a conversation may open a card there.         *)
OwnRouteMayPresent ==
  \A t \in Targets : doc.bind[t] # NoTeam => <<doc.bind[t], t>> \notin fence

(* A session that ended has nothing left to write: a settled card, which     *)
(* nobody waits for, brings no change of the document afterwards.            *)
EndedSessionWritesNothing == session = "closed" => queue = <<>>

(* A message taken in ends: admitted, answered, or refused.                  *)
MessagesEnd == \A m \in Messages : stage[m] # "none" ~> stage[m] = "ended"
========================================
