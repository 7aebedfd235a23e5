--------------------------- MODULE RecordRecovery ---------------------------
(* What a process makes of the agents' records it finds: the dispatcher's own *)
(* (service/dispatcher-service/agent.ts), and a Team's with its leader's      *)
(* (service/team/index.ts, service.ts, leader.ts, store.ts), read and written *)
(* by service/agent/store.ts.  One dispatcher, and one name a Team can have.  *)
(*                                                                            *)
(* A file holds a record, nothing, Junk (what no reader accepts) or Legacy    *)
(* (an identity of before agent_runtime).  A session tells which runtime made *)
(* it, where, for whom, and after how many others it replaced: what a         *)
(* provider hides in its id.                                                  *)
(* Files change behind the program's back while no process runs.              *)
EXTENDS Naturals, FiniteSets

CONSTANTS
  Runtimes, Cwds,  \* ids of agents[], working directories
  Replacing,       \* the Runtimes that make another session when a restart cannot resume
  Absent, Junk, Legacy,
  Leaders,         \* names the allocator can draw for a leader
  MaxTeams,        \* bound: Teams created at the name
  MaxMishaps       \* bound: failed reads and writes, files damaged, configuration edits

VARIABLES
  conf,      \* the dispatcher's agent runtime and cwd, as configured
  root,      \* the dispatcher's identity.json
  team,      \* the Team's record.json
  lead,      \* the identity.json beside it
  proc,      \* how far the dispatcher's start is: "down", "boot", "built", "recovered", "up"
  serving,   \* the configuration the running dispatcher was made with
  agent,     \* of "root" and "lead": "none", "built", "live", or "lost": live, its session lost
  noticed,   \* does the restart marker name this dispatcher?
  creating,  \* the Team's record is published, its leader not created
  teams, mishaps

disk == <<root, team, lead>>
run == <<proc, serving, agent, noticed, creating>>
vars == <<conf, disk, run, teams, mishaps>>

Configurations == [runtime : Runtimes, cwd : Cwds]
Recorded(f) == f \notin {Absent, Junk, Legacy}

\* A session a provider has just started.
Made(id, owner) == [by |-> id.runtime, at |-> id.cwd, of |-> owner, nth |-> 0]
Owner(a) == IF a = "root" THEN "root" ELSE team.by
File(a) == IF a = "root" THEN root ELSE lead

\* The record of a Team; its creation inputs are its leader's.
TeamOf(n, l, c) == [by |-> n, leader |-> l, runtime |-> c.runtime, cwd |-> c.cwd, status |-> "open"]

\* An installation as this version finds it: new, or with identities of an older one.
Init ==
  /\ conf \in Configurations
  /\ root \in {Absent, Legacy}
  /\ \/ team = Absent /\ lead = Absent
     \/ team = TeamOf(0, CHOOSE l \in Leaders : TRUE, conf) /\ lead = Legacy
  /\ proc = "down" /\ serving = conf /\ agent = [root |-> "none", lead |-> "none"]
  /\ noticed = FALSE /\ creating = FALSE
  /\ teams = 0 /\ mishaps = 0

Mishap == mishaps < MaxMishaps /\ mishaps' = mishaps + 1
Fine == UNCHANGED mishaps

\* loadIdentity throws what is not "not found", and a legacy file; the rest is a value or nothing.
Refuses(f) == (f = Legacy /\ Fine) \/ Mishap
Seen(f) == IF Recorded(f) THEN f ELSE Absent
\* loadTeam: every failure is nothing.
TeamSeen == {Seen(team)} \cup (IF mishaps < MaxMishaps THEN {Absent} ELSE {})
TeamMissed(seen) == IF seen = Seen(team) THEN Fine ELSE Mishap

\* A start that fails is closed: every runtime is stopped.
Over == proc' = "down" /\ agent' = [root |-> "none", lead |-> "none"] /\ creating' = FALSE
Stops == Over /\ UNCHANGED <<conf, disk, serving, noticed, teams>>
----------------------------------------
(* The dispatcher's start.                                                  *)

Boots ==
  /\ proc = "down" /\ proc' = "boot"
  /\ serving' = conf /\ noticed' \in BOOLEAN
  /\ UNCHANGED <<conf, disk, agent, creating, teams, mishaps>>

\* ensureDispatcherWorkspace: the directory cannot be made or used.
NoWorkspace == proc = "boot" /\ Mishap /\ Stops

\* Mutant: the record of an agent that ran elsewhere keeps its session.
CompatibleWhereverItRan(found) == found.runtime = serving.runtime
\* dispatcherIdentityReconcile: is the record still the configured agent's?
Compatible(found) == found.runtime = serving.runtime /\ found.cwd = serving.cwd

\* upsert: the configuration's fields, and the session of a compatible record.
Ensured(found) ==
  [runtime |-> serving.runtime, cwd |-> serving.cwd,
   session |-> IF found # Absent /\ Compatible(found) THEN found.session ELSE Absent]

RootBuilt ==
  /\ proc = "boot" /\ root # Legacy
  /\ root' = Ensured(Seen(root)) /\ agent' = [agent EXCEPT !["root"] = "built"]
  /\ proc' = "built"
  /\ UNCHANGED <<conf, team, lead, serving, noticed, creating, teams, mishaps>>

\* The read is refused, or the write fails.
RootNotBuilt == proc = "boot" /\ Refuses(root) /\ Stops

\* teams.recover: the Team is materialized, or there is none to materialize.
TeamsRecovered ==
  /\ proc = "built" /\ proc' = "recovered"
  /\ \E seen \in TeamSeen :
       /\ ~(seen # Absent /\ seen.status = "open" /\ agent["lead"] = "none")
       /\ TeamMissed(seen)
  /\ UNCHANGED <<conf, disk, serving, agent, noticed, creating, teams>>

TeamNotRecovered ==
  /\ proc = "built" /\ Recorded(team) /\ team.status = "open" /\ agent["lead"] = "none"
  /\ Refuses(lead) /\ Stops

\* activateIfNeeded: only a notice for a session of before starts the runtime ...
Needed == noticed /\ root.session # Absent
StartedQuietly ==
  /\ proc = "recovered" /\ (Needed => agent["root"] # "built") /\ proc' = "up"
  /\ UNCHANGED <<conf, disk, serving, agent, noticed, creating, teams, mishaps>>

\* ... and has it told, when the runtime resumed; without it the dispatcher does not start.
StartedResumed ==
  /\ proc = "recovered" /\ Needed /\ agent["root"] = "built"
  /\ \/ /\ proc' = "up" /\ agent' = [agent EXCEPT !["root"] = "live"] /\ noticed' = FALSE /\ Fine
        /\ UNCHANGED <<conf, disk, serving, creating, teams>>
     \/ Mishap /\ Stops
----------------------------------------
(* The Team.                                                                *)

\* Mutant: the leader's directory proves it.
AlignedByPlace(id) == TRUE
\* alignedWithLeader: dispatcher and Team are the directory's; the name is the record's.
Aligned(id) == id.name = team.leader

NewLeader(t) == [name |-> t.leader, runtime |-> t.runtime, cwd |-> t.cwd, session |-> Absent]

\* Rebuilt from its record: by the start, or by the first call that names it.
Rebuilt ==
  /\ proc \in {"built", "up"} /\ agent["lead"] = "none" /\ ~creating
  /\ Recorded(team) /\ team.status = "open" /\ lead # Legacy
  /\ lead' = IF Recorded(lead) /\ Aligned(lead) THEN lead ELSE NewLeader(team)
  /\ agent' = [agent EXCEPT !["lead"] = "built"]
  /\ UNCHANGED <<conf, root, team, proc, serving, noticed, creating, teams, mishaps>>

\* allocate: no name that an identity holds, and no name at all past one that cannot be read.
Free == IF Recorded(lead) THEN Leaders \ {lead.name} ELSE Leaders

\* createNew, to the publication: a valid record keeps the name, anything else is replaced.
Published ==
  /\ proc = "up" /\ agent["lead"] = "none" /\ ~creating /\ teams < MaxTeams
  /\ Absent \in TeamSeen /\ TeamMissed(Absent) /\ lead # Legacy
  /\ \E l \in Free, c \in Configurations : team' = TeamOf(teams + 1, l, c)
  /\ teams' = teams + 1 /\ creating' = TRUE
  /\ UNCHANGED <<conf, root, lead, proc, serving, agent, noticed>>

\* createTeamLeaderAgentForTeam: whatever is there is replaced.
LeaderCreated ==
  /\ creating /\ creating' = FALSE
  /\ lead' = NewLeader(team) /\ agent' = [agent EXCEPT !["lead"] = "built"]
  /\ UNCHANGED <<conf, root, team, proc, serving, noticed, teams, mishaps>>

\* abandonCreated: the record is closed, unless that fails as well.
Abandoned ==
  /\ creating /\ creating' = FALSE /\ Mishap
  /\ team' \in {team, [team EXCEPT !.status = "closed"]}
  /\ UNCHANGED <<conf, root, lead, proc, serving, agent, noticed, teams>>

Dissolved ==
  /\ agent["lead"] # "none" /\ team' = [team EXCEPT !.status = "closed"]
  /\ agent' = [agent EXCEPT !["lead"] = "none"]
  /\ UNCHANGED <<conf, root, lead, proc, serving, noticed, creating, teams, mishaps>>
----------------------------------------
(* Runtimes, and what happens outside.                                      *)

Publishes(a, session) ==
  IF a = "root" THEN root' = [root EXCEPT !.session = session] /\ UNCHANGED lead
                ELSE lead' = [lead EXCEPT !.session = session] /\ UNCHANGED root
Another(session) == [session EXCEPT !.nth = @ + 1]

\* Mutant: a start may fall back on a fresh session as a restart does.
ResumedOrAnother(id, owner) == IF id.session = Absent THEN Made(id, owner) ELSE Another(id.session)
\* The session of the record, or a first one.
Resumed(id, owner) == IF id.session = Absent THEN Made(id, owner) ELSE id.session

\* A submission starts the runtime.
Launched(a) ==
  /\ agent[a] = "built" /\ agent' = [agent EXCEPT ![a] = "live"]
  /\ Publishes(a, Resumed(File(a), Owner(a)))
  /\ UNCHANGED <<conf, team, proc, serving, noticed, creating, teams, mishaps>>

\* A start that fails to resume is a failed start; a restart in mid-life, which has nobody to
\* tell, starts another thread.  It first publishes the loss, which keeps the id ...
SessionLost(a) ==
  /\ agent[a] = "live" /\ File(a).runtime \in Replacing /\ Mishap
  /\ agent' = [agent EXCEPT ![a] = "lost"]
  /\ UNCHANGED <<conf, disk, proc, serving, noticed, creating, teams>>

\* ... and then the thread, over the id of the one that was lost.
Replaced(a) ==
  /\ agent[a] = "lost" /\ agent' = [agent EXCEPT ![a] = "live"]
  /\ Publishes(a, Another(File(a).session))
  /\ UNCHANGED <<conf, team, proc, serving, noticed, creating, teams, mishaps>>

\* A stop, a failed start, an exit, a loss that could not be made up for: the record keeps
\* what it has.
RuntimeEnds(a) ==
  /\ agent[a] \in {"live", "lost"} /\ agent' = [agent EXCEPT ![a] = "built"]
  /\ UNCHANGED <<conf, disk, proc, serving, noticed, creating, teams, mishaps>>

\* A shutdown, or a death at any point.
Ends == proc # "down" /\ Stops /\ Fine

Configured ==
  /\ conf' \in Configurations \ {conf} /\ Mishap
  /\ UNCHANGED <<disk, run, teams>>

Damaged ==
  /\ proc = "down" /\ Mishap
  /\ \/ root' \in {Absent, Junk} /\ UNCHANGED <<team, lead>>
     \/ team' \in {Absent, Junk} /\ UNCHANGED <<root, lead>>
     \/ lead' \in {Absent, Junk} /\ UNCHANGED <<root, team>>
  /\ UNCHANGED <<conf, run, teams>>

Next ==
  \/ Boots \/ NoWorkspace \/ RootBuilt \/ RootNotBuilt
  \/ TeamsRecovered \/ TeamNotRecovered \/ StartedQuietly \/ StartedResumed
  \/ Rebuilt \/ Published \/ LeaderCreated \/ Abandoned \/ Dissolved
  \/ \E a \in {"root", "lead"} : Launched(a) \/ SessionLost(a) \/ Replaced(a) \/ RuntimeEnds(a)
  \/ Ends \/ Configured \/ Damaged

Spec == Init /\ [][Next]_vars
----------------------------------------
Sessions(owners) == [by : Runtimes, at : Cwds, of : owners, nth : 0..MaxMishaps] \cup {Absent}

TypeOK ==
  /\ conf \in Configurations /\ serving \in Configurations
  /\ root \in {Absent, Junk, Legacy} \cup [runtime : Runtimes, cwd : Cwds, session : Sessions({"root"})]
  /\ team \in {Absent, Junk} \cup [by : 0..MaxTeams, leader : Leaders, runtime : Runtimes,
                                   cwd : Cwds, status : {"open", "closed"}]
  /\ lead \in {Absent, Junk, Legacy} \cup [name : Leaders, runtime : Runtimes, cwd : Cwds,
                                            session : Sessions(0..MaxTeams)]
  /\ agent \in [{"root", "lead"} -> {"none", "built", "live", "lost"}]
  /\ noticed \in BOOLEAN /\ creating \in BOOLEAN

Alike(s, r) == s.by = r.by /\ s.at = r.at /\ s.of = r.of

(* An agent is never given a session another one made, nor one made by        *)
(* another runtime or elsewhere; the dispatcher's is the configured one, and  *)
(* a leader is the one its Team's record asks for                             *)
(* (dispatcher-service/agent.ts dispatcherIdentityReconcile, team/leader.ts). *)
ResumesItsOwn ==
  /\ \A a \in {"root", "lead"} : agent[a] # "none" =>
       /\ Recorded(File(a))
       /\ File(a).session # Absent => Alike(File(a).session, Made(File(a), Owner(a)))
  /\ agent["root"] # "none" => root.runtime = serving.runtime /\ root.cwd = serving.cwd
  /\ agent["lead"] # "none" =>
       lead.name = team.leader /\ lead.runtime = team.runtime /\ lead.cwd = team.cwd

(* Who gave a session up: a runtime whose restart could not resume it and     *)
(* has told so, for another that it made itself in the same place and for the *)
(* same agent (codex/src/runtime.ts:374-388, runtime-state.ts:181-188).       *)
LostAndReplaced(a, new) ==
  agent[a] = "lost" /\ agent'[a] = "live" /\ new # Absent /\ Alike(new, File(a).session)

(* The program gives up a session only when the configuration moved its       *)
(* agent, its Team is no longer the one at that name, or its live runtime     *)
(* lost and replaced it: no start and no reader of the record does.  It never *)
(* writes over an identity of an older version (agent/store.ts read).         *)
ForgetsForCause ==
  [][proc # "down" =>
       /\ root = Legacy => root' = root
       /\ lead = Legacy => lead' = lead
       /\ Recorded(root) /\ root.session # Absent =>
            \/ root'.session = root.session \/ ~Compatible(root)
            \/ LostAndReplaced("root", root'.session)
       /\ Recorded(lead) /\ lead.session # Absent =>
            \/ lead'.session = lead.session \/ lead.session.of # team.by
            \/ LostAndReplaced("lead", lead'.session)]_vars
========================================
