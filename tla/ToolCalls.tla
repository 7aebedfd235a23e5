------------------------------ MODULE ToolCalls ------------------------------
(* A tool call on its way from an agent to its owner: the MCP shim           *)
(* (packages/dreamux/src/mcp), its one request on the admin socket (admin),  *)
(* the Command port (command/port.ts), the lease registry                    *)
(* (service/mcp/leases.ts) and the owner's admission (platform/work-fence.ts, *)
(* Team.admitLeaderTools), while the runtime generation that was given the   *)
(* tools is torn down, the Team is dissolved, or the server shuts down.      *)
(*                                                                          *)
(* There is one agent: a dispatcher's, the leader of a Team, or a member.     *)
(* Its servers are taken as one, whose token is the number of the generation. *)
EXTENDS Naturals, FiniteSets

CONSTANTS
  Calls,
  Tools,       \* bound: the tools that are called, of all there are
  MaxGens      \* bound: starts of the runtime

ToolsAssumption == Tools # {} /\ MaxGens \in Nat

VARIABLES
  role,      \* the agent's: see Roles
  agent,     \* its runtime: see AgentStates
  gen,       \* generations so far; the last one is the agent's
  current,   \* the generation whose state lease holds, or 0
  tokens,    \* McpLeaseRegistry.entries
  shims,     \* generations whose MCP server came up
  stop,      \* "none", "asked", or "joined" to the start that is under way
  work,      \* whether admitted work may start the runtime
  team,      \* "open", "dissolving", "closed", "dismantled"
  stage,     \* of the server: see Stages
  call,      \* call -> [gen, tool]
  pc,        \* call -> how far the server is with it
  fenced,    \* calls inside the dispatcher's work fence
  answer,    \* call -> what the server said
  heard,     \* call -> whether its shim heard it: "waiting", "heard", "lost"
  started    \* calls whose operation has had its effect

vars == <<role, agent, gen, current, tokens, shims, stop, work, team, stage, call, pc, fenced,
          answer, heard, started>>
agentVars == <<role, agent, gen, current, tokens, shims, stop, work>>
callVars == <<call, pc, fenced, answer, heard, started>>

AgentStates == {"down", "creating", "starting", "running", "stopping", "rollback", "unproven"}
Stages == <<"serving", "refusing", "closing", "sweeping", "draining", "again", "settling",
            "unbinding", "over">>
Answers == {"none", "revoked", "unknown", "shutting_down", "closed", "done", "failed"}

Roles == {"dispatcher", "leader", "member"}

\* The catalogs: a tool is its server and its name.
TeammateTools ==
  {"spawn", "send", "close", "history", "list", "status", "last", "get_capabilities"}
WorkflowTools == {"workflow_run", "workflow_status", "workflow_stop", "workflow_list"}
CronTools == {"cron_create", "cron_list", "cron_delete", "cron_update"}
TeamTools == {"create", "send", "list", "status", "history", "dissolve"}
LeaderTeamTools == {"status", "dissolve"}
MemberTools == {"send", "list"}

On(server, names) == [server : {server}, name : names]

Offered ==
  IF role = "member" THEN On("teammate", MemberTools)
  ELSE On("teammate", TeammateTools \cup WorkflowTools) \cup On("cron", CronTools)
       \cup On("channel", STRING)
       \cup On("team", IF role = "leader" THEN LeaderTeamTools ELSE TeamTools)

\* How a call gets to its owner.  A leader asks its Team first: for the owner of the tool
\* only, or for the whole operation; the others go to their owner.
EntryOf(tool) ==
  CASE role # "leader" -> "own"
    [] role = "leader" /\ tool.server \in {"teammate", "cron"} -> "lookup"
    [] role = "leader" /\ tool = [server |-> "team", name |-> "dissolve"] -> "span"
    [] OTHER -> "open"

\* These make an agent, or may take one up again.
Makes(tool) == tool.name \in {"spawn", "create"}
MayReopen(tool) == tool = [server |-> "teammate", name |-> "send"]

Accepting == stage = "serving"
FenceOpen == stage \in {"serving", "refusing"}
OwnerClosing == ~FenceOpen \/ team # "open"

Native == agent \in {"starting", "running", "stopping", "rollback", "unproven"}

Init ==
  /\ role \in Roles
  /\ agent = "down" /\ gen = 0 /\ current = 0 /\ tokens = {}
  /\ shims = {}
  /\ stop = "none" /\ work = FALSE /\ team = "open" /\ stage = "serving"
  /\ call = [c \in Calls |-> [gen |-> 0, tool |-> CHOOSE t \in Tools : TRUE]]
  /\ pc = [c \in Calls |-> "none"] /\ fenced = {}
  /\ answer = [c \in Calls |-> "none"] /\ heard = [c \in Calls |-> "waiting"]
  /\ started = {}
----------------------------------------
(* The runtime generation.                                                   *)
WorkEnters ==
  /\ FenceOpen /\ ~work /\ gen < MaxGens
  /\ work' = TRUE
  /\ UNCHANGED <<role, agent, gen, current, tokens, shims, stop, team, stage, callVars>>

WorkEnds ==
  /\ work /\ agent \notin {"creating", "starting", "rollback"}
  /\ work' = FALSE
  /\ UNCHANGED <<role, agent, gen, current, tokens, shims, stop, team, stage, callVars>>

\* A lease, then the catalogs are frozen and the tokens minted; one that is malformed fails
\* the start before there is a runtime.
StartBegins ==
  /\ work /\ agent = "down" /\ stop = "none" /\ gen < MaxGens /\ team # "dismantled"
  /\ gen' = gen + 1
  /\ \/ agent' = "creating" /\ current' = gen' /\ tokens' = {gen'}
     \/ agent' = "down" /\ current' = 0 /\ tokens' = {} /\ work' = FALSE
  /\ agent' = "creating" => UNCHANGED work
  /\ UNCHANGED <<role, shims, stop, team, stage, callVars>>

Created ==
  /\ agent = "creating"
  /\ \/ agent' = "starting" /\ UNCHANGED <<current, tokens>>
     \/ agent' = "down" /\ current' = 0 /\ tokens' = {}
  /\ UNCHANGED <<role, gen, shims, stop, work, team, stage, callVars>>

\* A start that failed gives the tokens back before it stops what it had started.
Started ==
  /\ agent = "starting"
  /\ \/ agent' = "running" /\ UNCHANGED tokens
     \/ agent' = "rollback" /\ tokens' = {}
  /\ UNCHANGED <<role, gen, current, shims, stop, work, team, stage, callVars>>

\* stopRuntime: what is there is stopped, and what a start under way brings.
Asked ==
  IF stop # "none" THEN stop
  ELSE CASE agent = "down" -> "none"
         [] agent \in {"creating", "rollback", "stopping"} -> "joined"
         [] OTHER -> "asked"

\* An admitted close.
StopAsked ==
  /\ FenceOpen /\ stop' = Asked /\ stop' # stop
  /\ UNCHANGED <<role, agent, gen, current, tokens, shims, work, team, stage, callVars>>

\* Mutant: the tokens stay until the runtime is down.
TokensKept == UNCHANGED tokens
TokensReleased == tokens' = {}

StopBegins ==
  /\ \/ stop = "asked" /\ agent \in {"starting", "running", "unproven"}
     \/ stop = "joined" /\ agent \in {"running", "unproven"}
  /\ TokensReleased
  /\ agent' = "stopping"
  /\ UNCHANGED <<role, gen, current, shims, stop, work, team, stage, callVars>>

NativeStops ==
  /\ agent \in {"stopping", "rollback"}
  /\ agent' \in {"down", "unproven"}
  /\ current' = 0
  /\ IF agent = "stopping" THEN stop' = "none" /\ tokens' = {} ELSE UNCHANGED <<stop, tokens>>
  /\ UNCHANGED <<role, gen, shims, work, team, stage, callVars>>

NothingToStop ==
  /\ stop # "none" /\ agent = "down"
  /\ stop' = "none" /\ current' = 0 /\ tokens' = {}
  /\ UNCHANGED <<role, agent, gen, shims, work, team, stage, callVars>>

\* A shim lives beside the native runtime, and may outlive it.  It comes up when the server
\* tells it its catalog.
ShimStarts ==
  /\ Native /\ gen \notin shims
  /\ Accepting /\ gen \in tokens /\ current = gen
  /\ shims' = shims \cup {gen}
  /\ UNCHANGED <<role, agent, gen, current, tokens, stop, work, team, stage, callVars>>
----------------------------------------
(* A call.  A connection carries one; its shim gives up after ten seconds, or  *)
(* dies.                                                                     *)
Open(c) == pc[c] # "none" /\ heard[c] = "waiting"

Invoke(c) ==
  /\ pc[c] = "none" /\ stage # "over"
  /\ \E g \in shims, t \in Tools :
       /\ call' = [call EXCEPT ![c] = [gen |-> g, tool |-> t]]
       /\ IF stage = "unbinding"
          THEN pc' = [pc EXCEPT ![c] = "over"] /\ heard' = [heard EXCEPT ![c] = "lost"]
          ELSE pc' = [pc EXCEPT ![c] = "sent"] /\ UNCHANGED heard
  /\ UNCHANGED <<agentVars, team, stage, fenced, answer, started>>

Answer(c, what) ==
  /\ answer' = [answer EXCEPT ![c] = what]
  /\ pc' = [pc EXCEPT ![c] = "over"]
  /\ fenced' = fenced \ {c}

Goes(c, where) == pc' = [pc EXCEPT ![c] = where] /\ UNCHANGED answer

Authorized(c) == call[c].gen \in tokens /\ call[c].gen = current

\* One step from the line on the socket to the first admission of the tool's owner: the port,
\* the lease, the catalog, and for a leader's tool the dispatcher's fence.
Arrive(c) ==
  /\ pc[c] = "sent"
  /\ IF ~Accepting THEN Answer(c, "shutting_down")
     ELSE IF ~Authorized(c) THEN Answer(c, "revoked")
     ELSE IF call[c].tool \notin Offered THEN Answer(c, "unknown")
     ELSE IF role # "leader" THEN Goes(c, "entered") /\ UNCHANGED fenced
     ELSE IF ~FenceOpen THEN Answer(c, "shutting_down")
     ELSE Goes(c, "entered") /\ fenced' = fenced \cup {c}
  /\ UNCHANGED <<agentVars, team, stage, call, heard, started>>

\* admitLeaderTools: the Team must not be closed.  A lookup ends there, and leaves the fence;
\* the others go on inside it.
LookUp(c) ==
  /\ pc[c] = "entered" /\ role = "leader" /\ team \notin {"closed", "dismantled"}
  /\ EntryOf(call[c].tool) = "lookup"
  /\ Goes(c, "found") /\ fenced' = fenced \ {c}
  /\ UNCHANGED <<agentVars, team, stage, call, heard, started>>

Dissolve ==
  IF team = "open" THEN team' = "dissolving" ELSE UNCHANGED team

Operate(c) ==
  /\ pc[c] = "entered" /\ role = "leader" /\ team \notin {"closed", "dismantled"}
  /\ \/ /\ EntryOf(call[c].tool) = "span" /\ Dissolve
        /\ Goes(c, "running") /\ UNCHANGED fenced /\ started' = started \cup {c}
     \/ /\ EntryOf(call[c].tool) = "span"            \* the checkout holds work
        /\ Answer(c, "failed") /\ UNCHANGED <<team, started>>
     \/ /\ EntryOf(call[c].tool) = "open" /\ UNCHANGED team
        /\ IF team = "open"
           THEN Goes(c, "running") /\ UNCHANGED fenced /\ started' = started \cup {c}
           ELSE Answer(c, "closed") /\ UNCHANGED started
  /\ UNCHANGED <<agentVars, stage, call, heard>>

LeaderRefused(c) ==
  /\ pc[c] = "entered" /\ role = "leader" /\ team \in {"closed", "dismantled"}
  /\ Answer(c, "closed")
  /\ UNCHANGED <<agentVars, team, stage, call, heard, started>>

\* The owner's own admission: the Team's, if it is one's, and the dispatcher's fence.
Admit(c) ==
  /\ pc[c] = (IF role = "leader" THEN "found" ELSE "entered")
  /\ IF team # "open" THEN Answer(c, "closed") /\ UNCHANGED started
     ELSE IF ~FenceOpen THEN Answer(c, "shutting_down") /\ UNCHANGED started
     ELSE /\ fenced' = fenced \cup {c}
          /\ \/ /\ Makes(call[c].tool) \/ MayReopen(call[c].tool)
                /\ Goes(c, "making") /\ UNCHANGED started
             \/ /\ ~Makes(call[c].tool)
                /\ Goes(c, "running") /\ started' = started \cup {c}
  /\ UNCHANGED <<agentVars, team, stage, call, heard>>


\* The record is written; the agent is started unless its owner is closing.
Publish(c) ==
  /\ pc[c] = "making"
  /\ IF OwnerClosing THEN Answer(c, "shutting_down") /\ UNCHANGED started
     ELSE Goes(c, "running") /\ UNCHANGED fenced /\ started' = started \cup {c}
  /\ UNCHANGED <<agentVars, team, stage, call, heard>>

Ends(c) ==
  /\ pc[c] \in {"making", "running"}
  /\ \E what \in {"done", "failed"} :
       /\ what = "done" => pc[c] = "running"
       /\ Answer(c, what)
  /\ UNCHANGED <<agentVars, team, stage, call, heard, started>>

Hear(c) ==
  /\ Open(c) /\ pc[c] = "over"
  /\ heard' = [heard EXCEPT ![c] = "heard"]
  /\ UNCHANGED <<agentVars, team, stage, call, pc, fenced, answer, started>>

Timeout(c) ==
  /\ Open(c) /\ pc[c] # "over"
  /\ heard' = [heard EXCEPT ![c] = "lost"]
  /\ UNCHANGED <<agentVars, team, stage, call, pc, fenced, answer, started>>
----------------------------------------
\* A dissolve may also come from the dispatcher of the Team.
DissolveAsked ==
  /\ FenceOpen /\ role # "dispatcher" /\ team = "open"
  /\ team' = "dissolving"
  /\ UNCHANGED <<agentVars, stage, callVars>>

(* A dissolve: the closed record, then the children, the leader among them.  *)
ClosedWritten ==
  /\ team = "dissolving"
  /\ team' \in {"closed", "open"}
  /\ UNCHANGED <<agentVars, stage, callVars>>

Dismantle ==
  /\ team = "closed"
  /\ team' = "dismantled" /\ stop' = Asked
  /\ UNCHANGED <<role, agent, gen, current, tokens, shims, work, stage, callVars>>

(* The shutdown of the server.                                               *)
Step(from, to) == stage = from /\ stage' = to /\ UNCHANGED <<agent, gen, role, current, tokens,
                                                           shims, work, team, callVars>>

Shutdown ==
  \/ Step("serving", "refusing") /\ UNCHANGED stop
  \/ Step("refusing", "closing") /\ UNCHANGED stop
  \/ Step("closing", "sweeping") /\ stop' = Asked
  \/ Step("sweeping", "draining") /\ stop = "none" /\ UNCHANGED stop
  \/ Step("draining", "again") /\ fenced = {} /\ ~work /\ stop' = Asked
  \/ Step("again", "settling") /\ stop = "none" /\ UNCHANGED stop
  \/ Step("settling", "unbinding") /\ UNCHANGED stop
     /\ \A c \in Calls : pc[c] \in {"none", "sent", "over"}
  \/ Step("unbinding", "over") /\ UNCHANGED stop
     /\ \A c \in Calls : ~Open(c)

Next ==
  \/ WorkEnters \/ WorkEnds \/ StartBegins \/ Created \/ Started
  \/ StopAsked \/ StopBegins \/ NativeStops \/ NothingToStop \/ ShimStarts
  \/ \E c \in Calls :
       \/ Invoke(c) \/ Arrive(c) \/ LookUp(c) \/ Operate(c) \/ LeaderRefused(c)
       \/ Admit(c) \/ Publish(c) \/ Ends(c) \/ Hear(c) \/ Timeout(c)
  \/ DissolveAsked \/ ClosedWritten \/ Dismantle \/ Shutdown

Spec == Init /\ [][Next]_vars
----------------------------------------
TypeOK ==
  /\ role \in Roles /\ agent \in AgentStates
  /\ gen \in 0..MaxGens /\ current \in 0..MaxGens /\ tokens \subseteq 1..MaxGens
  /\ shims \subseteq 1..MaxGens
  /\ stop \in {"none", "asked", "joined"} /\ work \in BOOLEAN
  /\ team \in {"open", "dissolving", "closed", "dismantled"}
  /\ stage \in {Stages[k] : k \in DOMAIN Stages}
  /\ call \in [Calls -> [gen : 0..MaxGens, tool : Tools]]
  /\ pc \in [Calls -> {"none", "sent", "entered", "found", "making", "running", "over"}]
  /\ fenced \subseteq Calls /\ started \subseteq Calls
  /\ answer \in [Calls -> Answers] /\ heard \in [Calls -> {"waiting", "heard", "lost"}]

\* A token has lost its authority when the teardown of its generation begins, whoever holds it.
RevokedBeforeTeardown ==
  agent \in {"stopping", "rollback", "unproven", "down"} => tokens = {}

\* Who was refused as revoked will not get in later: "This server cannot be reached again"
\* (service/mcp/leases.ts:83).
RevokedForGood ==
  \A c \in Calls : answer[c] = "revoked" => call[c].gen \notin tokens

\* A token loses its authority before the teardown of its generation begins, and never gets
\* it back (service/mcp/leases.ts).
RevokedToolsAreGone == TypeOK /\ RevokedBeforeTeardown /\ RevokedForGood

\* A server that is down runs no call and holds no token, and no runtime but one it could not
\* stop or that a dissolve is stopping.
OverIsQuiet ==
  stage = "over" =>
    /\ tokens = {} /\ fenced = {}
    /\ agent \in {"down", "unproven"} \/ team = "dismantled"
    /\ \A c \in Calls : pc[c] \in {"none", "sent", "over"}

\* No tool starts anything in a Team whose closed record was written.
ClosedTeamStartsNothing ==
  [][\A c \in Calls : c \in started' \ started =>
       team \notin {"closed", "dismantled"}]_vars
========================================
