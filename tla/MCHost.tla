------------------------------- MODULE MCHost -------------------------------
(* What a server is made of, in one run: its plugins, the configuration it   *)
(* goes by, its Commands and tools, and the submission an agent of it is     *)
(* given.  They share no state; a behaviour is one of them, the others       *)
(* resting in their initial state.                                           *)
EXTENDS CommandSurfaces, TLC

CONSTANTS
  r1, r2, r3, o1, o2, s1, absent, junk, legacy

VARIABLES
  part,
  entPhase, entLocked, entLive, entAuthority, entMcp, entGens, entStart, entProv, entOp,
  entLine, entStp, entStops, entDurable, entWrites, entClosedFact, entRep,
  entReportFailed,
  cfgDisk, cfgUp, cfgRegistry, cfgMem, cfgQueue, cfgPc, cfgView, cfgSent, cfgAnswer,
  cfgTyped, cfgRounds, cfgEdited,
  jsnSide, jsnStage, jsnHeap, jsnRoot, jsnKept, jsnSchema, jsnVerdict,
  plgPhase, plgAt, plgApi, plgTaps, plgGuards, plgTapped, plgGot, plgListens, plgError,
  plgLaunchers, plgTodo, plgSub, plgMemo, plgInstructions, plgRoots, plgGave,
  plgSkipped, plgUnreadable, plgChanges,
  rcvConf, rcvRoot, rcvTeam, rcvLead, rcvProc, rcvServing, rcvAgent, rcvNoticed,
  rcvCreating, rcvTeams, rcvMishaps

entVars ==
  <<entPhase, entLocked, entLive, entAuthority, entMcp, entGens, entStart, entProv, entOp,
  entLine, entStp, entStops, entDurable, entWrites, entClosedFact, entRep,
  entReportFailed>>
cfgVars ==
  <<cfgDisk, cfgUp, cfgRegistry, cfgMem, cfgQueue, cfgPc, cfgView, cfgSent, cfgAnswer,
  cfgTyped, cfgRounds, cfgEdited>>
jsnVars ==
  <<jsnSide, jsnStage, jsnHeap, jsnRoot, jsnKept, jsnSchema, jsnVerdict>>
plgVars ==
  <<plgPhase, plgAt, plgApi, plgTaps, plgGuards, plgTapped, plgGot, plgListens, plgError,
  plgLaunchers, plgTodo, plgSub, plgMemo, plgInstructions, plgRoots, plgGave,
  plgSkipped, plgUnreadable, plgChanges>>
rcvVars ==
  <<rcvConf, rcvRoot, rcvTeam, rcvLead, rcvProc, rcvServing, rcvAgent, rcvNoticed,
  rcvCreating, rcvTeams, rcvMishaps>>
hostVars ==
  <<part, vars, entVars, cfgVars, jsnVars, plgVars, rcvVars>>

\* The third root shares a skill with the first one, which is core's own.
Skilled == (r1 :> {"x"}) @@ (r2 :> {"y"}) @@ (r3 :> {"x", "z"})

\* Two built-in providers; a package whose factory makes either kind, and one that makes none.
Contributes == ("codex" :> "agentRuntime") @@ ("feishu" :> "channel")
PassesFor == ("both" :> {"agentRuntime", "channel"}) @@ ("broken" :> {})

E == INSTANCE AgentEntity WITH
  Ops <- {o1}, Kinds <- {"send", "activate", "push", "locked"}, MaxWrites <- 1,
  MaxStops <- 2, phase <- entPhase, locked <- entLocked, live <- entLive,
  authority <- entAuthority, mcp <- entMcp, gens <- entGens, start <- entStart,
  prov <- entProv, op <- entOp, line <- entLine, stp <- entStp, stops <- entStops,
  durable <- entDurable, writes <- entWrites, closedFact <- entClosedFact,
  rep <- entRep, reportFailed <- entReportFailed

G == INSTANCE HostConfig WITH
  Ids <- {"a", "b"}, Clients <- {o1, o2}, Builtin <- {"codex", "feishu"},
  External <- {"both", "broken"}, Contributed <- Contributes, Yields <- PassesFor,
  Secrets <- {s1}, Channel <- "both", Root <- "a", MaxRounds <- 2, disk <- cfgDisk,
  up <- cfgUp, registry <- cfgRegistry, mem <- cfgMem, queue <- cfgQueue, pc <- cfgPc,
  view <- cfgView, sent <- cfgSent, answer <- cfgAnswer, typed <- cfgTyped,
  rounds <- cfgRounds, edited <- cfgEdited

J == INSTANCE JsonBoundary WITH
  MaxDepth <- 1, MaxEntries <- 1, MaxBytes <- 3, side <- jsnSide, stage <- jsnStage,
  heap <- jsnHeap, root <- jsnRoot, kept <- jsnKept, schema <- jsnSchema,
  verdict <- jsnVerdict

P == INSTANCE PluginHost WITH
  Count <- 2, SkillsOf <- Skilled, Required <- {r1}, MaxRoots <- 2, MaxChanges <- 2,
  phase <- plgPhase, at <- plgAt, api <- plgApi, taps <- plgTaps, guards <- plgGuards,
  tapped <- plgTapped, got <- plgGot, listens <- plgListens, error <- plgError,
  launchers <- plgLaunchers, todo <- plgTodo, sub <- plgSub, memo <- plgMemo,
  instructions <- plgInstructions, roots <- plgRoots, gave <- plgGave,
  skipped <- plgSkipped, unreadable <- plgUnreadable, changes <- plgChanges

R == INSTANCE RecordRecovery WITH
  Runtimes <- {"codex"}, Replacing <- {"codex"}, Cwds <- {"v", "w"}, Leaders <- {"l1", "l2"},
  Absent <- absent, Junk <- junk, Legacy <- legacy, MaxTeams <- 2, MaxMishaps <- 2,
  conf <- rcvConf, root <- rcvRoot, team <- rcvTeam, lead <- rcvLead, proc <- rcvProc,
  serving <- rcvServing, agent <- rcvAgent, noticed <- rcvNoticed,
  creating <- rcvCreating, teams <- rcvTeams, mishaps <- rcvMishaps

ASSUME HostAssumption ==
  P!PluginAssumption /\ G!ConfigAssumption /\ J!BoundaryAssumption

HostInit ==
  /\ part \in {"surfaces", "entity", "configuration", "boundary", "plugins", "records"}
  /\ Init
  /\ R!Init
  /\ part # "records" =>
       rcvRoot = absent /\ rcvTeam = absent /\ rcvConf = CHOOSE c \in R!Configurations : TRUE
  /\ E!Init /\ G!Init /\ P!Init
  /\ part # "configuration" =>
       cfgDisk = CHOOSE d \in G!Files : TRUE
  /\ part # "entity" => entDurable
  /\ IF part = "boundary" THEN J!Init ELSE J!Rests

\* Bound: a launch is composed where the servers made no tap on an API.
Composed ==
  plgLaunchers' # <<>> =>
    plgTapped = {} /\ plgGuards = [p \in P!Plugins |-> <<>>] /\ plgApi = {}

HostNext ==
  /\ UNCHANGED part
  /\ \/ part = "surfaces" /\ Next
        /\ UNCHANGED <<entVars, cfgVars, jsnVars, plgVars, rcvVars>>
     \/ part = "entity" /\ E!Next
        /\ UNCHANGED <<vars, cfgVars, jsnVars, plgVars, rcvVars>>
     \/ part = "configuration" /\ G!Next
        /\ UNCHANGED <<vars, entVars, jsnVars, plgVars, rcvVars>>
     \/ part = "boundary" /\ J!Next
        /\ UNCHANGED <<vars, entVars, cfgVars, plgVars, rcvVars>>
     \/ part = "plugins" /\ P!Next
        /\ UNCHANGED <<vars, entVars, cfgVars, jsnVars, rcvVars>>
     \/ part = "records" /\ R!Next
        /\ UNCHANGED <<vars, entVars, cfgVars, jsnVars, plgVars>>

HostSpec == HostInit /\ [][HostNext /\ Composed]_hostVars /\ E!Fairness
----------------------------------------
(* A load that fails blames the plugin whose code failed it, plugin order    *)
(* does not matter to who is given an API, a launch takes a tap as a whole,  *)
(* with no skill twice, and skips one for what it holds, never for what      *)
(* core holds (plugin/loader.ts, host.ts, hooks.ts).                         *)
PluginsAreIndependent ==
  /\ [](/\ P!TypeOK /\ P!FailureNamesItsOwner /\ P!EveryTapGetsItsApi
        /\ P!SkillsAreUnique /\ P!TapsAreWhole)
  /\ P!SkippedForCause

(* The file, what the server goes by and what the next start accepts are one *)
(* configuration, a secret stays with its agent, and a replacement is        *)
(* refused for what it holds only (config/service.ts).                       *)
ConfigurationIsOne ==
  /\ [](G!TypeOK /\ G!OneTruth /\ G!NextStartAccepts /\ G!SecretsStayHome)
  /\ G!RefusedForGood

(* The Commands and the tools agree: a caller is told its mistakes and no    *)
(* others, an effect is answered, what was accepted can be read back, a tool *)
(* runs nothing its Command refuses, and only JSON that a schema has         *)
(* accepted crosses: refused for what it is, kept as a reader gets it back,  *)
(* decided by a schema that fails no call (command/registry.ts, validate.ts, *)
(* service requests.ts, platform/json-value.ts).                           *)
SurfacesAgree ==
  /\ TypeOK /\ RulesAreCallersMistakes /\ EffectIsAnswered /\ AcceptedIsReadable
  /\ ToolsTakeNoMore
  /\ J!TypeOK /\ J!RefusedIsReshaped /\ J!KeptIsReadBack /\ J!ProvenSchemaDecides

(* An agent resumes a session of its own or none, whatever the files hold    *)
(* when a process finds them, and what could be resumed is given up only     *)
(* when the configuration or the Team it was made for is another one, or by  *)
(* its runtime in mid-life, which told that it is lost                       *)
(* (dispatcher-service/agent.ts, team/leader.ts, agent/store.ts,             *)
(* codex/src/runtime.ts:357-390).                                            *)
AgentsResumeTheirOwn ==
  /\ [](R!TypeOK /\ R!ResumesItsOwn)
  /\ R!ForgetsForCause

(* An entity's close, its host's stop and every submission to it end         *)
(* (service/agent/service.ts).                                               *)
EntitySettles == E!EntitySettles
========================================
