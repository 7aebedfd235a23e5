----------------------------- MODULE Dispatcher -----------------------------
(* The parts of a dispatcher, side by side: a Team, the TeamMates at one     *)
(* name, the start and the close, the tool calls of one agent, and the       *)
(* checkouts of TeamMates.  Their models share no state.                     *)
EXTENDS Team

CONSTANTS
  CollectionCalls, KindOf, MaxServices, ReopenWritesFail,  \* of TeammateCollection
  Channels, MaxWork, MaxFailures,             \* of DispatcherLifecycle
  ToolCallers, Tools, MaxGens,                \* of ToolCalls
  Names, CheckoutCalls, Shared, NoOwner, MaxOps, MaxSurprises  \* of Checkouts

VARIABLES
  colFence, colRecord, colBuilt, colPhase, colRt, colHostStop, colClosing, colEntities,
  colFlight, colReopening, colPc, colTarget, colSweep, colPass, colHeld,
  cycFence, cycWork, cycStart, cycAt, cycEntries, cycSession, cycLease, cycAgent,
  cycAdmissions, cycClose, cycFailed, cycTodo, cycFailures,
  tolRole, tolAgent, tolGen, tolCurrent, tolTokens, tolShims, tolStop, tolWork, tolTeam,
  tolStage, tolCall, tolPc, tolFenced, tolAnswer, tolHeard, tolStarted,
  chkRec, chkPath, chkRegistry, chkBranches, chkHeld, chkUp, chkCall, chkOps,
  chkMishaps, chkHand

colVars ==
  <<colFence, colRecord, colBuilt, colPhase, colRt, colHostStop, colClosing, colEntities,
  colFlight, colReopening, colPc, colTarget, colSweep, colPass, colHeld>>
cycVars ==
  <<cycFence, cycWork, cycStart, cycAt, cycEntries, cycSession, cycLease, cycAgent,
  cycAdmissions, cycClose, cycFailed, cycTodo, cycFailures>>
tolVars ==
  <<tolRole, tolAgent, tolGen, tolCurrent, tolTokens, tolShims, tolStop, tolWork, tolTeam,
  tolStage, tolCall, tolPc, tolFenced, tolAnswer, tolHeard, tolStarted>>
chkVars ==
  <<chkRec, chkPath, chkRegistry, chkBranches, chkHeld, chkUp, chkCall, chkOps,
  chkMishaps, chkHand>>
dispatcherVars == <<vars, colVars, cycVars, tolVars, chkVars>>

C == INSTANCE TeammateCollection WITH
  Calls <- CollectionCalls,
  fence <- colFence, record <- colRecord, built <- colBuilt, phase <- colPhase,
  rt <- colRt, hostStop <- colHostStop, closing <- colClosing, entities <- colEntities,
  flight <- colFlight, reopening <- colReopening, pc <- colPc, target <- colTarget,
  sweep <- colSweep, pass <- colPass, held <- colHeld

D == INSTANCE DispatcherLifecycle WITH
  CloseMayPrecedeBuild <- FALSE,
  fence <- cycFence, work <- cycWork, start <- cycStart, at <- cycAt,
  entries <- cycEntries, session <- cycSession, lease <- cycLease, agent <- cycAgent,
  admissions <- cycAdmissions, close <- cycClose, failed <- cycFailed, todo <- cycTodo,
  failures <- cycFailures

A == INSTANCE ToolCalls WITH
  Calls <- ToolCallers, role <- tolRole, agent <- tolAgent,
  gen <- tolGen, current <- tolCurrent, tokens <- tolTokens, shims <- tolShims,
  stop <- tolStop, work <- tolWork, team <- tolTeam, stage <- tolStage, call <- tolCall,
  pc <- tolPc, fenced <- tolFenced, answer <- tolAnswer, heard <- tolHeard,
  started <- tolStarted

W == INSTANCE Checkouts WITH
  Calls <- CheckoutCalls, None <- NoOwner, MaxMishaps <- MaxSurprises,
  rec <- chkRec, path <- chkPath, registry <- chkRegistry,
  branches <- chkBranches, held <- chkHeld, up <- chkUp, call <- chkCall, ops <- chkOps,
  mishaps <- chkMishaps, hand <- chkHand

ASSUME PartsAssumption ==
  C!CollectionAssumption /\ D!LifecycleAssumption /\ A!ToolsAssumption /\ W!CheckoutsAssumption

DispatcherInit == Init /\ C!Init /\ D!Init /\ A!Init /\ W!Init

\* A step is a step of one of them.
TeamSteps       == Next   /\ UNCHANGED <<colVars, cycVars, tolVars, chkVars>>
CollectionSteps == C!Next /\ UNCHANGED <<vars, cycVars, tolVars, chkVars>>
LifecycleSteps  == D!Next /\ UNCHANGED <<vars, colVars, tolVars, chkVars>>
ToolSteps       == A!Next /\ UNCHANGED <<vars, colVars, cycVars, chkVars>>
CheckoutSteps   == W!Next /\ UNCHANGED <<vars, colVars, cycVars, tolVars>>

DispatcherNext == TeamSteps \/ CollectionSteps \/ LifecycleSteps \/ ToolSteps \/ CheckoutSteps

DispatcherSpec == DispatcherInit /\ [][DispatcherNext]_dispatcherVars /\ WF_vars(Owed)
----------------------------------------
(* A Team that is closed stays so, and no tool starts anything in it        *)
(* (service/team/service.ts, service/agent/index.ts).                        *)
ClosedStaysClosed == ClosedIsFinal /\ A!ClosedTeamStartsNothing

(* A token loses its authority before the teardown of its generation begins, *)
(* and never gets it back (service/mcp/leases.ts).                           *)
RevokedToolsAreGone == A!RevokedToolsAreGone

(* One name never has two runtimes, and a close of the collection that has   *)
(* ended leaves none behind, as long as the intent of a send that reopens is *)
(* written (~ReopenWritesFail): its failure drops the only entry that holds  *)
(* the runtime (service/agent/index.ts).                                     *)
RuntimesAreSwept == C!OneRuntimePerAgent /\ C!SweptClean

(* A Team's checkout outlives everyone who works in it, no call removes work *)
(* from a checkout or takes a record over, a TeamMate runs where its record  *)
(* says, and what is recorded as deleted is gone (worktree/manager.ts,       *)
(* worktree/workspaces.ts, agent/store.ts).                                  *)
WorkIsSafe ==
  /\ CheckoutOutlivesItsTeam
  /\ [](W!TypeOK /\ W!BranchesAreExclusive /\ W!RunsInItsCheckout)
  /\ W!WorkIsNeverRemoved /\ W!RecordsAreNeverTaken /\ W!DeletedIsGone

(* After a dispatcher's close none of its sessions, runtimes, tool calls or  *)
(* Team leaders is left, but for a leader that a dissolve is closing         *)
(* (lifecycle.ts, server.ts).                                                *)
ClosedHostRunsNothing == D!ClosedHoldsNothing /\ ClosedHostRunsNoTeam /\ A!OverIsQuiet
========================================
