------------------------------ MODULE Runtimes ------------------------------
(* The two agent runtimes and the cards that tell what they do: the          *)
(* app-server of Codex and its restarts, the turns of a Codex session, the   *)
(* session of Claude Code, and the cards of a TeamLeader.  Their models      *)
(* share no state.                                                           *)
EXTENDS CodexRuntime

CONSTANTS
  CodexSubs, Turns,        \* of CodexTurns
  ClaudeSubs, Sessions,    \* of ClaudeSession
  Messages, TargetOf,      \* of FeishuCards, and of the Channel's other parts
  Cards, Room, Activities, \* of FeishuCards
  Nothing

VARIABLES
  trnQueue, trnStep, trnAdmission, trnSettlement, trnRecords, trnCollector, trnSeen,
  trnBroken, trnStopping, trnConnected, trnResults, trnNative, trnFrames, trnTaken,
  claStopped, claFenced, claSession, claMade, claChild, claBound, claStopReq,
  claExitErr, claKill, claRpc, claRequests, claConsumed, claTimer, claAsk, claAsked,
  claStep, claTarget, claAdmission, claSettlement, claPc, claOn, claVerdict, claCreating,
  crdSt, crdRun, crdFence, crdBegun, crdPending, crdClosing

trnVars ==
  <<trnQueue, trnStep, trnAdmission, trnSettlement, trnRecords, trnCollector, trnSeen,
  trnBroken, trnStopping, trnConnected, trnResults, trnNative, trnFrames, trnTaken>>
claVars ==
  <<claStopped, claFenced, claSession, claMade, claChild, claBound, claStopReq,
  claExitErr, claKill, claRpc, claRequests, claConsumed, claTimer, claAsk, claAsked,
  claStep, claTarget, claAdmission, claSettlement, claPc, claOn, claVerdict, claCreating>>
crdVars ==
  <<crdSt, crdRun, crdFence, crdBegun, crdPending, crdClosing>>

T == INSTANCE CodexTurns WITH
  Subs <- CodexSubs, NoTurn <- Nothing, queue <- trnQueue,
  step <- trnStep, admission <- trnAdmission, settlement <- trnSettlement,
  records <- trnRecords, collector <- trnCollector, seen <- trnSeen,
  broken <- trnBroken, stopping <- trnStopping, connected <- trnConnected,
  results <- trnResults, native <- trnNative, frames <- trnFrames, taken <- trnTaken

C == INSTANCE ClaudeSession WITH
  Subs <- ClaudeSubs, stopped <- claStopped, fenced <- claFenced,
  session <- claSession, made <- claMade, child <- claChild, bound <- claBound,
  stopReq <- claStopReq, exitErr <- claExitErr, kill <- claKill, rpc <- claRpc,
  requests <- claRequests, consumed <- claConsumed, timer <- claTimer, ask <- claAsk,
  asked <- claAsked, step <- claStep, target <- claTarget, admission <- claAdmission,
  settlement <- claSettlement, pc <- claPc, on <- claOn, verdict <- claVerdict,
  creating <- claCreating

K == INSTANCE FeishuCards WITH
  NoMessage <- Nothing, st <- crdSt, run <- crdRun, fence <- crdFence,
  begun <- crdBegun, pending <- crdPending, closing <- crdClosing

ASSUME SubmissionsAssumption == T!TurnsAssumption /\ C!SessionsAssumption /\ K!CardsAssumption

\* Each of them by itself.
RuntimesSpec == Spec /\ T!Init /\ [][T!Next]_(T!vars) /\ C!Spec /\ K!Spec
----------------------------------------
(* Whoever was told that a turn took its input hears the end of that turn,   *)
(* and a turn has one result (codex/src/turn-manager.ts).                    *)
SubmittersHearTheEnd == T!NobodyWaitsInVain /\ T!OneResultPerTurn

(* A recipient has one open card, and a card tells what happened, in order   *)
(* and to its end (feishu-channel/src/cot).                                  *)
CardsTellTheTurn == K!CardTellsInOrder /\ K!EndIsComplete /\ K!OneOpenCard

(* Every child a runtime started is accounted for, accepted work has a       *)
(* deadline, a stop leaves neither work nor a child behind, and the state of *)
(* the runtimes and of the cards has its type                                *)
(* (codex/src/runtime.ts, claude-code/src/rpc.ts, runtime.ts).               *)
RuntimesAreAccounted ==
  /\ TypeOK /\ T!TypeOK /\ C!TypeOK /\ K!TypeOK
  /\ ChildIsAccounted /\ C!NoWorkWithoutDeadline /\ C!StopLeavesNothing

(* Both runtimes are what Core takes a runtime to be, and Core hears that a  *)
(* session is lost before it is given another                                *)
(* (dreamux-types/src/agent-runtime.ts, codex/src/runtime.ts).               *)
RuntimesKeepTheContract == LossToldFirst /\ T!KeepsContract /\ C!KeepsContract
========================================
