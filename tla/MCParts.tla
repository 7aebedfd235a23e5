------------------------------ MODULE MCParts ------------------------------
(* What must end does end: the parts of a host that promise it, on small     *)
(* instances and under the fairness each of them states, in one run.  A      *)
(* behaviour is one of the parts, the others resting in their initial state, *)
(* in which none of them owes a step.                                        *)
EXTENDS CompletionRouter, TLC

CONSTANTS
  m1, m2, m3, m4, r1, r2, t1, t2, o1, o2, c1, c2, c3, n1, n2

VARIABLES
  part,
  colFence, colRecord, colBuilt, colPhase, colRt, colHostStop, colClosing, colEntities,
  colFlight, colReopening, colPc, colTarget, colSweep, colPass, colHeld,
  cycFence, cycWork, cycStart, cycAt, cycEntries, cycSession, cycLease, cycAgent,
  cycAdmissions, cycClose, cycFailed, cycTodo, cycFailures,
  stoDisk, stoSlot, stoLoading, stoSeen, stoQueue, stoPc, stoPrev, stoCrashes,
  trnQueue, trnStep, trnAdmission, trnSettlement, trnRecords, trnCollector, trnSeen,
  trnBroken, trnStopping, trnConnected, trnResults, trnNative, trnFrames, trnTaken,
  crdSt, crdRun, crdFence, crdBegun, crdPending, crdClosing,
  rouDoc, rouQueue, rouCore, rouFence, rouStage, rouTo, rouRunning, rouSession,
  rouAdmitted, rouTold, rouEdits, rouMade, rouDisturbed,
  sesLive, sesInit, sesStarter, sesCloser, sesTd, sesCards, sesWs, sesExt, sesAsk,
  sesClick, sesRound, sesAnswered, sesTimer, sesOutcome, sesDelivery

colVars ==
  <<colFence, colRecord, colBuilt, colPhase, colRt, colHostStop, colClosing, colEntities,
  colFlight, colReopening, colPc, colTarget, colSweep, colPass, colHeld>>
cycVars ==
  <<cycFence, cycWork, cycStart, cycAt, cycEntries, cycSession, cycLease, cycAgent,
  cycAdmissions, cycClose, cycFailed, cycTodo, cycFailures>>
stoVars ==
  <<stoDisk, stoSlot, stoLoading, stoSeen, stoQueue, stoPc, stoPrev, stoCrashes>>
trnVars ==
  <<trnQueue, trnStep, trnAdmission, trnSettlement, trnRecords, trnCollector, trnSeen,
  trnBroken, trnStopping, trnConnected, trnResults, trnNative, trnFrames, trnTaken>>
crdVars ==
  <<crdSt, crdRun, crdFence, crdBegun, crdPending, crdClosing>>
rouVars ==
  <<rouDoc, rouQueue, rouCore, rouFence, rouStage, rouTo, rouRunning, rouSession,
  rouAdmitted, rouTold, rouEdits, rouMade, rouDisturbed>>
sesVars ==
  <<sesLive, sesInit, sesStarter, sesCloser, sesTd, sesCards, sesWs, sesExt, sesAsk,
  sesClick, sesRound, sesAnswered, sesTimer, sesOutcome, sesDelivery>>
partsVars ==
  <<part, vars, colVars, cycVars, stoVars, trnVars, crdVars, rouVars, sesVars>>

\* Two paths report t1 and one t2 to r1; the fourth report has no token.
Addressed == [m \in Reports |-> IF m = m4 THEN r2 ELSE r1]
Titled == [m \in Reports |-> CASE m \in {m1, m2} -> t1 [] m = m3 -> t2 [] m = m4 -> NoToken]

\* A spawn, a send and a close at one name.
Mixed == (c1 :> "spawn") @@ (c2 :> "send") @@ (c3 :> "close")

\* A change, one that changes nothing and a removal.
Changes == (c1 :> "update") @@ (c2 :> "noop") @@ (c3 :> "remove")

\* Both messages come from one conversation.
CameFrom == (n1 :> c2) @@ (n2 :> c2)

C == INSTANCE TeammateCollection WITH
  Calls <- {c1, c2, c3}, KindOf <- Mixed, MaxServices <- 3, ReopenWritesFail <- FALSE,
  fence <- colFence, record <- colRecord, built <- colBuilt, phase <- colPhase,
  rt <- colRt, hostStop <- colHostStop, closing <- colClosing, entities <- colEntities,
  flight <- colFlight, reopening <- colReopening, pc <- colPc, target <- colTarget,
  sweep <- colSweep, pass <- colPass, held <- colHeld

D == INSTANCE DispatcherLifecycle WITH
  Channels <- 1 .. 3, MaxWork <- 2, MaxFailures <- 2, CloseMayPrecedeBuild <- FALSE,
  fence <- cycFence, work <- cycWork, start <- cycStart, at <- cycAt,
  entries <- cycEntries, session <- cycSession, lease <- cycLease, agent <- cycAgent,
  admissions <- cycAdmissions, close <- cycClose, failed <- cycFailed, todo <- cycTodo,
  failures <- cycFailures

S == INSTANCE TransactionalStore WITH
  Ops <- {c1, c2, c3}, KindOf <- Changes, EagerReaders <- FALSE, MaxCrashes <- 1,
  disk <- stoDisk, slot <- stoSlot, loading <- stoLoading, seen <- stoSeen,
  queue <- stoQueue, pc <- stoPc, prev <- stoPrev, crashes <- stoCrashes

T == INSTANCE CodexTurns WITH
  Subs <- {o1, o2}, Turns <- {t1, t2}, NoTurn <- NoToken, queue <- trnQueue,
  step <- trnStep, admission <- trnAdmission, settlement <- trnSettlement,
  records <- trnRecords, collector <- trnCollector, seen <- trnSeen,
  broken <- trnBroken, stopping <- trnStopping, connected <- trnConnected,
  results <- trnResults, native <- trnNative, frames <- trnFrames, taken <- trnTaken

K == INSTANCE FeishuCards WITH
  Messages <- {n1}, TargetOf <- CameFrom, NoMessage <- NoToken, Cards <- 1, Room <- 2,
  Activities <- 2, st <- crdSt, run <- crdRun, fence <- crdFence, begun <- crdBegun,
  pending <- crdPending, closing <- crdClosing

R == INSTANCE FeishuRouting WITH
  Chat <- c1, Topics <- {c2}, Messages <- {n1, n2}, Settlements <- {n2},
  TargetOf <- CameFrom, ByHand <- {c3}, Fresh <- {t1}, NoTeam <- NoToken,
  NoMessage <- NoToken, Edits <- 1, doc <- rouDoc, queue <- rouQueue, core <- rouCore,
  fence <- rouFence, stage <- rouStage, to <- rouTo, running <- rouRunning,
  session <- rouSession, admitted <- rouAdmitted, told <- rouTold, edits <- rouEdits,
  made <- rouMade, disturbed <- rouDisturbed

F == INSTANCE FeishuSession WITH
  Rounds <- {o1}, Clicks <- {n1, n2}, live <- sesLive, init <- sesInit,
  starter <- sesStarter, closer <- sesCloser, td <- sesTd, cards <- sesCards,
  ws <- sesWs, ext <- sesExt, ask <- sesAsk, click <- sesClick, round <- sesRound,
  answered <- sesAnswered, timer <- sesTimer, outcome <- sesOutcome,
  delivery <- sesDelivery

ASSUME PartsAssumption ==
  /\ C!CollectionAssumption /\ D!LifecycleAssumption
  /\ S!StoreAssumption /\ T!TurnsAssumption

PartsInit ==
  /\ Init
  /\ C!Init /\ D!Init /\ S!Init /\ T!Init /\ K!Init /\ R!Init /\ F!Init
  /\ part \in {"router", "collection", "lifecycle", "store", "codex turns", "cards", "routing", "session"}
  /\ part # "store" => ~stoDisk.there

PartsNext ==
  /\ UNCHANGED part
  /\ \/ part = "router" /\ Next
        /\ UNCHANGED <<colVars, cycVars, stoVars, trnVars, crdVars, rouVars, sesVars>>
     \/ part = "collection" /\ C!Next
        /\ UNCHANGED <<vars, cycVars, stoVars, trnVars, crdVars, rouVars, sesVars>>
     \/ part = "lifecycle" /\ D!Next
        /\ UNCHANGED <<vars, colVars, stoVars, trnVars, crdVars, rouVars, sesVars>>
     \/ part = "store" /\ S!Next
        /\ UNCHANGED <<vars, colVars, cycVars, trnVars, crdVars, rouVars, sesVars>>
     \/ part = "codex turns" /\ T!Next
        /\ UNCHANGED <<vars, colVars, cycVars, stoVars, crdVars, rouVars, sesVars>>
     \/ part = "cards" /\ K!Next
        /\ UNCHANGED <<vars, colVars, cycVars, stoVars, trnVars, rouVars, sesVars>>
     \/ part = "routing" /\ R!Next
        /\ UNCHANGED <<vars, colVars, cycVars, stoVars, trnVars, crdVars, sesVars>>
     \/ part = "session" /\ F!Next
        /\ UNCHANGED <<vars, colVars, cycVars, stoVars, trnVars, crdVars, rouVars>>

PartsSpec ==
  /\ PartsInit /\ [][PartsNext]_partsVars
  /\ \A m \in Reports : WF_vars(part = "router" /\ Owed(m))
  /\ C!Fairness /\ D!Fairness /\ S!Fairness
  /\ T!Fairness /\ K!Fairness /\ R!Fairness /\ F!Fairness
----------------------------------------
(* What the host has begun ends: a report is read, after the ones its        *)
(* recipient was owed before it, or given up; the closes of a collection and *)
(* of a dispatcher end; and a change that was asked for is settled.          *)
HostSettles ==
  /\ ReportsEnd /\ []NewsReadInOrder
  /\ C!CloseEnds /\ D!StartAndCloseSettle
  /\ S!Settles

(* What its edges have begun ends: the stop of a runtime, a card that is to  *)
(* end, a message that was taken in, and the boot, close and questions of a  *)
(* Channel session.                                                          *)
EdgesSettle == T!StopConverges /\ K!CardsEnd /\ R!MessagesEnd /\ F!SessionEnds
========================================
