-------------------------------- MODULE Edges --------------------------------
(* The edges of a host, side by side: the agent runtimes and the cards, the  *)
(* rest of the Feishu Channel, and what a host keeps on its disk.  Their     *)
(* models share no state.  The type of each part's state is checked with     *)
(* what the part is for.                                                     *)
EXTENDS Runtimes

CONSTANTS
  Chat, Topics, Settlements, ByHand, Fresh, Edits,  \* of FeishuRouting
  Rounds, Clicks,                             \* of FeishuSession
  Senders, Tokens, MaxPending,                \* of FeishuAccess
  Procs, Restarts, Reclaims,                  \* of HostProcess
  Submitters, Keys, KeyOf, SourceWindow,             \* of AdmissionLedger
  Ops, KindOfOp, MaxCrashes,                  \* of TransactionalStore
  Native, CodexLines, CodexBytes,             \* of CodexActivity
  ClaudeLines, ClaudeBytes, Limit             \* of ClaudeActivity, and of both

VARIABLES
  rouDoc, rouQueue, rouCore, rouFence, rouStage, rouTo, rouRunning, rouSession,
  rouAdmitted, rouTold, rouEdits, rouMade, rouDisturbed,
  sesLive, sesInit, sesStarter, sesCloser, sesTd, sesCards, sesWs, sesExt, sesAsk,
  sesClick, sesRound, sesAnswered, sesTimer, sesOutcome, sesDelivery,
  accPolicy, accAllowed, accPending, accUsed, accCards, accMsg, accApproved,
  srvPc, srvTries, srvLock, srvSocket, srvMarker, srvNotice, srvCli, srvExpired,
  srvAnnounced, srvStolen,
  ledCommitted, ledPending, ledTask, ledAnswer, ledReactions, ledJoined, ledTurns,
  stoDisk, stoSlot, stoLoading, stoSeen, stoQueue, stoPc, stoPrev, stoCrashes,
  cxaRollouts, cxaCursor, cxaGot, cxaSince, cxaOutcome,
  cdaLog, cdaCursor, cdaGot, cdaSince, cdaOutcome

rouVars ==
  <<rouDoc, rouQueue, rouCore, rouFence, rouStage, rouTo, rouRunning, rouSession,
  rouAdmitted, rouTold, rouEdits, rouMade, rouDisturbed>>
sesVars ==
  <<sesLive, sesInit, sesStarter, sesCloser, sesTd, sesCards, sesWs, sesExt, sesAsk,
  sesClick, sesRound, sesAnswered, sesTimer, sesOutcome, sesDelivery>>
accVars ==
  <<accPolicy, accAllowed, accPending, accUsed, accCards, accMsg, accApproved>>
srvVars ==
  <<srvPc, srvTries, srvLock, srvSocket, srvMarker, srvNotice, srvCli, srvExpired,
  srvAnnounced, srvStolen>>
ledVars ==
  <<ledCommitted, ledPending, ledTask, ledAnswer, ledReactions, ledJoined, ledTurns>>
stoVars ==
  <<stoDisk, stoSlot, stoLoading, stoSeen, stoQueue, stoPc, stoPrev, stoCrashes>>
cxaVars ==
  <<cxaRollouts, cxaCursor, cxaGot, cxaSince, cxaOutcome>>
cdaVars ==
  <<cdaLog, cdaCursor, cdaGot, cdaSince, cdaOutcome>>
edgeVars ==
  <<vars, trnVars, claVars, crdVars, rouVars, sesVars, accVars,
    srvVars, ledVars, stoVars, cxaVars, cdaVars>>

R == INSTANCE FeishuRouting WITH
  NoTeam <- Nothing, NoMessage <- Nothing, doc <- rouDoc, queue <- rouQueue, core <- rouCore,
  fence <- rouFence, stage <- rouStage, to <- rouTo, running <- rouRunning,
  session <- rouSession, admitted <- rouAdmitted, told <- rouTold, edits <- rouEdits,
  made <- rouMade, disturbed <- rouDisturbed

F == INSTANCE FeishuSession WITH
  live <- sesLive, init <- sesInit,
  starter <- sesStarter, closer <- sesCloser, td <- sesTd, cards <- sesCards,
  ws <- sesWs, ext <- sesExt, ask <- sesAsk, click <- sesClick, round <- sesRound,
  answered <- sesAnswered, timer <- sesTimer, outcome <- sesOutcome,
  delivery <- sesDelivery

A == INSTANCE FeishuAccess WITH
  NoToken <- Nothing, policy <- accPolicy, allowed <- accAllowed, pending <- accPending,
  used <- accUsed, cards <- accCards, msg <- accMsg, approved <- accApproved

H == INSTANCE HostProcess WITH
  Attempts <- Reclaims, Nobody <- Nothing, pc <- srvPc,
  tries <- srvTries, lock <- srvLock, socket <- srvSocket, marker <- srvMarker,
  notice <- srvNotice, cli <- srvCli, expired <- srvExpired, announced <- srvAnnounced,
  stolen <- srvStolen

L == INSTANCE AdmissionLedger WITH
  Callers <- Submitters, Window <- SourceWindow,
  committed <- ledCommitted, pending <- ledPending, task <- ledTask,
  answer <- ledAnswer, reactions <- ledReactions, joined <- ledJoined, turns <- ledTurns

S == INSTANCE TransactionalStore WITH
  KindOf <- KindOfOp, EagerReaders <- FALSE,
  disk <- stoDisk, slot <- stoSlot, loading <- stoLoading, seen <- stoSeen,
  queue <- stoQueue, pc <- stoPc, prev <- stoPrev, crashes <- stoCrashes

X == INSTANCE CodexActivity WITH
  MaxLines <- CodexLines, MaxBytes <- CodexBytes, None <- Nothing,
  rollouts <- cxaRollouts, cursor <- cxaCursor, got <- cxaGot, since <- cxaSince,
  outcome <- cxaOutcome

D == INSTANCE ClaudeActivity WITH
  MaxLines <- ClaudeLines, MaxBytes <- ClaudeBytes, None <- Nothing, log <- cdaLog,
  cursor <- cdaCursor, got <- cdaGot, since <- cdaSince, outcome <- cdaOutcome

ASSUME EdgesAssumption ==
  /\ L!LedgerAssumption /\ S!StoreAssumption
  /\ X!ActivityAssumption /\ D!ActivityAssumption /\ H!ProcessAssumption
  /\ R!RoutingAssumption /\ A!AccessAssumption

EdgesInit ==
  /\ Init /\ T!Init /\ C!Init /\ K!Init /\ R!Init /\ F!Init /\ A!Init
  /\ H!Init /\ L!Init /\ S!Init /\ X!Init /\ D!Init

\* A step is a step of one of them.
CodexSteps ==
  Next /\ UNCHANGED <<trnVars, claVars, crdVars, rouVars, sesVars, accVars, srvVars, ledVars, stoVars, cxaVars, cdaVars>>
TurnSteps ==
  T!Next /\ UNCHANGED <<vars, claVars, crdVars, rouVars, sesVars, accVars, srvVars, ledVars, stoVars, cxaVars, cdaVars>>
ClaudeSteps ==
  C!Next /\ UNCHANGED <<vars, trnVars, crdVars, rouVars, sesVars, accVars, srvVars, ledVars, stoVars, cxaVars, cdaVars>>
CardSteps ==
  K!Next /\ UNCHANGED <<vars, trnVars, claVars, rouVars, sesVars, accVars, srvVars, ledVars, stoVars, cxaVars, cdaVars>>
RouteSteps ==
  R!Next /\ UNCHANGED <<vars, trnVars, claVars, crdVars, sesVars, accVars, srvVars, ledVars, stoVars, cxaVars, cdaVars>>
SessionSteps ==
  F!Next /\ UNCHANGED <<vars, trnVars, claVars, crdVars, rouVars, accVars, srvVars, ledVars, stoVars, cxaVars, cdaVars>>
AccessSteps ==
  A!Next /\ UNCHANGED <<vars, trnVars, claVars, crdVars, rouVars, sesVars, srvVars, ledVars, stoVars, cxaVars, cdaVars>>
ProcessSteps ==
  H!Next /\ UNCHANGED <<vars, trnVars, claVars, crdVars, rouVars, sesVars, accVars, ledVars, stoVars, cxaVars, cdaVars>>
LedgerSteps ==
  L!Next /\ UNCHANGED <<vars, trnVars, claVars, crdVars, rouVars, sesVars, accVars, srvVars, stoVars, cxaVars, cdaVars>>
StoreSteps ==
  S!Next /\ UNCHANGED <<vars, trnVars, claVars, crdVars, rouVars, sesVars, accVars, srvVars, ledVars, cxaVars, cdaVars>>
CodexActivitySteps ==
  X!Next /\ UNCHANGED <<vars, trnVars, claVars, crdVars, rouVars, sesVars, accVars, srvVars, ledVars, stoVars, cdaVars>>
ClaudeActivitySteps ==
  D!Next /\ UNCHANGED <<vars, trnVars, claVars, crdVars, rouVars, sesVars, accVars, srvVars, ledVars, stoVars, cxaVars>>

EdgesNext ==
  \/ CodexSteps \/ TurnSteps \/ ClaudeSteps \/ CardSteps
  \/ RouteSteps \/ SessionSteps \/ AccessSteps \/ ProcessSteps
  \/ LedgerSteps \/ StoreSteps \/ CodexActivitySteps \/ ClaudeActivitySteps

EdgesSpec == EdgesInit /\ [][EdgesNext]_edgeVars
----------------------------------------
(* A conversation has one owner, who may present in it, and provisioning     *)
(* makes one Team for it (feishu-channel/src/routing, feishu-provisioning.ts). *)
RoutesHaveOneOwner ==
  R!TypeOK /\ R!OneRuleForTheChat /\ R!OneTeamPerTopic /\ R!OwnRouteMayPresent

(* A message has one recipient, a question one outcome, the repeat of a      *)
(* source is not a second turn, and who may speak is one story, however      *)
(* messages, clicks and expiry interleave (inbound/pipeline.ts,              *)
(* ask-user/registry.ts, agent/admission.ts, access/index.ts).               *)
AnsweredOnce ==
  /\ A!TypeOK /\ L!TypeOK
  /\ R!OneRecipient /\ F!SettledOnce /\ L!OneTurnPerWindow /\ A!OneStoryPerSender

(* A session that has ended does nothing more, and outlives what it serves   *)
(* (session/session.ts).                                                     *)
ClosedSessionIsQuiet ==
  /\ F!TypeOK /\ F!EndedSessionAsksNothing /\ F!ClosedSessionIsQuiet /\ F!ExtensionOutlivesItsCalls
  /\ R!EndedSessionWritesNothing

(* The process that serves is the one the admin socket reaches, unless its   *)
(* pidfile was stolen, and a restart notice is given to one boot (server.ts, *)
(* restart-intent.ts).                                                       *)
OneServerAnswers == H!TypeOK /\ H!OneServerAnswers

(* The pages of a reading go back without skipping or repeating while the    *)
(* session is written, and tell what happened in it (codex and claude-code   *)
(* src/activity/reader.ts).                                                  *)
PagesTellWhatHappened ==
  /\ X!TypeOK /\ D!TypeOK
  /\ X!PagesGoBack /\ X!PagesTellTheLog /\ X!PagesAttributeTruly
  /\ D!PagesGoBack /\ D!PagesTellTheConversation

(* A record is changed one change at a time, in order, each on what the one  *)
(* before left, and who reads it reads what is on disk                       *)
(* (dreamux-utils/src/transactional-store.ts).                               *)
SerialSpec == S!SerialSpec /\ [](S!TypeOK /\ S!ReaderSeesDisk)
========================================
