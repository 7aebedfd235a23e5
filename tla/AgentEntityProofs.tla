-------------------------- MODULE AgentEntityProofs --------------------------
(***************************************************************************)
(* Theorems about one agent entity, for every number of submissions and    *)
(* every bound on stops and queued writes.                                 *)
(***************************************************************************)
EXTENDS AgentEntity, SequenceTheorems, TLAPS

----------------------------------------
(* Type correctness: the pieces that several actions change                *)

\* A submission moved to another control point keeps its type.
LEMMA AtType ==
  ASSUME op \in [Ops -> OpType], NEW o \in Ops, NEW pc \in OpPcs
  PROVE  At(o, pc) \in [Ops -> OpType]
  BY DEF At, OpType

\* An update appended to the identity store's queue keeps the queue's type.
LEMMA QueueType ==
  ASSUME writes \in Seq(WriteType), NEW kind, NEW who,
         [kind |-> kind, who |-> who, go |-> FALSE] \in WriteType
  PROVE  Queue(kind, who) \in Seq(WriteType)
  BY DEF Queue

\* The settled start leaves submissions, stops and the start well typed.
LEMMA FlightEndsType ==
  ASSUME TypeOK, NEW outcome \in OpPcs, FlightEnds(outcome)
  PROVE  /\ op' \in [Ops -> OpType]
         /\ stp' \in [Stoppers -> StopType]
         /\ start' \in StartType
<1>1. op' \in [Ops -> OpType]
  BY DEF FlightEnds, OpType, TypeOK
<1>2. stp' \in [Stoppers -> StopType]
  BY DEF FlightEnds, StopType, StopPcs, TypeOK
<1>3. start' \in StartType
  BY DEF FlightEnds, NoStart, StartType
<1> QED BY <1>1, <1>2, <1>3

\* Asking a runtime to stop keeps the table of runtimes well typed.
LEMMA AskStopType ==
  ASSUME TypeOK, NEW g, AskStop(g)
  PROVE  /\ mcp' = 0
         /\ prov' \in [1..gens -> ProvStates]
  BY DEF AskStop, AskedTo, TypeOK, ProvStates

\* A new generation extends the table and takes lease and tokens.
LEMMA OpenGenerationType ==
  ASSUME TypeOK, OpenGeneration
  PROVE  /\ gens' \in Nat
         /\ live' \in 0..gens' /\ authority' \in 0..gens' /\ mcp' \in 0..gens'
         /\ start' \in StartType
         /\ prov' \in [1..gens' -> ProvStates]
<1>1. /\ gens' \in Nat
      /\ live' \in 0..gens' /\ authority' \in 0..gens' /\ mcp' \in 0..gens'
  BY DEF OpenGeneration, TypeOK
<1>2. start' \in StartType
  BY DEF OpenGeneration, StartType, TypeOK
<1>3. prov' \in [1..gens' -> ProvStates]
  BY DEF OpenGeneration, TypeOK, ProvStates
<1> QED BY <1>1, <1>2, <1>3

\* The types of the variables a runtime start or stop may change.
RuntimeTypeOK ==
  /\ gens \in Nat
  /\ live \in 0..gens /\ authority \in 0..gens /\ mcp \in 0..gens
  /\ start \in StartType
  /\ prov \in [1..gens -> ProvStates]

\* Starting a runtime keeps runtime and store variables well typed.
LEMMA BeginStartType ==
  ASSUME TypeOK, BeginStart
  PROVE  RuntimeTypeOK' /\ durable' \in BOOLEAN /\ writes' \in Seq(WriteType)
<1>1. CASE durable
  <2>1. UNCHANGED <<live, authority, mcp, gens, prov, durable>>
    BY <1>1 DEF BeginStart
  <2>2. start' \in StartType
    BY <1>1 DEF BeginStart, StartType
  <2>3. writes' \in Seq(WriteType)
    <3>1. writes' = Queue("reopen", 0)
      BY <1>1 DEF BeginStart
    <3>2. [kind |-> "reopen", who |-> 0, go |-> FALSE] \in WriteType
      BY DEF WriteType
    <3> QED BY <3>1, <3>2, QueueType DEF TypeOK
  <2> QED BY <2>1, <2>2, <2>3 DEF RuntimeTypeOK, TypeOK
<1>2. CASE ~durable
  BY <1>2, OpenGenerationType DEF BeginStart, RuntimeTypeOK, TypeOK, store
<1> QED BY <1>1, <1>2

----------------------------------------
(* Type correctness: the initial state and the steps                       *)

LEMMA TypeInit == Init => TypeOK
<1> SUFFICES ASSUME Init PROVE TypeOK
  OBVIOUS
<1>1. op \in [Ops -> OpType]
  BY DEF Init, IdleOp, OpType, OpPcs, AllKinds
<1>2. stp \in [Stoppers -> StopType]
  BY DEF Init, IdleStop, StopType, StopPcs
<1>3. start \in StartType
  BY DEF Init, NoStart, StartType
<1>4. gens = 0 /\ prov \in [1..gens -> ProvStates]
  BY DEF Init, ProvStates
<1>5. /\ live = 0 /\ authority = 0 /\ mcp = 0 /\ stops = 0
      /\ phase = "active" /\ locked = FALSE /\ closedFact = FALSE /\ reportFailed = FALSE
      /\ durable \in BOOLEAN
  BY DEF Init
<1>6. line \in Seq(Ops) /\ writes \in Seq(WriteType)
  BY DEF Init
<1>7. rep \in [Ops -> {"no", "sending", "sent"}]
  BY DEF Init
<1>8. live \in 0..gens /\ authority \in 0..gens /\ mcp \in 0..gens
  BY <1>4, <1>5
<1> QED BY <1>1, <1>2, <1>3, <1>4, <1>5, <1>6, <1>7, <1>8 DEF TypeOK

\* The start of a runtime answers.
LEMMA TypeStartAnswered ==
  ASSUME TypeOK, StartAnswered
  PROVE  TypeOK'
<1>1. CASE RuntimeCreated
  <2>1. prov' \in [1..gens -> ProvStates]
    BY <1>1 DEF RuntimeCreated, TypeOK, ProvStates
  <2>2. start' \in StartType
    BY <1>1 DEF RuntimeCreated, TypeOK, StartType
  <2> QED BY <1>1, <2>1, <2>2 DEF RuntimeCreated, TypeOK, store, rest
<1>2. CASE CreateFails
  BY <1>2, FlightEndsType, "failed" \in OpPcs DEF CreateFails, TypeOK, store, rest, OpPcs
<1>3. CASE RuntimeStarts
  <2>1. prov' \in [1..gens -> ProvStates]
    BY <1>3 DEF RuntimeStarts, TypeOK, ProvStates
  <2> QED BY <1>3, <2>1, FlightEndsType DEF RuntimeStarts, TypeOK, store, rest, OpPcs, Busy
<1>4. CASE StartFails
  <2>1. start' \in StartType
    BY <1>4 DEF StartFails, TypeOK, StartType
  <2> QED BY <1>4, <2>1, AskStopType DEF StartFails, TypeOK, store, rest
<1>5. CASE RollbackStopped
  BY <1>5, FlightEndsType DEF RollbackStopped, TypeOK, store, rest, OpPcs
<1>6. CASE RollbackUnproven
  BY <1>6, FlightEndsType DEF RollbackUnproven, TypeOK, store, rest, OpPcs
<1> QED BY <1>1, <1>2, <1>3, <1>4, <1>5, <1>6 DEF StartAnswered

LEMMA StopFirstType ==
  ASSUME TypeOK, NEW s \in Stoppers, StopFirst(s)
  PROVE  /\ gens' = gens /\ start' = start
         /\ live' \in 0..gens /\ authority' \in 0..gens /\ mcp' \in 0..gens
         /\ prov' \in [1..gens -> ProvStates]
         /\ stp' \in [Stoppers -> StopType]
<1>1. stp' \in [Stoppers -> StopType]
  <2>1. \A pc \in {"stop1", "join", "drain"}, g \in {0, live} :
          [pc |-> pc, gen |-> g, failed |-> FALSE] \in StopType
    BY live \in Nat, {"stop1", "join", "drain"} \subseteq StopPcs DEF StopType, StopPcs, TypeOK
  <2>2. \E pc \in {"stop1", "join", "drain"}, g \in {0, live} :
          stp' = [stp EXCEPT ![s] = [pc |-> pc, gen |-> g, failed |-> FALSE]]
    BY DEF StopFirst
  <2> QED BY <2>1, <2>2 DEF TypeOK
<1>2. CASE live # 0 /\ AskStop(live) /\ WhileStopping /\ UNCHANGED <<live, gens, start>>
  BY <1>1, <1>2, AskStopType DEF WhileStopping, TypeOK
<1>3. CASE UNCHANGED rt
  BY <1>1, <1>3 DEF TypeOK, rt
<1>4. CASE Revoke /\ UNCHANGED <<live, gens, start, prov>>
  BY <1>1, <1>4 DEF TypeOK, Revoke
<1> QED BY <1>2, <1>3, <1>4 DEF StopFirst

LEMMA AfterStopType ==
  ASSUME TypeOK, NEW s \in Stoppers, NEW failed \in BOOLEAN, AfterStop(s, failed)
  PROVE  op' \in [Ops -> OpType] /\ stp' \in [Stoppers -> StopType]
<1>1. stp' \in [Stoppers -> StopType]
  <2>1. /\ IdleStop \in StopType
        /\ [pc |-> "drain", gen |-> 0, failed |-> failed] \in StopType
    BY DEF StopType, StopPcs, IdleStop
  <2> QED BY <2>1 DEF AfterStop, TypeOK
<1>2. op' \in [Ops -> OpType]
  <2>1. CASE s \in Ops
    BY <2>1, AtType DEF AfterStop, TypeOK, OpPcs
  <2>2. CASE s \notin Ops
    BY <2>2 DEF AfterStop, TypeOK
  <2> QED BY <2>1, <2>2
<1> QED BY <1>1, <1>2

LEMMA StopSecondType ==
  ASSUME TypeOK, NEW s \in Stoppers, NEW g, NEW failed \in BOOLEAN, g \in 0..gens,
         StopSecond(s, g, failed)
  PROVE  /\ authority' \in 0..gens /\ mcp' \in 0..gens
         /\ prov' \in [1..gens -> ProvStates]
         /\ op' \in [Ops -> OpType] /\ stp' \in [Stoppers -> StopType]
<1>1. CASE g \notin {0, stp[s].gen}
  <2>1. AskStop(g) /\ UNCHANGED <<authority, op>>
    BY <1>1 DEF StopSecond
  <2>2. stp' \in [Stoppers -> StopType]
    <3>1. [pc |-> "stop2", gen |-> g, failed |-> failed] \in StopType
      BY DEF StopType, StopPcs
    <3> QED BY <1>1, <3>1 DEF StopSecond, TypeOK
  <2> QED BY <2>1, <2>2, AskStopType DEF TypeOK
<1>2. CASE g \in {0, stp[s].gen}
  BY <1>2, AfterStopType DEF StopSecond, Revoke, TypeOK
<1> QED BY <1>1, <1>2

\* stopRuntime goes on after an answer or after a start it joined.
LEMMA TypeStops ==
  ASSUME TypeOK, NEW s \in Stoppers, StopAnswered(s) \/ StopJoined(s)
  PROVE  TypeOK'
<1> DEFINE failed == stp[s].failed \/ prov[stp[s].gen] = "stuck"
           left   == LiveAfterStop(stp[s].gen)
<1>0. failed \in BOOLEAN /\ left \in 0..gens /\ stp[s].failed \in BOOLEAN
  BY DEF LiveAfterStop, TypeOK, StopType
<1>1. CASE StopAnswered(s)
  <2>0. /\ UNCHANGED <<phase, locked, gens, start, line, stops, durable, writes,
                       closedFact, rep, reportFailed>>
        /\ live' = left
    BY <1>1 DEF StopAnswered, store, rest
  <2>1. CASE /\ stp' = [stp EXCEPT ![s].pc = "join", ![s].failed = failed]
             /\ UNCHANGED <<authority, mcp, prov, op>>
    <3>1. stp' \in [Stoppers -> StopType]
      <4>1. [[stp[s] EXCEPT !.pc = "join"] EXCEPT !.failed = failed] \in StopType
        BY <1>0 DEF TypeOK, StopType, StopPcs
      <4>2. stp' = [stp EXCEPT ![s] = [[stp[s] EXCEPT !.pc = "join"] EXCEPT !.failed = failed]]
        BY <2>1 DEF TypeOK
      <4> QED BY <4>1, <4>2 DEF TypeOK
    <3> QED BY <1>0, <2>0, <2>1, <3>1 DEF TypeOK
  <2>2. CASE StopSecond(s, left, failed)
    BY <1>0, <2>0, <2>2, StopSecondType DEF TypeOK
  <2>3. CASE Revoke /\ UNCHANGED prov /\ AfterStop(s, failed)
    <3>1. op' \in [Ops -> OpType] /\ stp' \in [Stoppers -> StopType]
      BY <1>0, <2>3, AfterStopType
    <3>2. authority' = 0 /\ mcp' = 0 /\ prov' = prov
      BY <2>3 DEF Revoke
    <3> QED BY <1>0, <2>0, <3>1, <3>2 DEF TypeOK
  <2>4. \/ stp' = [stp EXCEPT ![s].pc = "join", ![s].failed = failed]
             /\ UNCHANGED <<authority, mcp, prov, op>>
        \/ StopSecond(s, left, failed)
        \/ Revoke /\ UNCHANGED prov /\ AfterStop(s, failed)
    BY <1>1 DEF StopAnswered
  <2> QED BY <2>1, <2>2, <2>3, <2>4
<1>2. CASE StopJoined(s)
  BY <1>0, <1>2, StopSecondType DEF StopJoined, TypeOK, store, rest
<1> QED BY <1>1, <1>2

\* An admitted input submitted to the runtime, or refused.
LEMMA SubmitType ==
  ASSUME TypeOK, NEW o \in Ops, Submit(o)
  PROVE  op' \in [Ops -> OpType] /\ line' \in Seq(Ops)
<1>1. CASE live = 0 /\ op' = At(o, "failed") /\ UNCHANGED line
  BY <1>1, AtType DEF TypeOK, OpPcs
<1>2. CASE live # 0 /\ phase # "active" /\ op' = At(o, "stopped") /\ UNCHANGED line
  BY <1>2, AtType DEF TypeOK, OpPcs
<1>3. CASE /\ op' = [op EXCEPT ![o].pc = "submitting", ![o].gen = live,
                        ![o].res = IF prov[live] = "up" THEN "pending" ELSE "stopped"]
           /\ line' = Append(line, o)
  <2>1. line' \in Seq(Ops)
    BY <1>3 DEF TypeOK
  <2>2. op' \in [Ops -> OpType]
    <3> DEFINE r == [[[op[o] EXCEPT !.pc = "submitting"] EXCEPT !.gen = live]
                      EXCEPT !.res = IF prov[live] = "up" THEN "pending" ELSE "stopped"]
    <3>1. r \in OpType
      BY live \in Nat DEF TypeOK, OpType, OpPcs, Busy
    <3>2. op' = [op EXCEPT ![o] = r]
      BY <1>3 DEF TypeOK
    <3> QED BY <3>1, <3>2 DEF TypeOK
  <2> QED BY <2>1, <2>2
<1> QED BY <1>1, <1>2, <1>3 DEF Submit

\* A submission starts, joins or finds the runtime.
LEMMA EnsureStartedType ==
  ASSUME TypeOK, NEW o \in Ops, EnsureStarted(o)
  PROVE  /\ op' \in [Ops -> OpType]
         /\ RuntimeTypeOK' /\ durable' \in BOOLEAN /\ writes' \in Seq(WriteType)
<1>1. op' \in [Ops -> OpType]
  BY AtType DEF EnsureStarted, TypeOK, OpPcs, Busy
<1>2. CASE UNCHANGED <<rt, store>>
  BY <1>1, <1>2 DEF TypeOK, RuntimeTypeOK, rt, store
<1>3. CASE BeginStart
  BY <1>1, <1>3, BeginStartType
<1> QED BY <1>1, <1>2, <1>3 DEF EnsureStarted

LEMMA TypeEnters ==
  ASSUME TypeOK, NEW o \in Ops, (\E k \in Kinds : Enter(o, k)) \/ EnterLocked(o)
  PROVE  TypeOK'
<1> DEFINE me(k, pc) == [IdleOp EXCEPT !.kind = k, !.pc = pc]
<1>0. \A k \in AllKinds, pc \in OpPcs : me(k, pc) \in OpType
  BY DEF IdleOp, OpType
<1>1. ASSUME NEW k \in Kinds, Enter(o, k) PROVE TypeOK'
  <2>1. op' = [op EXCEPT ![o] = me(k, IF k = "push" THEN "prep" ELSE "entered")]
    BY <1>1 DEF Enter
  <2>2. op' \in [Ops -> OpType]
    BY <1>0, <2>1, EntityAssumption DEF TypeOK, OpPcs, Busy, EntityAssumption
  <2> QED BY <1>1, <2>2 DEF Enter, TypeOK, rt, store, rest
<1>2. CASE EnterLocked(o)
  <2> HIDE DEF me
  <2>1. \E pc \in {"stopped", "started", "waitStart"} : op' = [op EXCEPT ![o] = me("locked", pc)]
    BY <1>2 DEF EnterLocked, me, IdleOp
  <2>2. op' \in [Ops -> OpType]
    BY <1>0, <2>1 DEF TypeOK, OpPcs, Busy, AllKinds
  <2>3. BeginStart \/ UNCHANGED <<rt, store>>
    BY <1>2 DEF EnterLocked
  <2>4. RuntimeTypeOK' /\ durable' \in BOOLEAN /\ writes' \in Seq(WriteType)
    BY <2>3, BeginStartType DEF TypeOK, RuntimeTypeOK, rt, store
  <2> QED BY <1>2, <2>2, <2>4 DEF EnterLocked, TypeOK, RuntimeTypeOK, rest
<1> QED BY <1>1, <1>2

\* The reactions of a submission to settled promises.
LEMMA TypeOpContinues ==
  ASSUME TypeOK, NEW o \in Ops, OpContinues(o)
  PROVE  TypeOK'
<1>1. CASE PushPrepares(o)
  <2>1. op' \in [Ops -> OpType]
    BY <1>1, AtType DEF PushPrepares, TypeOK, OpPcs, Busy
  <2> QED BY <1>1, <2>1 DEF PushPrepares, TypeOK, rt, store, rest
<1>2. CASE PushSubmits(o)
  <2>1. op' \in [Ops -> OpType]
    BY <1>2, AtType DEF PushSubmits, TypeOK, OpPcs, Busy
  <2> QED BY <1>2, <2>1 DEF PushSubmits, TypeOK, rt, store, rest
<1>3. CASE Admit(o)
  <2>1. CASE EnsureStarted(o) /\ UNCHANGED line
    BY <1>3, <2>1, EnsureStartedType DEF Admit, TypeOK, RuntimeTypeOK, rest
  <2>2. CASE op' = At(o, "stopped") /\ UNCHANGED line /\ UNCHANGED <<rt, store>>
    <3>1. op' \in [Ops -> OpType]
      BY <2>2, AtType DEF TypeOK, OpPcs
    <3> QED BY <1>3, <2>2, <3>1 DEF Admit, TypeOK, rt, store, rest
  <2>3. CASE Submit(o) /\ UNCHANGED <<rt, store>>
    BY <1>3, <2>3, SubmitType DEF Admit, TypeOK, rt, store, rest
  <2> QED BY <1>3, <2>1, <2>2, <2>3 DEF Admit
<1>4. CASE ContinueStarted(o)
  <2>1. CASE Submit(o) /\ UNCHANGED store
    BY <1>4, <2>1, SubmitType DEF ContinueStarted, TypeOK, rt, store, rest
  <2>2. CASE op' = At(o, "intent") /\ writes' = Queue("intent", o) /\ UNCHANGED <<durable, line>>
    <3>1. op' \in [Ops -> OpType]
      BY <2>2, AtType DEF TypeOK, OpPcs, Busy
    <3>2. [kind |-> "intent", who |-> o, go |-> FALSE] \in WriteType
      BY DEF WriteType
    <3>3. writes' \in Seq(WriteType)
      BY <2>2, <3>2, QueueType DEF TypeOK
    <3> QED BY <1>4, <2>2, <3>1, <3>3 DEF ContinueStarted, TypeOK, rt, rest
  <2>3. CASE /\ \/ op' = At(o, "done") \/ op' = At(o, "failed")
                \/ op' = [op EXCEPT ![o].pc = "entered", ![o].kind = "relocked"]
             /\ UNCHANGED <<line, store>>
    <3>1. op' \in [Ops -> OpType]
      <4>1. CASE op' = At(o, "done") \/ op' = At(o, "failed")
        BY <4>1, AtType DEF TypeOK, OpPcs
      <4>2. CASE op' = [op EXCEPT ![o].pc = "entered", ![o].kind = "relocked"]
        <5> DEFINE r == [[op[o] EXCEPT !.pc = "entered"] EXCEPT !.kind = "relocked"]
        <5>1. r \in OpType
          BY DEF TypeOK, OpType, OpPcs, Busy
        <5>2. op' = [op EXCEPT ![o] = r]
          BY <4>2 DEF TypeOK
        <5> QED BY <5>1, <5>2 DEF TypeOK
      <4> QED BY <2>3, <4>1, <4>2
    <3> QED BY <1>4, <2>3, <3>1 DEF ContinueStarted, TypeOK, rt, store, rest
  <2> QED BY <1>4, <2>1, <2>2, <2>3 DEF ContinueStarted
<1>5. CASE LoseStarted(o)
  <2>1. op' \in [Ops -> OpType]
    BY <1>5, AtType DEF LoseStarted, TypeOK, OpPcs, Busy
  <2>2. CASE Revoke /\ UNCHANGED <<live, gens, start, prov, stp>>
    BY <1>5, <2>1, <2>2 DEF LoseStarted, TypeOK, Revoke, store, rest
  <2>3. CASE StopFirst(o)
    BY <1>5, <2>1, <2>3, StopFirstType DEF LoseStarted, TypeOK, Stoppers, store, rest
  <2> QED BY <1>5, <2>2, <2>3 DEF LoseStarted
<1>6. CASE React(o)
  <2>1. op' \in [Ops -> OpType]
    BY <1>6, AtType DEF React, TypeOK, OpPcs
  <2>2. rep' \in [Ops -> {"no", "sending", "sent"}]
    BY <1>6 DEF React, TypeOK
  <2> QED BY <1>6, <2>1, <2>2 DEF React, TypeOK, rt, store
<1> QED BY <1>1, <1>2, <1>3, <1>4, <1>5, <1>6 DEF OpContinues

\* The disk answers; a queued update begins.
LEMMA TypeStore ==
  ASSUME TypeOK, StoreAnswers \/ WriteBegins
  PROVE  TypeOK'
<1>0. ASSUME writes # <<>>
      PROVE  Tail(writes) \in Seq(WriteType) /\ Head(writes) \in WriteType
  BY <1>0 DEF TypeOK
<1>s. SaidLast \/ UNCHANGED prov => prov' \in [1..gens -> ProvStates]
  BY DEF SaidLast, TypeOK, ProvStates
<1>1. CASE WriteBegins
  <2>1. [writes EXCEPT ![1].go = TRUE] \in Seq(WriteType)
    <3>1. [Head(writes) EXCEPT !.go = TRUE] \in WriteType
      BY <1>0, <1>1 DEF WriteBegins, WriteType
    <3>2. [writes EXCEPT ![1].go = TRUE] = [writes EXCEPT ![1] = [Head(writes) EXCEPT !.go = TRUE]]
      BY <1>1 DEF WriteBegins, TypeOK
    <3>3. 1 \in 1..Len(writes)
      BY <1>1 DEF WriteBegins, TypeOK
    <3> QED BY <3>1, <3>2, <3>3, ExceptSeq DEF TypeOK
  <2> QED BY <1>0, <1>1, <1>s, <2>1 DEF WriteBegins, TypeOK, rest
<1>2. CASE StatusWritten
  BY <1>0, <1>2, <1>s DEF StatusWritten, Writing, TypeOK, rest
<1>3. CASE IntentWritten
  <2>1. Head(writes).who \in Ops
    BY <1>0, <1>3 DEF IntentWritten, Writing, WriteType, Words
  <2>2. op' \in [Ops -> OpType] /\ line' \in Seq(Ops)
    BY <1>3, <2>1, SubmitType, AtType DEF IntentWritten, TypeOK, OpPcs
  <2> QED BY <1>0, <1>3, <2>2 DEF IntentWritten, Writing, TypeOK, rt, rest
<1>4. CASE ReopenWritten
  <2>1. CASE OpenGeneration /\ durable' = FALSE /\ UNCHANGED <<op, stp>>
    BY <1>0, <1>4, <2>1, OpenGenerationType DEF ReopenWritten, Writing, TypeOK, rest
  <2>2. CASE FlightEnds("failed") /\ UNCHANGED <<durable, live, authority, mcp, gens, prov>>
    <3>1. "failed" \in OpPcs
      BY DEF OpPcs
    <3> QED BY <1>0, <1>4, <2>2, <3>1, FlightEndsType DEF ReopenWritten, Writing, TypeOK, rest
  <2> QED BY <1>4, <2>1, <2>2 DEF ReopenWritten
<1>5. CASE CloseWritten
  <2>1. stp' \in [Stoppers -> StopType]
    BY <1>5 DEF CloseWritten, TypeOK, IdleStop, StopType, StopPcs
  <2> QED BY <1>0, <1>5, <2>1 DEF CloseWritten, Writing, TypeOK, FactAtClose, rt
<1> QED BY <1>1, <1>2, <1>3, <1>4, <1>5 DEF StoreAnswers

\* Lock, host stop, close and the convergence both run.
LEMMA TypeLifecycle ==
  ASSUME TypeOK,
         \/ Lock \/ Unlock \/ StopForHost \/ Close \/ HostConverges \/ CleanedUp
         \/ \E s \in {"host", "close"} : Converges(s)
  PROVE  TypeOK'
<1>0. "host" \in Stoppers /\ "close" \in Stoppers
  BY DEF Stoppers
<1>r. \A pc \in StopPcs : [IdleStop EXCEPT !.pc = pc] \in StopType
  BY DEF IdleStop, StopType, StopPcs
<1>i. IdleStop \in StopType
  BY DEF IdleStop, StopType, StopPcs
<1>1. CASE Lock
  BY <1>1 DEF Lock, TypeOK, rt, store, rest
<1>2. CASE Unlock
  BY <1>2 DEF Unlock, TypeOK, rt, store
<1>3. CASE StopForHost
  <2>1. stp' \in [Stoppers -> StopType]
    BY <1>r, <1>3 DEF StopForHost, TypeOK, StopPcs
  <2> QED BY <1>3, <2>1 DEF StopForHost, TypeOK, rt, store, rest
<1>4. CASE Close
  <2>1. CASE phase' = "closed" /\ closedFact' = FactAtClose /\ UNCHANGED <<rt, stp>>
    BY <1>4, <2>1 DEF Close, TypeOK, FactAtClose, rt, store
  <2>2. CASE phase' = "closing" /\ StopFirst("close") /\ UNCHANGED closedFact
    BY <1>0, <1>4, <2>2, StopFirstType DEF Close, TypeOK, store
  <2> QED BY <1>4, <2>1, <2>2 DEF Close
<1>5. CASE HostConverges
  BY <1>0, <1>5, StopFirstType DEF HostConverges, TypeOK, store, rest
<1>6. CASE CleanedUp
  <2>1. stp' \in [Stoppers -> StopType]
    <3>1. \A pc \in StopPcs : [stp["close"] EXCEPT !.pc = pc] \in StopType
      BY <1>0 DEF TypeOK, StopType, StopPcs
    <3>2. \/ stp' = [stp EXCEPT !["close"] = [stp["close"] EXCEPT !.pc = "write"]]
          \/ stp' = [stp EXCEPT !["close"] = IdleStop]
      BY <1>6 DEF CleanedUp
    <3> QED BY <1>i, <3>1, <3>2 DEF TypeOK, StopPcs
  <2>2. writes' \in Seq(WriteType)
    <3>1. [kind |-> "close", who |-> 0, go |-> FALSE] \in WriteType
      BY DEF WriteType
    <3> QED BY <1>6, <3>1, QueueType DEF CleanedUp, TypeOK
  <2> QED BY <1>6, <2>1, <2>2 DEF CleanedUp, TypeOK, rt, rest
<1>7. ASSUME NEW s \in {"host", "close"}, Converges(s) PROVE TypeOK'
  <2>0. s \in Stoppers
    BY DEF Stoppers
  <2>1. CASE AdmissionsDrained(s)
    <3>1. [stp[s] EXCEPT !.pc = "mutations"] \in StopType
      BY <2>0 DEF TypeOK, StopType, StopPcs
    <3> QED BY <2>0, <2>1, <3>1 DEF AdmissionsDrained, TypeOK, rt, store, rest
  <2>2. CASE MutationsDrained(s)
    <3> DEFINE r == [[stp[s] EXCEPT !.pc = "reports"]
                     EXCEPT !.failed = stp[s].failed \/ Unsettled # {}]
    <3>1. r \in StopType
      BY <2>0 DEF TypeOK, StopType, StopPcs
    <3>2. stp' = [stp EXCEPT ![s] = r]
      BY <2>0, <2>2 DEF MutationsDrained, TypeOK
    <3>3. stp' \in [Stoppers -> StopType]
      BY <3>1, <3>2 DEF TypeOK
    <3> QED BY <2>2, <3>3 DEF MutationsDrained, TypeOK, rt, store, rest
  <2>3. CASE Converged(s)
    <3>1. stp' \in [Stoppers -> StopType]
      BY <1>r, <1>i, <2>3 DEF Converged, TypeOK, StopPcs
    <3> QED BY <2>3, <3>1 DEF Converged, TypeOK, rt, store
  <2> QED BY <1>7, <2>1, <2>2, <2>3 DEF Converges
<1> QED BY <1>1, <1>2, <1>3, <1>4, <1>5, <1>6, <1>7

\* The native runtime and the recipients answer.
LEMMA TypeAnswers ==
  ASSUME TypeOK,
         \/ Attach
         \/ \E o \in Ops : \/ PushBodyBuilt(o) \/ ReportEnds(o)
                           \/ RuntimeAdmits(o) \/ RuntimeSettles(o)
         \/ \E g \in 1..gens : RuntimeDown(g) \/ Publish(g)
  PROVE  TypeOK'
<1>1. CASE Attach
  <2>1. Head(line) \in Ops /\ Tail(line) \in Seq(Ops)
    BY <1>1 DEF Attach, TypeOK
  <2>3. op' \in [Ops -> OpType]
    <3>1. \A pc \in {"attached", "stopped", "failed"} : At(Head(line), pc) \in [Ops -> OpType]
      BY <2>1, AtType DEF TypeOK, OpPcs
    <3> QED BY <1>1, <3>1 DEF Attach
  <2> QED BY <1>1, <2>1, <2>3 DEF Attach, TypeOK, rt, store, rest
<1>2. ASSUME NEW o \in Ops, PushBodyBuilt(o) PROVE TypeOK'
  <2>1. op' \in [Ops -> OpType]
    BY <1>2, AtType DEF PushBodyBuilt, TypeOK, OpPcs
  <2> QED BY <1>2, <2>1 DEF PushBodyBuilt, TypeOK, rt, store, rest
<1>3. ASSUME NEW o \in Ops, ReportEnds(o) PROVE TypeOK'
  <2>1. rep' \in [Ops -> {"no", "sending", "sent"}]
    BY <1>3 DEF ReportEnds, TypeOK
  <2> QED BY <1>3, <2>1 DEF ReportEnds, TypeOK, rt, store
<1>4. ASSUME NEW o \in Ops, RuntimeAdmits(o) PROVE TypeOK'
  <2>1. PICK r \in {"submitted", "stopped", "failed"} :
          op' = [op EXCEPT ![o].res = r, ![o].sett = IF r = "submitted" THEN "open" ELSE "none"]
    BY <1>4 DEF RuntimeAdmits
  <2> DEFINE q == [[op[o] EXCEPT !.res = r]
                   EXCEPT !.sett = IF r = "submitted" THEN "open" ELSE "none"]
  <2>2. q \in OpType
    BY <2>1 DEF TypeOK, OpType
  <2>3. op' = [op EXCEPT ![o] = q]
    BY <2>1 DEF TypeOK
  <2>4. op' \in [Ops -> OpType]
    BY <2>2, <2>3 DEF TypeOK
  <2> QED BY <1>4, <2>4 DEF RuntimeAdmits, TypeOK, rt, store, rest
<1>5. ASSUME NEW o \in Ops, RuntimeSettles(o) PROVE TypeOK'
  <2> DEFINE q == [op[o] EXCEPT !.sett = "completed"]
  <2>2. q \in OpType
    BY <1>5 DEF TypeOK, OpType
  <2>3. op' = [op EXCEPT ![o] = q]
    BY <1>5 DEF RuntimeSettles, TypeOK
  <2>1. op' \in [Ops -> OpType]
    BY <2>2, <2>3 DEF TypeOK
  <2> QED BY <1>5, <2>1 DEF RuntimeSettles, TypeOK, rt, store, rest
<1>6. ASSUME NEW g \in 1..gens, LastWord(g) \/ RuntimeStops(g) PROVE TypeOK'
  <2>1. prov' \in [1..gens -> ProvStates]
    BY <1>6 DEF LastWord, RuntimeStops, TornDown, TypeOK, ProvStates
  <2>2. op' \in [Ops -> OpType]
    <3> DEFINE q(o) == IF op[o].gen = g /\ op[o].sett = "open"
                         THEN [op[o] EXCEPT !.sett = "stopped"] ELSE op[o]
    <3>1. ASSUME NEW o \in Ops PROVE q(o) \in OpType
      <4>1. op[o] \in OpType
        BY DEF TypeOK
      <4> QED BY <4>1 DEF OpType
    <3>2. op' = [o \in Ops |-> q(o)]
      BY <1>6 DEF LastWord, RuntimeStops, TornDown
    <3> HIDE DEF q
    <3> QED BY <3>1, <3>2
  <2>3. writes' \in Seq(WriteType)
    <3>1. [kind |-> "last", who |-> g, go |-> FALSE] \in WriteType
      BY g \in Nat DEF WriteType, Words, TypeOK
    <3> QED BY <1>6, <3>1, QueueType DEF LastWord, RuntimeStops, TypeOK
  <2> QED BY <1>6, <2>1, <2>2, <2>3 DEF LastWord, RuntimeStops, TornDown, TypeOK, rest
<1>7. ASSUME NEW g \in 1..gens, RuntimeStopFails(g) PROVE TypeOK'
  <2>1. prov' \in [1..gens -> ProvStates]
    BY <1>7 DEF RuntimeStopFails, TypeOK, ProvStates
  <2> QED BY <1>7, <2>1 DEF RuntimeStopFails, TypeOK, store, rest
<1>8. ASSUME NEW g \in 1..gens, Publish(g) PROVE TypeOK'
  <2>1. [kind |-> "status", who |-> g, go |-> FALSE] \in WriteType
    BY g \in Nat DEF WriteType, Words, TypeOK
  <2> QED BY <1>8, <2>1, QueueType DEF Publish, TypeOK, rt, rest
<1> QED BY <1>1, <1>2, <1>3, <1>4, <1>5, <1>6, <1>7, <1>8 DEF RuntimeDown

LEMMA TypeNext == TypeOK /\ [Next]_vars => TypeOK'
<1> SUFFICES ASSUME TypeOK, [Next]_vars PROVE TypeOK'
  OBVIOUS
<1>1. CASE UNCHANGED vars
  BY <1>1 DEF TypeOK, vars, rt, store, rest
<1>2. CASE Next
  BY <1>2, TypeStartAnswered, TypeStops, TypeEnters, TypeOpContinues, TypeStore,
     TypeLifecycle, TypeAnswers DEF Next
<1> QED BY <1>1, <1>2

\* Every variable of the entity keeps its type, for every set of submissions.
THEOREM TypeCorrect == Spec => []TypeOK
  BY TypeInit, TypeNext, PTL DEF Spec

----------------------------------------
(* Ownership of native runtimes                                            *)

\* Where a start stands says which runtime exists: before createRuntime there is
\* none at all, after it the one the start made is in the table.
StartInv ==
  /\ start.pc \in {"reopen", "create"} => live = 0
  /\ start.pc = "create" => start.gen \in 1..gens /\ prov[start.gen] = "none"
  /\ start.pc \in {"launch", "rollback"} => start.gen \in 1..gens /\ prov[start.gen] # "none"
  /\ live # 0 => prov[live] # "none"

Stops == {"stopping", "again"}
Said  == {"ending", "down"}

\* A queued word is of a generation there was, a last one of a runtime that ends with it, and
\* only the first update of the queue is being written.
QueueInv ==
  /\ \A i \in 1..Len(writes) : writes[i].kind \in Words =>
       writes[i].who \in 1..gens /\ (writes[i].kind = "last" => prov[writes[i].who] \in Said)
  /\ \A i \in 2..Len(writes) : ~writes[i].go

\* RuntimeIsHeld and McpGoneBeforeTeardown, strengthened to be inductive.
OwnershipInv == TypeOK /\ StartInv /\ RuntimeIsHeld /\ McpGoneBeforeTeardown /\ QueueInv

\* What becomes of a runtime that is asked to stop.
LEMMA AskMeans ==
  ASSUME TypeOK, NEW h, AskStop(h), NEW g \in 1..gens
  PROVE  prov'[g] = IF g # h THEN prov[g]
                    ELSE IF prov[g] \in {"new", "up"} THEN "stopping"
                    ELSE IF prov[g] = "stuck" THEN "again" ELSE prov[g]
  BY DEF AskStop, AskedTo, TypeOK

\* What of the ownership invariant does not speak about types.
Ownership == StartInv /\ RuntimeIsHeld /\ McpGoneBeforeTeardown

\* Asking the held runtime to stop, tokens first, keeps the ownership.
LEMMA AskStopOwnership ==
  ASSUME OwnershipInv, NEW g \in 1..gens, AskStop(g), g = live \/ prov[g] = "down",
         UNCHANGED <<live, gens>>,
         start' = start \/ (start.pc = "launch" /\ start' = [start EXCEPT !.pc = "rollback"])
  PROVE  Ownership'
<1> USE DEF OwnershipInv
<1>1. mcp' = 0 /\ prov' \in [1..gens -> ProvStates]
  BY AskStopType
<1>2. \A h \in 1..gens : prov'[h] = prov[h] \/ (h = g /\ prov[g] \notin {"none", "down"} /\ prov'[h] \in Stops)
  BY AskMeans DEF Stops
<1>3. StartInv'
  <2>1. CASE start.pc = "create" /\ start' = start
    <3>1. prov[g] = "down"
      BY <2>1 DEF StartInv, TypeOK
    <3> QED BY <1>2, <2>1, <3>1 DEF StartInv, Stops
  <2>2. CASE start.pc # "create" /\ start' = start
    BY <1>2, <2>2 DEF StartInv, Stops, TypeOK
  <2>3. CASE start.pc = "launch" /\ start' = [start EXCEPT !.pc = "rollback"]
    <3>1. start'.pc = "rollback" /\ start'.gen = start.gen
      BY <2>3 DEF TypeOK, StartType
    <3> QED BY <1>2, <2>3, <3>1 DEF StartInv, Stops, TypeOK
  <2> QED BY <2>1, <2>2, <2>3
<1>4. RuntimeIsHeld'
  BY <1>2 DEF RuntimeIsHeld, TypeOK
<1>5. McpGoneBeforeTeardown'
  BY <1>1 DEF McpGoneBeforeTeardown
<1> QED BY <1>3, <1>4, <1>5 DEF Ownership

\* A new generation opened while nothing is held keeps the ownership.
LEMMA OpenOwnership ==
  ASSUME OwnershipInv, OpenGeneration, live = 0
  PROVE  Ownership'
<1> USE DEF OwnershipInv
<1>1. /\ gens' = gens + 1 /\ mcp' = gens + 1 /\ live' = live
      /\ start' = [pc |-> "create", gen |-> gens + 1]
  BY DEF OpenGeneration
<1>2. \A h \in 1..gens' : prov'[h] = IF h = gens + 1 THEN "none" ELSE prov[h]
  BY DEF OpenGeneration, TypeOK
<1>3. gens + 1 \in 1..gens' /\ \A h \in 1..gens' : h # gens + 1 => h \in 1..gens
  BY <1>1 DEF TypeOK
<1>4. StartInv'
  BY <1>1, <1>2, <1>3 DEF StartInv
<1>5. RuntimeIsHeld'
  BY <1>1, <1>2, <1>3 DEF RuntimeIsHeld
<1>6. McpGoneBeforeTeardown'
  BY <1>1, <1>2, <1>3 DEF McpGoneBeforeTeardown
<1> QED BY <1>4, <1>5, <1>6 DEF Ownership

\* Dropping tokens, or a handle whose runtime is down, keeps the ownership.
LEMMA ReleaseOwnership ==
  ASSUME OwnershipInv,
         UNCHANGED <<prov, gens>>,
         mcp' = mcp \/ mcp' = 0,
         live' = live \/ (live \in 1..gens /\ prov[live] = "down" /\ live' = 0),
         start' = start \/ start' = NoStart
  PROVE  Ownership'
<1>1. StartInv'
  BY DEF OwnershipInv, StartInv, NoStart, TypeOK
<1>2. RuntimeIsHeld'
  BY DEF OwnershipInv, RuntimeIsHeld
<1>3. McpGoneBeforeTeardown'
  BY DEF OwnershipInv, McpGoneBeforeTeardown
<1> QED BY <1>1, <1>2, <1>3 DEF Ownership

LEMMA BeginStartOwnership ==
  ASSUME OwnershipInv, BeginStart, live = 0
  PROVE  Ownership'
<1>1. CASE durable
  <2>1. /\ start' = [pc |-> "reopen", gen |-> 0]
        /\ UNCHANGED <<live, mcp, gens, prov>>
    BY <1>1 DEF BeginStart
  <2> QED BY <2>1 DEF OwnershipInv, Ownership, StartInv, RuntimeIsHeld, McpGoneBeforeTeardown
<1>2. CASE ~durable
  BY <1>2, OpenOwnership DEF BeginStart
<1> QED BY <1>1, <1>2

LEMMA StopFirstOwnership ==
  ASSUME OwnershipInv, NEW s \in Stoppers, StopFirst(s)
  PROVE  Ownership'
<1>1. CASE live # 0 /\ AskStop(live) /\ UNCHANGED <<live, gens, start>>
  <2>1. live \in 1..gens
    BY <1>1 DEF OwnershipInv, TypeOK
  <2> QED BY <1>1, <2>1, AskStopOwnership
<1>2. CASE UNCHANGED rt
  BY <1>2, ReleaseOwnership DEF rt
<1>3. CASE Revoke /\ UNCHANGED <<live, gens, start, prov>>
  BY <1>3, ReleaseOwnership DEF Revoke
<1> QED BY <1>1, <1>2, <1>3 DEF StopFirst

\* The second attempt, made while live is still as it was or has just been dropped.
LEMMA StopSecondOwnership ==
  ASSUME OwnershipInv, NEW s \in Stoppers, NEW g, NEW failed,
         StopSecond(s, g, failed), UNCHANGED <<gens, start>>,
         g = live', live' = live \/ (live \in 1..gens /\ prov[live] = "down" /\ live' = 0)
  PROVE  Ownership'
<1>1. CASE g \notin {0, stp[s].gen}
  <2>1. AskStop(g) /\ g = live /\ live' = live /\ g # 0
    BY <1>1 DEF StopSecond
  <2>2. g \in 1..gens
    BY <2>1 DEF OwnershipInv, TypeOK
  <2> QED BY <2>1, <2>2, AskStopOwnership
<1>2. CASE g \in {0, stp[s].gen}
  <2>1. Revoke /\ UNCHANGED prov
    BY <1>2 DEF StopSecond
  <2> QED BY <2>1, ReleaseOwnership DEF Revoke
<1> QED BY <1>1, <1>2

LEMMA StopsOwnership ==
  ASSUME OwnershipInv, NEW s \in Stoppers, StopAnswered(s) \/ StopJoined(s)
  PROVE  Ownership'
<1> DEFINE failed == stp[s].failed \/ prov[stp[s].gen] = "stuck"
           left   == LiveAfterStop(stp[s].gen)
<1>1. CASE StopAnswered(s)
  <2>1. UNCHANGED <<gens, start>> /\ live' = left
    BY <1>1 DEF StopAnswered
  <2>2. left = live \/ (live \in 1..gens /\ prov[live] = "down" /\ left = 0)
    BY DEF LiveAfterStop, OwnershipInv, TypeOK
  <2>3. CASE UNCHANGED <<authority, mcp, prov, op>>
    BY <2>1, <2>2, <2>3, ReleaseOwnership
  <2>4. CASE StopSecond(s, left, failed)
    BY <2>1, <2>2, <2>4, StopSecondOwnership
  <2>5. CASE Revoke /\ UNCHANGED prov
    BY <2>1, <2>2, <2>5, ReleaseOwnership DEF Revoke
  <2> QED BY <1>1, <2>3, <2>4, <2>5 DEF StopAnswered
<1>2. CASE StopJoined(s)
  BY <1>2, StopSecondOwnership DEF StopJoined
<1> QED BY <1>1, <1>2

LEMMA StartAnsweredOwnership ==
  ASSUME OwnershipInv, StartAnswered
  PROVE  Ownership'
<1> USE DEF OwnershipInv
<1>1. CASE RuntimeCreated
  <2>1. /\ start.pc = "create" /\ start.gen \in 1..gens /\ live = 0
        /\ live' = start.gen /\ UNCHANGED <<mcp, gens>>
        /\ start'.pc = "launch" /\ start'.gen = start.gen
    BY <1>1 DEF RuntimeCreated, StartInv, TypeOK, StartType
  <2>2. \A h \in 1..gens : prov'[h] = IF h = start.gen THEN "new" ELSE prov[h]
    BY <1>1 DEF RuntimeCreated, TypeOK
  <2>3. RuntimeIsHeld'
    BY <2>1, <2>2 DEF RuntimeIsHeld
  <2> QED BY <2>1, <2>2, <2>3 DEF Ownership, StartInv, McpGoneBeforeTeardown
<1>2. CASE CreateFails
  BY <1>2, ReleaseOwnership DEF CreateFails, FlightEnds
<1>3. CASE RuntimeStarts
  <2>1. start' = NoStart /\ UNCHANGED <<live, mcp, gens>>
    BY <1>3 DEF RuntimeStarts, FlightEnds
  <2>2. \A h \in 1..gens : prov'[h] = prov[h] \/ (prov[h] = "new" /\ prov'[h] = "up")
    BY <1>3 DEF RuntimeStarts, TypeOK
  <2> QED BY <2>1, <2>2 DEF Ownership, StartInv, RuntimeIsHeld, McpGoneBeforeTeardown, TypeOK, NoStart
<1>4. CASE StartFails
  <2>1. /\ start.gen \in 1..gens /\ prov[start.gen] # "none"
        /\ prov[start.gen] \in ProvStates
    BY <1>4 DEF StartFails, StartInv, TypeOK
  <2>2. start.gen = live \/ prov[start.gen] = "down"
    BY <2>1 DEF RuntimeIsHeld, ProvStates
  <2> QED BY <1>4, <2>1, <2>2, AskStopOwnership DEF StartFails
<1>5. CASE RollbackStopped
  <2>1. live' = live \/ (live \in 1..gens /\ prov[live] = "down" /\ live' = 0)
    BY <1>5 DEF RollbackStopped, StartInv, TypeOK
  <2> QED BY <1>5, <2>1, ReleaseOwnership DEF RollbackStopped, FlightEnds
<1>6. CASE RollbackUnproven
  BY <1>6, ReleaseOwnership DEF RollbackUnproven, FlightEnds
<1> QED BY <1>1, <1>2, <1>3, <1>4, <1>5, <1>6 DEF StartAnswered

\* Submissions start runtimes and lose races; they never touch one they do not own.
LEMMA SubmissionOwnership ==
  ASSUME OwnershipInv, NEW o \in Ops, OpContinues(o) \/ EnterLocked(o)
  PROVE  Ownership'
<1>1. CASE UNCHANGED rt
  BY <1>1, ReleaseOwnership DEF rt
<1>2. CASE BeginStart /\ live = 0
  BY <1>2, BeginStartOwnership
<1>3. CASE StopFirst(o)
  BY <1>3, StopFirstOwnership DEF Stoppers
<1>4. CASE Revoke /\ UNCHANGED <<live, gens, start, prov>>
  BY <1>4, ReleaseOwnership DEF Revoke
<1>5. \/ UNCHANGED rt
      \/ BeginStart /\ live = 0
      \/ StopFirst(o)
      \/ Revoke /\ UNCHANGED <<live, gens, start, prov>>
  <2>1. CASE EnterLocked(o)
    BY <2>1 DEF EnterLocked, rt
  <2>2. CASE PushPrepares(o) \/ PushSubmits(o) \/ ContinueStarted(o) \/ React(o)
    BY <2>2 DEF PushPrepares, PushSubmits, ContinueStarted, React
  <2>3. CASE Admit(o)
    BY <2>3 DEF Admit, EnsureStarted, rt
  <2>4. CASE LoseStarted(o)
    BY <2>4 DEF LoseStarted
  <2> QED BY <2>1, <2>2, <2>3, <2>4 DEF OpContinues
<1> QED BY <1>1, <1>2, <1>3, <1>4, <1>5

\* The runtime comes down when it was asked to, and is held until it has.
LEMMA DownOwnership ==
  ASSUME OwnershipInv, NEW g \in 1..gens, RuntimeDown(g)
  PROVE  Ownership'
<1>1. UNCHANGED <<live, mcp, gens, start>> /\ prov[g] \in Stops
  BY DEF RuntimeDown, LastWord, RuntimeStops, TornDown, RuntimeStopFails, Stops
<1>2. \A h \in 1..gens : prov'[h] = prov[h] \/ (h = g /\ prov'[h] \in {"ending", "down", "stuck"})
  BY DEF RuntimeDown, LastWord, RuntimeStops, TornDown, RuntimeStopFails, OwnershipInv, TypeOK
<1>3. StartInv'
  BY <1>1, <1>2 DEF OwnershipInv, StartInv, Stops, TypeOK
<1>4. RuntimeIsHeld' /\ McpGoneBeforeTeardown'
  BY <1>1, <1>2 DEF OwnershipInv, RuntimeIsHeld, McpGoneBeforeTeardown, Stops, ProvStates, TypeOK
<1> QED BY <1>3, <1>4 DEF Ownership

\* The words of a runtime are written or refused: with its last one it is down.
Saying ==
  /\ WriteBegins \/ StatusWritten
  /\ UNCHANGED <<live, authority, mcp, gens, start, stp, phase>>
  /\ prov' = prov \/ \E h : prov' = [prov EXCEPT ![h] = "down"]

LEMMA SayingMeans == WriteBegins \/ StatusWritten => Saying
  BY DEF WriteBegins, StatusWritten, SaidLast, Saying

LEMMA SaidOwnership ==
  ASSUME OwnershipInv, WriteBegins \/ StatusWritten
  PROVE  Ownership'
<1>1. UNCHANGED <<live, mcp, gens, start>>
  BY SayingMeans DEF Saying
<1>2. Head(writes) = writes[1] /\ 1 \in 1..Len(writes)
  <2>1. writes # <<>> /\ writes \in Seq(WriteType)
    BY DEF WriteBegins, StatusWritten, Writing, OwnershipInv, TypeOK
  <2> QED BY <2>1
<1>3. \A h \in 1..gens : prov'[h] = prov[h] \/ (prov[h] \in Said /\ prov'[h] = "down")
  <2>1. CASE UNCHANGED prov
    BY <2>1
  <2>2. CASE SaidLast
    BY <1>2, <2>2 DEF SaidLast, OwnershipInv, QueueInv, Words, TypeOK
  <2> QED BY <2>1, <2>2 DEF WriteBegins, StatusWritten
<1>4. StartInv'
  BY <1>1, <1>3 DEF OwnershipInv, StartInv, Said, TypeOK
<1>5. RuntimeIsHeld' /\ McpGoneBeforeTeardown'
  BY <1>1, <1>3 DEF OwnershipInv, RuntimeIsHeld, McpGoneBeforeTeardown, Said, ProvStates
<1> QED BY <1>4, <1>5 DEF Ownership

LEMMA OwnershipInit == Init => OwnershipInv
<1> SUFFICES ASSUME Init PROVE OwnershipInv
  OBVIOUS
<1>1. TypeOK
  BY TypeInit
<1>2. gens = 0 /\ start.pc = "none" /\ writes = <<>>
  BY DEF Init, NoStart
<1> QED BY <1>1, <1>2 DEF OwnershipInv, StartInv, RuntimeIsHeld, McpGoneBeforeTeardown, QueueInv, Init

----------------------------------------
(* The lock                                                                *)

\* Submission o is counted in ordinaryMutations.
Counted(o) == op[o].pc \in Busy /\ op[o].kind \notin {"locked", "relocked"}

\* A submission that only moves is counted afterwards only if it still is busy.
LEMMA MovedCounted ==
  ASSUME TypeOK, NEW p \in Ops, NEW pc, op' = At(p, pc), NEW o \in Ops, Counted(o)'
  PROVE  /\ o # p => Counted(o)
         /\ o = p => pc \in Busy /\ op[p].kind \notin {"locked", "relocked"}
  BY DEF At, Counted, TypeOK, OpType

\* So a submission that moves out of a busy control point, or to an idle one, is fine.
LEMMA MoveCounted ==
  ASSUME TypeOK, NEW p \in Ops, NEW pc, op' = At(p, pc), NEW o \in Ops, Counted(o)',
         pc \notin Busy \/ op[p].pc \in Busy
  PROVE  Counted(o)
  BY MovedCounted DEF Counted

LEMMA SubmitCounted ==
  ASSUME TypeOK, NEW p \in Ops, Submit(p), op[p].pc \in Busy, NEW o \in Ops, Counted(o)'
  PROVE  Counted(o)
<1>1. CASE op' = At(p, "failed") \/ op' = At(p, "stopped")
  BY <1>1, MoveCounted
<1>2. CASE op' = [op EXCEPT ![p].pc = "submitting", ![p].gen = live,
                        ![p].res = IF prov[live] = "up" THEN "pending" ELSE "stopped"]
  BY <1>2 DEF Counted, TypeOK, OpType
<1> QED BY <1>1, <1>2 DEF Submit

\* While the entity is fenced no step counts a submission in.
LEMMA FencedCounted ==
  ASSUME TypeOK, ~Writable, Next, NEW o \in Ops, Counted(o)'
  PROVE  Counted(o)
<1>0. CASE UNCHANGED op
  BY <1>0 DEF Counted
<1>1. ASSUME NEW p \in Ops, \/ PushPrepares(p) \/ PushBodyBuilt(p) \/ React(p)
      PROVE  Counted(o)
  <2>1. CASE PushPrepares(p) \/ PushBodyBuilt(p)
    <3>1. op[p].pc \in Busy /\ \E pc \in {"stopped", "body", "prepared"} : op' = At(p, pc)
      BY <2>1 DEF PushPrepares, PushBodyBuilt, Busy
    <3> QED BY <3>1, MoveCounted
  <2>2. CASE React(p)
    BY <2>2, MoveCounted DEF React, Busy
  <2> QED BY <1>1, <2>1, <2>2
<1>2. ASSUME NEW p \in Ops, PushSubmits(p) PROVE Counted(o)
  <2>1. op' = At(p, "stopped")
    BY <1>2 DEF PushSubmits
  <2> QED BY <2>1, MoveCounted DEF Busy
<1>3. ASSUME NEW p \in Ops, Admit(p) PROVE Counted(o)
  <2>1. op[p].pc \in Busy
    BY <1>3 DEF Admit, Busy
  <2>2. CASE EnsureStarted(p)
    BY <2>1, <2>2, MoveCounted DEF EnsureStarted
  <2>3. CASE op' = At(p, "stopped")
    BY <2>1, <2>3, MoveCounted
  <2>4. CASE Submit(p)
    BY <2>1, <2>4, SubmitCounted
  <2> QED BY <1>3, <2>2, <2>3, <2>4 DEF Admit
<1>4. ASSUME NEW p \in Ops, ContinueStarted(p) PROVE Counted(o)
  <2>1. op[p].pc \in Busy
    BY <1>4 DEF ContinueStarted, Busy
  <2>2. CASE Submit(p)
    BY <2>1, <2>2, SubmitCounted
  <2>3. CASE \E pc \in {"done", "failed", "intent"} : op' = At(p, pc)
    BY <2>1, <2>3, MoveCounted
  <2>4. CASE op' = [op EXCEPT ![p].pc = "entered", ![p].kind = "relocked"]
    BY <2>4 DEF Counted, TypeOK, OpType
  <2> QED BY <1>4, <2>2, <2>3, <2>4 DEF ContinueStarted
<1>5. ASSUME NEW p \in Ops, LoseStarted(p) PROVE Counted(o)
  BY <1>5, MoveCounted DEF LoseStarted, Busy
<1>6. ASSUME NEW p \in Ops, NEW k \in Kinds, Enter(p, k) PROVE Counted(o)
  BY <1>6 DEF Enter
<1>7. ASSUME NEW p \in Ops, EnterLocked(p) PROVE Counted(o)
  <2>1. \E pc \in OpPcs : op' = [op EXCEPT ![p] = [[IdleOp EXCEPT !.kind = "locked"] EXCEPT !.pc = pc]]
    BY <1>7 DEF EnterLocked, OpPcs, Busy
  <2>2. op'[p].kind = "locked" /\ (o # p => op'[o] = op[o])
    BY <2>1 DEF TypeOK, IdleOp
  <2> QED BY <2>2 DEF Counted
<1>8. ASSUME NEW p \in Ops, RuntimeAdmits(p) \/ RuntimeSettles(p) PROVE Counted(o)
  <2>1. CASE RuntimeAdmits(p)
    <3>1. op'[o].pc = op[o].pc /\ op'[o].kind = op[o].kind
      BY <2>1 DEF RuntimeAdmits, TypeOK, OpType
    <3> QED BY <3>1 DEF Counted
  <2>2. CASE RuntimeSettles(p)
    <3>1. op'[o].pc = op[o].pc /\ op'[o].kind = op[o].kind
      BY <2>2 DEF RuntimeSettles, TypeOK, OpType
    <3> QED BY <3>1 DEF Counted
  <2> QED BY <1>8, <2>1, <2>2
<1>9. ASSUME NEW g \in 1..gens, LastWord(g) \/ RuntimeStops(g) PROVE Counted(o)
  <2>1. op'[o] = op[o] \/ op'[o] = [op[o] EXCEPT !.sett = "stopped"]
    BY <1>9 DEF LastWord, RuntimeStops, TornDown
  <2>2. op'[o].pc = op[o].pc /\ op'[o].kind = op[o].kind
    BY <2>1 DEF TypeOK, OpType
  <2> QED BY <2>2 DEF Counted
<1>10. CASE Attach
  <2>1. Head(line) \in Ops
    BY <1>10 DEF Attach, TypeOK
  <2> QED BY <1>10, <2>1, MoveCounted DEF Attach, Busy
<1>11. CASE IntentWritten
  <2>1. op[Head(writes).who].pc = "intent" /\ writes # <<>> /\ Head(writes).kind = "intent"
    BY <1>11 DEF IntentWritten, Writing
  <2>2. Head(writes) \in WriteType
    BY <2>1 DEF TypeOK
  <2>3. Head(writes).who \in Ops
    BY <2>1, <2>2 DEF WriteType, Words
  <2> QED BY <1>11, <2>1, <2>3, SubmitCounted, MoveCounted DEF IntentWritten, Busy
<1>12. ASSUME NEW outcome \in {"failed", "started"}, FlightEnds(outcome) PROVE Counted(o)
  BY <1>12 DEF FlightEnds, Counted, Busy, TypeOK, OpType
<1>13. CASE StartAnswered
  BY <1>0, <1>12, <1>13 DEF StartAnswered, RuntimeCreated, CreateFails, RuntimeStarts,
     StartFails, RollbackStopped, RollbackUnproven
<1>14. CASE StatusWritten \/ ReopenWritten \/ CloseWritten
  BY <1>0, <1>12, <1>14 DEF StatusWritten, ReopenWritten, CloseWritten
<1>15. ASSUME NEW s \in Stoppers, StopAnswered(s) \/ StopJoined(s) PROVE Counted(o)
  <2>1. \/ UNCHANGED op
        \/ s \in Ops /\ (op' = At(s, "failed") \/ op' = At(s, "stopped"))
    BY <1>15 DEF StopAnswered, StopJoined, StopSecond, AfterStop
  <2> QED BY <1>0, <2>1, MoveCounted DEF Busy
<1>16. CASE WriteBegins \/ HostConverges \/ CleanedUp \/ Lock \/ Unlock \/ StopForHost \/ Close
  BY <1>0, <1>16 DEF WriteBegins, HostConverges, CleanedUp, Lock, Unlock, StopForHost, Close
<1>17. ASSUME NEW p \in Ops, ReportEnds(p) PROVE Counted(o)
  BY <1>0, <1>17 DEF ReportEnds
<1>18. ASSUME NEW s \in {"host", "close"}, Converges(s) PROVE Counted(o)
  BY <1>0, <1>18 DEF Converges, AdmissionsDrained, MutationsDrained, Converged
<1>19. ASSUME NEW g \in 1..gens, RuntimeStopFails(g) \/ Publish(g) PROVE Counted(o)
  BY <1>0, <1>19 DEF RuntimeStopFails, Publish
<1> QED BY <1>1, <1>2, <1>3, <1>4, <1>5, <1>6, <1>7, <1>8, <1>9, <1>10, <1>11, <1>13, <1>14,
           <1>15, <1>16, <1>17, <1>18, <1>19
        DEF Next, OpContinues, StoreAnswers, RuntimeDown

\* Only taking the lock makes the entity locked.
LEMMA NextLocks ==
  ASSUME Next, ~locked, locked'
  PROVE  Lock
<1>1. UNCHANGED locked => FALSE
  OBVIOUS
<1>2. Unlock => FALSE
  BY DEF Unlock
<1>3. StartAnswered => UNCHANGED locked
  BY DEF StartAnswered, RuntimeCreated, CreateFails, RuntimeStarts, StartFails,
     RollbackStopped, RollbackUnproven
<1>4. StoreAnswers => UNCHANGED locked
  BY DEF StoreAnswers, StatusWritten, IntentWritten, ReopenWritten, CloseWritten
<1>5. \A o \in Ops : OpContinues(o) => UNCHANGED locked
  BY DEF OpContinues, PushPrepares, PushSubmits, Admit, ContinueStarted, LoseStarted, React
<1>6. \A o \in Ops : PushBodyBuilt(o) \/ ReportEnds(o) \/ RuntimeAdmits(o) \/ RuntimeSettles(o)
                    \/ EnterLocked(o) \/ (\E k \in Kinds : Enter(o, k)) => UNCHANGED locked
  BY DEF PushBodyBuilt, ReportEnds, RuntimeAdmits, RuntimeSettles, EnterLocked, Enter
<1>7. \A s \in Stoppers : StopAnswered(s) \/ StopJoined(s) => UNCHANGED locked
  BY DEF StopAnswered, StopJoined
<1>8. \A s \in {"host", "close"} : Converges(s) => UNCHANGED locked
  BY DEF Converges, AdmissionsDrained, MutationsDrained, Converged
<1>9. \A g \in 1..gens : RuntimeDown(g) \/ Publish(g) => UNCHANGED locked
  BY DEF RuntimeDown, LastWord, RuntimeStops, TornDown, RuntimeStopFails, Publish
<1>10. Attach \/ WriteBegins \/ HostConverges \/ CleanedUp \/ StopForHost \/ Close
         => UNCHANGED locked
  BY DEF Attach, WriteBegins, HostConverges, CleanedUp, StopForHost, Close
<1> QED BY <1>1, <1>2, <1>3, <1>4, <1>5, <1>6, <1>7, <1>8, <1>9, <1>10 DEF Next

LEMMA LockStep == TypeOK /\ LockExcludesMutation /\ [Next]_vars => LockExcludesMutation'
<1> SUFFICES ASSUME TypeOK, LockExcludesMutation, [Next]_vars, locked', NEW o \in Ops, Counted(o)'
             PROVE  FALSE
  BY DEF LockExcludesMutation, Mutating, Counted
<1>1. CASE UNCHANGED vars
  BY <1>1 DEF vars, LockExcludesMutation, Mutating, Counted
<1>2. CASE Next /\ locked
  BY <1>2, FencedCounted DEF LockExcludesMutation, Mutating, Counted, Writable
<1>3. CASE Next /\ ~locked
  <2>1. Lock
    BY <1>3, NextLocks
  <2> QED BY <2>1 DEF Lock, Mutating, Counted
<1> QED BY <1>1, <1>2, <1>3

\* While a holder has the lock no ordinary submission, activation or push-back is
\* under way: the lock is taken only between them and fences new ones.
THEOREM LockAlwaysExcludes == Spec => []LockExcludesMutation
<1>1. Init => LockExcludesMutation
  BY DEF Init, LockExcludesMutation
<1> QED BY <1>1, TypeCorrect, LockStep, PTL DEF Spec

----------------------------------------
(* How far the turn of a submission is                                     *)

\* A submission with a result of its admission, and one on its way to the runtime.
Past  == {"submitting", "attached", "done", "stopped", "failed"}
Early == {"prep", "body", "prepared", "entered", "waitStart", "started", "intent", "losing"}

\* What a submission knows of its turn agrees with where it stands.
TurnOf(o) ==
  /\ op[o].gen \in 0..gens
  /\ op[o].res # "none" => op[o].pc \in Past /\ op[o].gen # 0
  /\ op[o].pc \in {"submitting", "attached"} => op[o].res # "none"
  /\ op[o].sett # "none" => op[o].res = "submitted"
  /\ op[o].sett = "open" => op[o].pc \in {"submitting", "attached"}
  /\ rep[o] # "no" => op[o].pc = "done" /\ op[o].res # "none"

\* The line holds submissions that wait for the runtime's answer, each once.
LineInv ==
  /\ \A i \in 1..Len(line) : op[line[i]].pc = "submitting"
  /\ \A i, j \in 1..Len(line) : line[i] = line[j] => i = j

\* A submission that stops a runtime does nothing else.
LoseInv == \A o \in Ops : stp[o].pc # "idle" => op[o].pc = "losing"

TurnInv == LineInv /\ LoseInv /\ \A o \in Ops : TurnOf(o)

\* The ways a step changes submissions: one moves on before its runtime has it, ...
Moves(p, pc) ==
  /\ op' = At(p, pc)
  /\ op[p].pc \in Early /\ pc \notin {"idle", "submitting", "attached"}
  /\ UNCHANGED <<line, rep>>

\* ... enters, ...
Enters(p) ==
  /\ op[p].pc = "idle"
  /\ \E k \in AllKinds, pc \in Early \cup {"stopped"} :
       op' = [op EXCEPT ![p] = [[IdleOp EXCEPT !.kind = k] EXCEPT !.pc = pc]]
  /\ UNCHANGED <<line, rep>>

\* ... or goes on as its holder's.
Relocks(p) ==
  /\ op[p].pc = "started"
  /\ op' = [op EXCEPT ![p].pc = "entered", ![p].kind = "relocked"]
  /\ UNCHANGED <<line, rep>>

\* A runtime that was asked to stop comes down.
Dies(g) == prov[g] \in Stops /\ \E next \in Said : TornDown(g, next)

Submits(p) == op[p].pc \in Early /\ Submit(p) /\ UNCHANGED rep

OpStep ==
  \/ UNCHANGED <<op, line, rep>>
  \/ \E p \in Ops : Enters(p) \/ Relocks(p) \/ Submits(p) \/ \E pc \in OpPcs : Moves(p, pc)
  \/ \E outcome \in {"failed", "started"} : FlightEnds(outcome) /\ UNCHANGED <<line, rep>>
  \/ Attach
  \/ \E p \in Ops : React(p) \/ ReportEnds(p) \/ RuntimeAdmits(p) \/ RuntimeSettles(p)
  \/ \E g \in 1..gens : Dies(g)

\* Every step changes submissions in one of these ways.
LEMMA NextOps ==
  ASSUME TypeOK, LoseInv, Next
  PROVE  OpStep
<1>1. ASSUME NEW p \in Ops, OpContinues(p) PROVE OpStep
  <2>1. CASE PushPrepares(p)
    <3>1. \E pc \in {"stopped", "body"} : Moves(p, pc)
      BY <2>1 DEF PushPrepares, Moves, Early, rest
    <3> QED BY <3>1 DEF OpStep, OpPcs, Busy
  <2>2. CASE PushSubmits(p)
    <3>1. \E pc \in {"stopped", "entered"} : Moves(p, pc)
      BY <2>2 DEF PushSubmits, Moves, Early, rest
    <3> QED BY <3>1 DEF OpStep, OpPcs, Busy
  <2>3. CASE Admit(p)
    <3>1. op[p].pc \in Early /\ UNCHANGED rep
      BY <2>3 DEF Admit, Early, rest
    <3>2. CASE EnsureStarted(p) /\ UNCHANGED line
      <4>1. \E pc \in {"stopped", "waitStart", "started"} : Moves(p, pc)
        BY <3>1, <3>2 DEF EnsureStarted, Moves
      <4> QED BY <4>1 DEF OpStep, OpPcs, Busy
    <3>3. CASE op' = At(p, "stopped") /\ UNCHANGED line
      <4>1. Moves(p, "stopped")
        BY <3>1, <3>3 DEF Moves
      <4> QED BY <4>1 DEF OpStep, OpPcs
    <3>4. CASE Submit(p)
      BY <3>1, <3>4 DEF OpStep, Submits
    <3> QED BY <2>3, <3>2, <3>3, <3>4 DEF Admit
  <2>4. CASE ContinueStarted(p)
    <3>1. op[p].pc \in Early /\ UNCHANGED rep
      BY <2>4 DEF ContinueStarted, Early, rest
    <3>2. CASE UNCHANGED line /\ \E pc \in {"done", "failed", "intent"} : op' = At(p, pc)
      <4>1. \E pc \in {"done", "failed", "intent"} : Moves(p, pc)
        BY <3>1, <3>2 DEF Moves
      <4> QED BY <4>1 DEF OpStep, OpPcs, Busy
    <3>3. CASE Submit(p)
      BY <3>1, <3>3 DEF OpStep, Submits
    <3>4. CASE UNCHANGED line /\ op' = [op EXCEPT ![p].pc = "entered", ![p].kind = "relocked"]
      BY <2>4, <3>1, <3>4 DEF OpStep, Relocks, ContinueStarted
    <3> QED BY <2>4, <3>2, <3>3, <3>4 DEF ContinueStarted
  <2>5. CASE LoseStarted(p)
    <3>1. \E pc \in {"stopped", "losing"} : Moves(p, pc)
      BY <2>5 DEF LoseStarted, Moves, Early, rest
    <3> QED BY <3>1 DEF OpStep, OpPcs, Busy
  <2>6. CASE React(p)
    BY <2>6 DEF OpStep
  <2> QED BY <1>1, <2>1, <2>2, <2>3, <2>4, <2>5, <2>6 DEF OpContinues
<1>2. ASSUME NEW p \in Ops, (\E k \in Kinds : Enter(p, k)) \/ EnterLocked(p) PROVE OpStep
  <2>1. CASE \E k \in Kinds : Enter(p, k)
    <3>1. PICK k \in Kinds : Enter(p, k)
      BY <2>1
    <3>2. k \in AllKinds
      BY EntityAssumption DEF EntityAssumption
    <3>3. op' = [op EXCEPT ![p] = [[IdleOp EXCEPT !.kind = k]
                                     EXCEPT !.pc = IF k = "push" THEN "prep" ELSE "entered"]]
      BY <3>1 DEF Enter, IdleOp
    <3>4. Enters(p)
      BY <3>1, <3>2, <3>3 DEF Enter, Enters, Early, rest
    <3> QED BY <3>4 DEF OpStep
  <2>2. CASE EnterLocked(p)
    <3>1. \E pc \in {"stopped", "started", "waitStart"} :
            op' = [op EXCEPT ![p] = [[IdleOp EXCEPT !.kind = "locked"] EXCEPT !.pc = pc]]
      BY <2>2 DEF EnterLocked
    <3>2. Enters(p)
      BY <2>2, <3>1 DEF EnterLocked, Enters, Early, AllKinds, rest
    <3> QED BY <3>2 DEF OpStep
  <2> QED BY <1>2, <2>1, <2>2
<1>3. ASSUME NEW p \in Ops, PushBodyBuilt(p) PROVE OpStep
  <2>1. Moves(p, "prepared")
    BY <1>3 DEF PushBodyBuilt, Moves, Early, rest
  <2> QED BY <2>1 DEF OpStep, OpPcs
<1>4. ASSUME NEW s \in Stoppers, StopAnswered(s) \/ StopJoined(s) PROVE OpStep
  <2>1. UNCHANGED <<line, rep>> /\ stp[s].pc # "idle"
    BY <1>4 DEF StopAnswered, StopJoined, rest
  <2>2. \/ UNCHANGED op
        \/ s \in Ops /\ \E pc \in {"failed", "stopped"} : op' = At(s, pc)
    BY <1>4 DEF StopAnswered, StopJoined, StopSecond, AfterStop
  <2>3. CASE s \in Ops /\ \E pc \in {"failed", "stopped"} : op' = At(s, pc)
    <3>1. \E pc \in {"failed", "stopped"} : Moves(s, pc)
      BY <2>1, <2>3 DEF Moves, LoseInv, Early
    <3> QED BY <2>3, <3>1 DEF OpStep, OpPcs
  <2> QED BY <2>1, <2>2, <2>3 DEF OpStep
<1>5. CASE StartAnswered
  BY <1>5 DEF OpStep, StartAnswered, RuntimeCreated, CreateFails, RuntimeStarts, StartFails,
     RollbackStopped, RollbackUnproven, rest
<1>6. CASE StoreAnswers
  <2>1. CASE IntentWritten
    <3>1. Head(writes).who \in Ops /\ op[Head(writes).who].pc \in Early /\ UNCHANGED rep
      <4>1. Head(writes) \in WriteType /\ Head(writes).kind = "intent"
        BY <2>1 DEF IntentWritten, Writing, TypeOK
      <4> QED BY <2>1, <4>1 DEF IntentWritten, WriteType, Words, Early, rest
    <3>2. CASE Submit(Head(writes).who)
      BY <3>1, <3>2 DEF OpStep, Submits
    <3>3. CASE op' = At(Head(writes).who, "failed") /\ UNCHANGED line
      <4>1. Moves(Head(writes).who, "failed")
        BY <3>1, <3>3 DEF Moves
      <4> QED BY <3>1, <4>1 DEF OpStep, OpPcs
    <3> QED BY <2>1, <3>2, <3>3 DEF IntentWritten
  <2>2. CASE StatusWritten \/ ReopenWritten \/ CloseWritten
    BY <2>2 DEF OpStep, StatusWritten, ReopenWritten, CloseWritten, rest
  <2> QED BY <1>6, <2>1, <2>2 DEF StoreAnswers
<1>7. CASE Attach \/ WriteBegins \/ HostConverges \/ CleanedUp \/ Lock \/ Unlock \/ StopForHost \/ Close
  BY <1>7 DEF OpStep, WriteBegins, HostConverges, CleanedUp, Lock, Unlock, StopForHost, Close, rest
<1>8. ASSUME NEW s \in {"host", "close"}, Converges(s) PROVE OpStep
  BY <1>8 DEF OpStep, Converges, AdmissionsDrained, MutationsDrained, Converged, rest
<1>9. ASSUME NEW p \in Ops, ReportEnds(p) \/ RuntimeAdmits(p) \/ RuntimeSettles(p) PROVE OpStep
  BY <1>9 DEF OpStep
<1>10. ASSUME NEW g \in 1..gens, RuntimeDown(g) \/ Publish(g) PROVE OpStep
  BY <1>10 DEF OpStep, RuntimeDown, LastWord, RuntimeStops, RuntimeStopFails, Publish, Dies, Stops, Said, rest
<1> QED BY <1>1, <1>2, <1>3, <1>4, <1>5, <1>6, <1>7, <1>8, <1>9, <1>10 DEF Next

\* What a step does to the turn of one submission: nothing, or the next thing in its life.
Fresher(o)  == op[o].pc \in Early \cup {"idle"} /\ op'[o].pc \in (Early \cup Past) \ {"submitting", "attached"}
               /\ op'[o].res = "none" /\ op'[o].sett = "none" /\ op'[o].gen \in {0, op[o].gen}
Given(o)    == op[o].pc \in Early /\ live # 0 /\ phase = "active"
               /\ op'[o].kind = op[o].kind /\ op'[o].pc = "submitting" /\ op'[o].gen = live
               /\ op'[o].res = (IF prov[live] = "up" THEN "pending" ELSE "stopped")
               /\ op'[o].sett = "none"
Attached(o) == op[o].pc = "submitting" /\ op[o].res # "pending"
               /\ op'[o] = [op[o] EXCEPT !.pc = IF op[o].res = "submitted" THEN "attached"
                                               ELSE IF op[o].res = "stopped" THEN "stopped" ELSE "failed"]
Reacted(o)  == op[o].pc = "attached" /\ op[o].sett # "open"
               /\ op'[o] = [op[o] EXCEPT !.pc = "done"]
Answered(o) == op[o].pc = "submitting" /\ op[o].res = "pending"
               /\ \E r \in {"submitted", "stopped", "failed"} :
                    op'[o] = [[op[o] EXCEPT !.res = r]
                               EXCEPT !.sett = IF r = "submitted" THEN "open" ELSE "none"]
Settled(o)  == op[o].sett = "open" /\ op'[o] = [op[o] EXCEPT !.sett = "completed"]
Ended(o)    == op[o].sett = "open" /\ op[o].gen \in 1..gens /\ Dies(op[o].gen)
               /\ op'[o] = [op[o] EXCEPT !.sett = "stopped"]

TurnStep(o) ==
  \/ op'[o] = op[o] \/ Fresher(o) \/ Given(o) \/ Attached(o) \/ Reacted(o)
  \/ Answered(o) \/ Settled(o) \/ Ended(o)

LEMMA NextTurns ==
  ASSUME TypeOK, TurnInv, Next, NEW o \in Ops
  PROVE  TurnStep(o)
<1> USE DEF TurnStep
<1>0. OpStep
  BY NextOps DEF TurnInv
<1>t. op[o] \in OpType /\ TurnOf(o)
  BY DEF TypeOK, TurnInv
<1>e. op[o].pc \in Early \cup {"idle"} => op[o].res = "none" /\ op[o].sett = "none"
  BY <1>t DEF TurnOf, Early, Past
<1>1. ASSUME NEW p \in Ops, Enters(p) PROVE TurnStep(o)
  <2>1. CASE o = p
    <3>1. /\ op'[o].res = "none" /\ op'[o].sett = "none" /\ op'[o].gen = 0
          /\ op'[o].pc \in Early \cup {"stopped"}
      BY <1>1, <2>1 DEF Enters, IdleOp, TypeOK
    <3> QED BY <1>1, <2>1, <3>1 DEF Enters, Fresher, Past, Early
  <2> QED BY <1>1, <2>1 DEF Enters, TypeOK
<1>2. ASSUME NEW p \in Ops, Relocks(p) PROVE TurnStep(o)
  <2>1. CASE o = p
    <3>1. /\ op'[o].res = op[o].res /\ op'[o].sett = op[o].sett /\ op'[o].gen = op[o].gen
          /\ op'[o].pc = "entered" /\ op[o].pc = "started"
      BY <1>2, <1>t, <2>1 DEF Relocks, OpType, TypeOK
    <3> QED BY <1>e, <3>1 DEF Fresher, Past, Early
  <2> QED BY <1>2, <2>1 DEF Relocks, TypeOK
<1>3. ASSUME NEW p \in Ops, NEW pc \in OpPcs, At(p, pc) = op', op[p].pc \in Early,
             pc \notin {"idle", "submitting", "attached"} PROVE TurnStep(o)
  <2>1. CASE o = p
    <3>1. /\ op'[o].res = op[o].res /\ op'[o].sett = op[o].sett /\ op'[o].gen = op[o].gen
          /\ op'[o].pc = pc
      BY <1>3, <1>t, <2>1 DEF At, OpType, TypeOK
    <3> QED BY <1>3, <1>e, <2>1, <3>1 DEF Fresher, Past, Early, OpPcs, Busy
  <2> QED BY <1>3, <2>1 DEF At, TypeOK
<1>4. ASSUME NEW p \in Ops, Submits(p) PROVE TurnStep(o)
  <2>1. CASE op' = At(p, "failed") \/ op' = At(p, "stopped")
    BY <1>3, <1>4, <2>1 DEF Submits, OpPcs
  <2>2. CASE /\ live # 0 /\ phase = "active"
             /\ op' = [op EXCEPT ![p].pc = "submitting", ![p].gen = live,
                                 ![p].res = IF prov[live] = "up" THEN "pending" ELSE "stopped"]
    <3>1. CASE o = p
      <4>1. /\ op'[o].pc = "submitting" /\ op'[o].gen = live /\ op'[o].kind = op[o].kind
            /\ op'[o].sett = op[o].sett
            /\ op'[o].res = IF prov[live] = "up" THEN "pending" ELSE "stopped"
        BY <1>t, <2>2, <3>1 DEF OpType, TypeOK
      <4> QED BY <1>4, <1>e, <2>2, <3>1, <4>1 DEF Given, Submits
    <3> QED BY <2>2, <3>1 DEF TypeOK
  <2> QED BY <1>4, <2>1, <2>2 DEF Submits, Submit
<1>5. ASSUME NEW outcome \in {"failed", "started"}, FlightEnds(outcome) PROVE TurnStep(o)
  <2>1. CASE op[o].pc = "waitStart"
    <3>1. /\ op'[o].res = op[o].res /\ op'[o].sett = op[o].sett /\ op'[o].gen = op[o].gen
          /\ op'[o].pc = outcome
      BY <1>5, <1>t, <2>1 DEF FlightEnds, OpType, TypeOK
    <3> QED BY <1>5, <1>e, <2>1, <3>1 DEF Fresher, Past, Early
  <2> QED BY <1>5, <2>1 DEF FlightEnds, TypeOK
<1>6. CASE Attach
  <2>1. Head(line) \in Ops /\ op[Head(line)].pc = "submitting"
    BY <1>6 DEF Attach, TypeOK, TurnInv, LineInv
  <2>2. CASE o = Head(line)
    BY <1>6, <2>1, <2>2 DEF Attach, Attached, At, TypeOK
  <2> QED BY <1>6, <2>2 DEF Attach, At, TypeOK
<1>7. ASSUME NEW p \in Ops, React(p) PROVE TurnStep(o)
  BY <1>7 DEF React, Reacted, At, TypeOK
<1>8. ASSUME NEW p \in Ops, RuntimeAdmits(p) PROVE TurnStep(o)
  <2>1. PICK r \in {"submitted", "stopped", "failed"} :
          op' = [op EXCEPT ![p].res = r, ![p].sett = IF r = "submitted" THEN "open" ELSE "none"]
    BY <1>8 DEF RuntimeAdmits
  <2>2. CASE o = p
    BY <1>8, <2>1, <2>2 DEF RuntimeAdmits, Answered, TypeOK
  <2> QED BY <2>1, <2>2 DEF TypeOK
<1>9. ASSUME NEW p \in Ops, RuntimeSettles(p) PROVE TurnStep(o)
  BY <1>9 DEF RuntimeSettles, Settled, TypeOK
<1>10. ASSUME NEW g \in 1..gens, Dies(g) PROVE TurnStep(o)
  <2>1. \/ op'[o] = op[o]
        \/ op[o].gen = g /\ op[o].sett = "open" /\ op'[o] = [op[o] EXCEPT !.sett = "stopped"]
    BY <1>10 DEF Dies, TornDown, TypeOK
  <2> QED BY <1>10, <2>1 DEF Ended
<1> QED BY <1>0, <1>1, <1>2, <1>3, <1>4, <1>5, <1>6, <1>7, <1>8, <1>9, <1>10
        DEF OpStep, Moves, ReportEnds

\* What a step does to the start of a runtime.
StartStep ==
  \/ gens' = gens /\ (start' = start \/ start' = NoStart)
  \/ /\ gens' = gens /\ start' = [pc |-> "reopen", gen |-> 0]
     /\ start.pc = "none" /\ phase = "active" /\ live = 0 /\ UNCHANGED rest
     /\ UNCHANGED <<live, authority, mcp, prov, phase>>
  \/ /\ OpenGeneration /\ live = 0 /\ UNCHANGED phase
     /\ (start.pc = "none" /\ phase = "active") \/ start.pc = "reopen"
  \/ RuntimeCreated
  \/ StartFails

LEMMA BeginStep ==
  ASSUME BeginStart, start.pc = "none", phase = "active", live = 0, UNCHANGED <<phase, rest>>
  PROVE  StartStep
  BY DEF BeginStart, StartStep

\* Every step changes the start in one of these ways.
LEMMA NextStart ==
  ASSUME TypeOK, StartInv, Next
  PROVE  StartStep
<1>0. CASE gens' = gens /\ start' = start
  BY <1>0 DEF StartStep
<1>f. ASSUME NEW outcome, FlightEnds(outcome), gens' = gens PROVE StartStep
  BY <1>f DEF FlightEnds, StartStep
<1>s. ASSUME NEW s, StopFirst(s) PROVE gens' = gens /\ start' = start
  BY <1>s DEF StopFirst, rt
<1>1. CASE StartAnswered
  <2>1. CASE RuntimeCreated \/ StartFails
    BY <2>1 DEF StartStep
  <2>2. CASE CreateFails \/ RuntimeStarts \/ RollbackStopped \/ RollbackUnproven
    BY <1>f, <2>2 DEF CreateFails, RuntimeStarts, RollbackStopped, RollbackUnproven
  <2> QED BY <1>1, <2>1, <2>2 DEF StartAnswered
<1>2. ASSUME NEW s \in Stoppers, StopAnswered(s) \/ StopJoined(s) PROVE StartStep
  BY <1>0, <1>2 DEF StopAnswered, StopJoined
<1>3. ASSUME NEW o \in Ops, OpContinues(o) PROVE StartStep
  <2>1. CASE PushPrepares(o) \/ PushSubmits(o) \/ ContinueStarted(o) \/ React(o)
    BY <1>0, <2>1 DEF PushPrepares, PushSubmits, ContinueStarted, React, rt
  <2>2. CASE Admit(o)
    <3>1. CASE UNCHANGED <<rt, store>>
      BY <1>0, <3>1 DEF rt
    <3>2. CASE BeginStart /\ start.pc = "none" /\ phase = "active" /\ live = 0
      BY <2>2, <3>2, BeginStep DEF Admit, rest
    <3> QED BY <2>2, <3>1, <3>2 DEF Admit, EnsureStarted
  <2>3. CASE LoseStarted(o)
    BY <1>0, <1>s, <2>3 DEF LoseStarted
  <2> QED BY <1>3, <2>1, <2>2, <2>3 DEF OpContinues
<1>4. ASSUME NEW o \in Ops, EnterLocked(o) PROVE StartStep
  <2>1. CASE UNCHANGED <<rt, store>>
    BY <1>0, <2>1 DEF rt
  <2>2. CASE BeginStart /\ start.pc = "none" /\ phase = "active" /\ live = 0
    BY <1>4, <2>2, BeginStep DEF EnterLocked, rest
  <2> QED BY <1>4, <2>1, <2>2 DEF EnterLocked
<1>5. CASE StoreAnswers
  <2>1. CASE StatusWritten \/ IntentWritten \/ CloseWritten
    BY <1>0, <2>1 DEF StatusWritten, IntentWritten, CloseWritten, rt
  <2>2. CASE ReopenWritten
    <3>1. start.pc = "reopen" /\ live = 0 /\ UNCHANGED phase
      BY <2>2 DEF ReopenWritten, StartInv
    <3>2. CASE OpenGeneration
      BY <3>1, <3>2 DEF StartStep
    <3>3. CASE FlightEnds("failed") /\ gens' = gens
      BY <1>f, <3>3
    <3> QED BY <2>2, <3>2, <3>3 DEF ReopenWritten
  <2> QED BY <1>5, <2>1, <2>2 DEF StoreAnswers
<1>6. CASE HostConverges \/ Close
  BY <1>0, <1>6, <1>s DEF HostConverges, Close, rt
<1>7. CASE Attach \/ WriteBegins \/ CleanedUp \/ Lock \/ Unlock \/ StopForHost
  BY <1>0, <1>7 DEF Attach, WriteBegins, CleanedUp, Lock, Unlock, StopForHost, rt
<1>8. ASSUME NEW s \in {"host", "close"}, Converges(s) PROVE StartStep
  BY <1>0, <1>8 DEF Converges, AdmissionsDrained, MutationsDrained, Converged, rt
<1>9. ASSUME NEW o \in Ops, \/ PushBodyBuilt(o) \/ ReportEnds(o) \/ RuntimeAdmits(o)
                            \/ RuntimeSettles(o) \/ \E k \in Kinds : Enter(o, k)
      PROVE  StartStep
  BY <1>0, <1>9 DEF PushBodyBuilt, ReportEnds, RuntimeAdmits, RuntimeSettles, Enter, rt
<1>10. ASSUME NEW g \in 1..gens, RuntimeDown(g) \/ Publish(g) PROVE StartStep
  BY <1>0, <1>10 DEF RuntimeDown, LastWord, RuntimeStops, TornDown, RuntimeStopFails, Publish, rt
<1> QED BY <1>1, <1>2, <1>3, <1>4, <1>5, <1>6, <1>7, <1>8, <1>9, <1>10 DEF Next

LEMMA GensGrow ==
  ASSUME TypeOK, StartInv, Next
  PROVE  gens \in Nat /\ gens' \in Nat /\ gens <= gens'
  BY NextStart DEF StartStep, OpenGeneration, RuntimeCreated, StartFails, TypeOK

----------------------------------------
(* What a step does to the runtime and to those that stop it               *)

\* A submission starts a runtime.
Starts ==
  /\ BeginStart /\ start.pc = "none" /\ live = 0 /\ phase = "active"
  /\ UNCHANGED <<stp, phase>>

RunStep ==
  \/ UNCHANGED <<rt, stp, phase>> \/ Saying
  \/ StartAnswered \/ Starts \/ ReopenWritten
  \/ \E o \in Ops : LoseStarted(o)
  \/ HostConverges \/ Close \/ StopForHost
  \/ \E s \in Stoppers : StopAnswered(s) \/ StopJoined(s)
  \/ \E s \in {"host", "close"} : Converges(s)
  \/ CleanedUp \/ CloseWritten
  \/ \E g \in 1..gens : RuntimeDown(g)

\* Every step either leaves the runtime and its stoppers alone or is one of these.
LEMMA NextRuns ==
  ASSUME Next
  PROVE  RunStep
<1> USE DEF RunStep
<1>1. ASSUME NEW o \in Ops, OpContinues(o) \/ EnterLocked(o) PROVE RunStep
  <2>1. CASE PushPrepares(o) \/ PushSubmits(o) \/ ContinueStarted(o) \/ React(o)
    BY <2>1 DEF PushPrepares, PushSubmits, ContinueStarted, React
  <2>2. CASE Admit(o)
    <3>1. UNCHANGED rt \/ Starts
      BY <2>2 DEF Admit, EnsureStarted, Starts
    <3> QED BY <2>2, <3>1 DEF Admit
  <2>3. CASE EnterLocked(o)
    <3>1. UNCHANGED rt \/ Starts
      BY <2>3 DEF EnterLocked, Starts
    <3> QED BY <2>3, <3>1 DEF EnterLocked
  <2> QED BY <1>1, <2>1, <2>2, <2>3 DEF OpContinues
<1>2. CASE StoreAnswers
  BY <1>2, SayingMeans DEF StoreAnswers, IntentWritten
<1>3. CASE Attach \/ WriteBegins \/ Lock \/ Unlock
  BY <1>3, SayingMeans DEF Attach, Lock, Unlock
<1>4. ASSUME NEW o \in Ops, \/ PushBodyBuilt(o) \/ ReportEnds(o) \/ RuntimeAdmits(o)
                            \/ RuntimeSettles(o) \/ \E k \in Kinds : Enter(o, k)
      PROVE  RunStep
  BY <1>4 DEF PushBodyBuilt, ReportEnds, RuntimeAdmits, RuntimeSettles, Enter
<1>5. ASSUME NEW g \in 1..gens, Publish(g) PROVE RunStep
  BY <1>5 DEF Publish
<1> QED BY <1>1, <1>2, <1>3, <1>4, <1>5 DEF Next

\* An entity that is no longer active never is again.
LEMMA PhaseStable ==
  ASSUME Next, phase # "active"
  PROVE  phase' # "active"
  BY NextRuns DEF RunStep, Saying, StartAnswered, RuntimeCreated, CreateFails, RuntimeStarts, StartFails,
     RollbackStopped, RollbackUnproven, Starts, ReopenWritten, LoseStarted, HostConverges, Close,
     StopForHost, StopAnswered, StopJoined, Converges, AdmissionsDrained, MutationsDrained,
     Converged, CleanedUp, CloseWritten, RuntimeDown, LastWord, RuntimeStops, TornDown, RuntimeStopFails

Asked == {"stopping", "ending", "down", "stuck", "again"}
Over  == {"down", "stuck", "again"}

Keeps(g) ==
  /\ prov'[g] \in Asked /\ (prov[g] = "down" => prov'[g] = "down")
  /\ (prov[g] \in Said => prov'[g] \in Said) /\ (prov[g] \in Over => prov'[g] \in Over)

\* A runtime that was asked to stop stays asked, one that is down stays down.
LEMMA AskedStays ==
  ASSUME TypeOK, StartInv, Next, NEW g \in 1..gens, prov[g] \in Asked
  PROVE  Keeps(g)
<1> USE DEF Keeps, Asked, Said, Over
<1>0. ASSUME UNCHANGED prov PROVE Keeps(g)
  BY <1>0
<1>1. ASSUME NEW h \in Nat, AskStop(h) PROVE Keeps(g)
  BY <1>1, AskMeans
<1>2. ASSUME NEW s, StopFirst(s) PROVE Keeps(g)
  BY <1>0, <1>1, <1>2, live \in Nat DEF StopFirst, rt, TypeOK
<1>3. ASSUME OpenGeneration PROVE Keeps(g)
  BY <1>3 DEF OpenGeneration, TypeOK
<1>4. CASE StartAnswered
  <2>1. CASE RuntimeCreated \/ RuntimeStarts
    BY <2>1 DEF RuntimeCreated, RuntimeStarts, StartInv, TypeOK
  <2>2. CASE StartFails
    BY <1>1, <2>2 DEF StartFails, StartInv, TypeOK
  <2> QED BY <1>0, <1>4, <2>1, <2>2 DEF StartAnswered, CreateFails, RollbackStopped, RollbackUnproven
<1>5. CASE Starts \/ ReopenWritten
  BY <1>0, <1>3, <1>5 DEF Starts, BeginStart, ReopenWritten
<1>6. CASE HostConverges \/ Close \/ \E o \in Ops : LoseStarted(o)
  BY <1>0, <1>2, <1>6 DEF HostConverges, Close, LoseStarted, rt
<1>7. ASSUME NEW s \in Stoppers, StopAnswered(s) \/ StopJoined(s) PROVE Keeps(g)
  <2>1. UNCHANGED prov \/ AskStop(LiveAfterStop(stp[s].gen)) \/ AskStop(live)
    BY <1>7 DEF StopAnswered, StopJoined, StopSecond
  <2>2. LiveAfterStop(stp[s].gen) \in Nat /\ live \in Nat
    BY DEF LiveAfterStop, TypeOK
  <2> QED BY <1>0, <1>1, <2>1, <2>2
<1>8. CASE \E h \in 1..gens : RuntimeDown(h)
  BY <1>8 DEF RuntimeDown, LastWord, RuntimeStops, TornDown, RuntimeStopFails, TypeOK
<1>9. CASE UNCHANGED rt \/ Saying
  BY <1>0, <1>9 DEF rt, Saying, TypeOK
<1> QED BY <1>4, <1>5, <1>6, <1>7, <1>8, <1>9, NextRuns DEF RunStep, StopForHost, CleanedUp,
           CloseWritten, Converges, AdmissionsDrained, MutationsDrained, Converged

----------------------------------------
(* The identity store's queue, and the ownership after every step          *)

\* What a step does to the identity store's queue: nothing, an update more, the
\* first one begins or is refused, the first one was written.
WriteStep ==
  \/ writes' = writes
  \/ \E kind, who : /\ kind \in Words => who \in 1..gens
                    /\ kind = "last" => LastWord(who)
                    /\ writes' = Queue(kind, who)
  \/ WriteBegins
  \/ writes # <<>> /\ Head(writes).go /\ writes' = Tail(writes)

LEMMA NextWrites ==
  ASSUME Next
  PROVE  WriteStep
<1> USE DEF WriteStep, Words
<1>b. ASSUME BeginStart PROVE WriteStep
  BY <1>b DEF BeginStart, store
<1>1. ASSUME NEW o \in Ops, OpContinues(o) PROVE WriteStep
  <2>1. CASE PushPrepares(o) \/ PushSubmits(o) \/ LoseStarted(o) \/ React(o)
    BY <2>1 DEF PushPrepares, PushSubmits, LoseStarted, React, store
  <2>2. CASE Admit(o)
    BY <1>b, <2>2 DEF Admit, EnsureStarted, store
  <2>3. CASE ContinueStarted(o)
    BY <2>3 DEF ContinueStarted, store
  <2> QED BY <1>1, <2>1, <2>2, <2>3 DEF OpContinues
<1>2. ASSUME NEW o \in Ops, EnterLocked(o) PROVE WriteStep
  BY <1>b, <1>2 DEF EnterLocked, store
<1>3. CASE StoreAnswers
  BY <1>3 DEF StoreAnswers, StatusWritten, IntentWritten, ReopenWritten, CloseWritten, Writing
<1>4. CASE CleanedUp
  BY <1>4 DEF CleanedUp
<1>5. ASSUME NEW g \in 1..gens, RuntimeDown(g) \/ Publish(g) PROVE WriteStep
  BY <1>5, LastWord(g) => writes' = Queue("last", g) DEF RuntimeDown, LastWord, RuntimeStops, TornDown, RuntimeStopFails, Publish, store
<1>6. CASE StartAnswered
  BY <1>6 DEF StartAnswered, RuntimeCreated, CreateFails, RuntimeStarts, StartFails,
     RollbackStopped, RollbackUnproven, store
<1>7. CASE Attach \/ WriteBegins \/ HostConverges \/ Lock \/ Unlock \/ StopForHost \/ Close
  BY <1>7 DEF Attach, HostConverges, Lock, Unlock, StopForHost, Close, store
<1>8. ASSUME NEW o \in Ops, \/ PushBodyBuilt(o) \/ ReportEnds(o) \/ RuntimeAdmits(o)
                            \/ RuntimeSettles(o) \/ \E k \in Kinds : Enter(o, k)
      PROVE  WriteStep
  BY <1>8 DEF PushBodyBuilt, ReportEnds, RuntimeAdmits, RuntimeSettles, Enter, store
<1>9. ASSUME NEW s \in Stoppers, StopAnswered(s) \/ StopJoined(s) PROVE WriteStep
  BY <1>9 DEF StopAnswered, StopJoined, store
<1>10. ASSUME NEW s \in {"host", "close"}, Converges(s) PROVE WriteStep
  BY <1>10 DEF Converges, AdmissionsDrained, MutationsDrained, Converged, store
<1> QED BY <1>1, <1>2, <1>3, <1>4, <1>5, <1>6, <1>7, <1>8, <1>9, <1>10 DEF Next

\* The queue after its first update is gone.
LEMMA TailFacts ==
  ASSUME writes \in Seq(WriteType), writes # <<>>, writes' = Tail(writes)
  PROVE  /\ Len(writes) \in Nat /\ Len(writes') = Len(writes) - 1
         /\ \A i \in 1..Len(writes') : writes'[i] = writes[i + 1] /\ i + 1 \in 2..Len(writes)
         /\ writes' # <<>> => Head(writes') = writes[2] /\ 2 \in 2..Len(writes)
<1>1. Len(writes) \in Nat /\ Len(writes') = Len(writes) - 1 /\ writes' \in Seq(WriteType)
  OBVIOUS
<1>2. \A i \in 1..Len(writes') : writes'[i] = writes[i + 1] /\ i + 1 \in 2..Len(writes)
  BY <1>1
<1>3. ASSUME writes' # <<>> PROVE Head(writes') = writes[2] /\ 2 \in 2..Len(writes)
  <2>1. Len(writes') # 0
    BY <1>1, <1>3
  <2>2. 1 \in 1..Len(writes') /\ Head(writes') = writes'[1]
    BY <1>1, <1>3, <2>1
  <2> QED BY <1>2, <2>2
<1> QED BY <1>1, <1>2, <1>3

\* The queue after an update was added.
LEMMA QueueFacts ==
  ASSUME writes \in Seq(WriteType), NEW kind, NEW who, writes' = Queue(kind, who)
  PROVE  /\ Len(writes) \in Nat /\ Len(writes') = Len(writes) + 1
         /\ \A i \in 1..Len(writes) : writes'[i] = writes[i]
         /\ writes'[Len(writes) + 1] = [kind |-> kind, who |-> who, go |-> FALSE]
         /\ Head(writes') = IF writes = <<>> THEN [kind |-> kind, who |-> who, go |-> FALSE] ELSE Head(writes)
  BY DEF Queue

\* The queue after its first update began.
LEMMA BeginFacts ==
  ASSUME writes \in Seq(WriteType), writes # <<>>, writes' = [writes EXCEPT ![1].go = TRUE]
  PROVE  /\ Len(writes) \in Nat /\ Len(writes') = Len(writes)
         /\ \A i \in 2..Len(writes) : writes'[i] = writes[i]
         /\ 1 \in 1..Len(writes) /\ writes'[1].kind = writes[1].kind /\ writes'[1].who = writes[1].who
         /\ Head(writes') = writes'[1] /\ Head(writes) = writes[1]
<1>1. 1 \in 1..Len(writes) /\ Len(writes) \in Nat /\ writes[1] \in WriteType
  OBVIOUS
<1>2. writes' = [writes EXCEPT ![1] = [writes[1] EXCEPT !.go = TRUE]]
  BY <1>1
<1>3. [writes[1] EXCEPT !.go = TRUE] \in WriteType
  BY <1>1 DEF WriteType
<1>4. writes' \in Seq(WriteType) /\ Len(writes') = Len(writes)
  BY <1>1, <1>2, <1>3, ExceptSeq
<1>5. writes'[1] = [writes[1] EXCEPT !.go = TRUE] /\ \A i \in 2..Len(writes) : writes'[i] = writes[i]
  <2>1. writes \in [1..Len(writes) -> WriteType]
    OBVIOUS
  <2>2. \A i \in 2..Len(writes) : i \in 1..Len(writes) /\ i # 1
    BY <1>1
  <2> QED BY <1>1, <1>2, <2>1, <2>2
<1>6. writes'[1].kind = writes[1].kind /\ writes'[1].who = writes[1].who
  BY <1>1, <1>5 DEF WriteType
<1>7. Head(writes') = writes'[1] /\ Head(writes) = writes[1]
  BY <1>4
<1> QED BY <1>1, <1>4, <1>5, <1>6, <1>7

LEMMA QueueNext ==
  ASSUME TypeOK, StartInv, QueueInv, Next
  PROVE  QueueInv'
<1>0. gens \in Nat /\ gens' \in Nat /\ gens <= gens' /\ writes \in Seq(WriteType)
  BY GensGrow DEF TypeOK
<1>a. \A g \in 1..gens : prov[g] \in Said => prov'[g] \in Said
  BY AskedStays DEF Asked, Said, Keeps
<1>g. 1..gens \subseteq 1..gens'
  BY <1>0
<1>1. CASE writes' = writes
  BY <1>1, <1>a, <1>g DEF QueueInv
<1>2. ASSUME writes # <<>>, writes' = Tail(writes) PROVE QueueInv'
  <2>1. \A i \in 1..Len(writes') : writes'[i] = writes[i + 1] /\ i + 1 \in 2..Len(writes)
    BY <1>0, <1>2, TailFacts
  <2>2. \A i \in 2..Len(writes) : i \in 1..Len(writes)
    BY <1>0
  <2>3. \A i \in 2..Len(writes') : i \in 1..Len(writes')
    BY <1>0, <1>2, TailFacts
  <2> QED BY <1>a, <1>g, <2>1, <2>2, <2>3 DEF QueueInv
<1>3. ASSUME NEW kind, NEW who, kind \in Words => who \in 1..gens,
             kind = "last" => LastWord(who), writes' = Queue(kind, who)
      PROVE  QueueInv'
  <2>1. /\ Len(writes) \in Nat /\ Len(writes') = Len(writes) + 1
        /\ \A i \in 1..Len(writes) : writes'[i] = writes[i]
        /\ writes'[Len(writes) + 1] = [kind |-> kind, who |-> who, go |-> FALSE]
    BY <1>0, <1>3, QueueFacts
  <2>2. \A i \in 1..Len(writes') : i \in 1..Len(writes) \/ i = Len(writes) + 1
    BY <2>1
  <2>3. \A i \in 2..Len(writes') : i \in 2..Len(writes) \/ i = Len(writes) + 1
    BY <2>1
  <2>4. \A i \in 2..Len(writes) : i \in 1..Len(writes)
    BY <2>1
  <2>5. kind = "last" => who \in 1..gens /\ prov'[who] \in Said
    BY <1>3 DEF LastWord, TornDown, Words, Said, TypeOK
  <2> QED BY <1>3, <1>a, <1>g, <2>1, <2>2, <2>3, <2>4, <2>5 DEF QueueInv
<1>4. ASSUME writes # <<>>, writes' = [writes EXCEPT ![1].go = TRUE] PROVE QueueInv'
  <2>1. /\ Len(writes) \in Nat /\ Len(writes') = Len(writes) /\ 1 \in 1..Len(writes)
        /\ \A i \in 2..Len(writes) : writes'[i] = writes[i]
        /\ writes'[1].kind = writes[1].kind /\ writes'[1].who = writes[1].who
    BY <1>0, <1>4, BeginFacts
  <2>2. \A i \in 1..Len(writes) : i = 1 \/ i \in 2..Len(writes)
    BY <2>1
  <2> QED BY <1>a, <1>g, <2>1, <2>2 DEF QueueInv
<1>5. CASE WriteBegins
  BY <1>2, <1>4, <1>5 DEF WriteBegins
<1>6. CASE \E kind, who : /\ kind \in Words => who \in 1..gens
                          /\ kind = "last" => LastWord(who)
                          /\ writes' = Queue(kind, who)
  BY <1>3, <1>6
<1> QED BY <1>1, <1>2, <1>5, <1>6, NextWrites DEF WriteStep

LEMMA OwnershipNext == OwnershipInv /\ [Next]_vars => OwnershipInv'
<1> SUFFICES ASSUME OwnershipInv, [Next]_vars PROVE Ownership'
  <2>1. ASSUME OwnershipInv, Next PROVE TypeOK' /\ QueueInv'
    BY <2>1, TypeNext, QueueNext DEF OwnershipInv
  <2>2. ASSUME OwnershipInv, UNCHANGED vars PROVE TypeOK' /\ QueueInv'
    BY <2>2, TypeNext DEF OwnershipInv, QueueInv, vars, rt, store
  <2> QED BY <2>1, <2>2 DEF OwnershipInv, Ownership
<1>0. CASE UNCHANGED rt
  BY <1>0, ReleaseOwnership DEF rt
<1>1. CASE UNCHANGED vars
  BY <1>0, <1>1 DEF vars
<1>2. CASE StartAnswered
  BY <1>2, StartAnsweredOwnership
<1>3. ASSUME NEW s \in Stoppers, StopAnswered(s) \/ StopJoined(s) PROVE Ownership'
  BY <1>3, StopsOwnership
<1>4. ASSUME NEW o \in Ops, OpContinues(o) \/ EnterLocked(o) PROVE Ownership'
  BY <1>4, SubmissionOwnership
<1>5. ASSUME NEW g \in 1..gens, RuntimeDown(g) PROVE Ownership'
  BY <1>5, DownOwnership
<1>6. CASE StoreAnswers
  <2>1. CASE IntentWritten \/ CloseWritten
    BY <1>0, <2>1 DEF IntentWritten, CloseWritten
  <2>2. CASE ReopenWritten
    <3>1. live = 0
      BY <2>2 DEF ReopenWritten, OwnershipInv, StartInv
    <3>2. CASE OpenGeneration
      BY <3>1, <3>2, OpenOwnership
    <3>3. CASE FlightEnds("failed") /\ UNCHANGED <<live, mcp, gens, prov>>
      BY <3>3, ReleaseOwnership DEF FlightEnds
    <3> QED BY <2>2, <3>2, <3>3 DEF ReopenWritten
  <2> QED BY <1>6, <2>1, <2>2, SaidOwnership DEF StoreAnswers
<1>7. CASE HostConverges \/ Close
  <2>1. StopFirst("host") \/ StopFirst("close") \/ UNCHANGED rt
    BY <1>7 DEF HostConverges, Close
  <2> QED BY <1>0, <2>1, StopFirstOwnership DEF Stoppers
<1>8. CASE Attach \/ CleanedUp \/ Lock \/ Unlock \/ StopForHost
  BY <1>0, <1>8 DEF Attach, CleanedUp, Lock, Unlock, StopForHost
<1>9. ASSUME NEW o \in Ops,
             \/ PushBodyBuilt(o) \/ ReportEnds(o) \/ RuntimeAdmits(o)
             \/ RuntimeSettles(o) \/ \E k \in Kinds : Enter(o, k)
      PROVE  Ownership'
  BY <1>0, <1>9 DEF PushBodyBuilt, ReportEnds, RuntimeAdmits, RuntimeSettles, Enter
<1>10. ASSUME NEW s \in {"host", "close"}, Converges(s) PROVE Ownership'
  BY <1>0, <1>10 DEF Converges, AdmissionsDrained, MutationsDrained, Converged
<1>11. ASSUME NEW g \in 1..gens, Publish(g) PROVE Ownership'
  BY <1>0, <1>11 DEF Publish
<1> QED BY <1>1, <1>2, <1>3, <1>4, <1>5, <1>6, <1>7, <1>8, <1>9, <1>10, <1>11, SaidOwnership DEF Next

\* No native runtime is orphaned and there is never a second one, whatever starts,
\* failed starts, host stops and closes race.
THEOREM RuntimeAlwaysHeld == Spec => []RuntimeIsHeld
<1>1. OwnershipInv => RuntimeIsHeld
  BY DEF OwnershipInv
<1> QED BY <1>1, OwnershipInit, OwnershipNext, PTL DEF Spec

\* A runtime that is being stopped, or was, no longer has MCP authority.
THEOREM McpAlwaysGoneFirst == Spec => []McpGoneBeforeTeardown
<1>1. OwnershipInv => McpGoneBeforeTeardown
  BY DEF OwnershipInv
<1> QED BY <1>1, OwnershipInit, OwnershipNext, PTL DEF Spec

----------------------------------------
(* How handle and start move                                               *)

\* The handle changes when the runtime is created, or goes with one proved dead.
LEMMA LiveMoves ==
  ASSUME TypeOK, Next
  PROVE  \/ live' = live
         \/ RuntimeCreated
         \/ live' = 0 /\ prov[live] = "down" /\ (RollbackStopped \/ \E s \in Stoppers : StopAnswered(s))
<1>2. ASSUME NEW s, StopFirst(s) PROVE live' = live
  BY <1>2 DEF StopFirst, rt
<1>4. CASE StartAnswered
  BY <1>4 DEF StartAnswered, CreateFails, RuntimeStarts, StartFails, RollbackStopped, RollbackUnproven
<1>5. CASE Starts \/ ReopenWritten
  BY <1>5 DEF Starts, BeginStart, ReopenWritten, OpenGeneration
<1>6. CASE HostConverges \/ Close \/ \E o \in Ops : LoseStarted(o)
  BY <1>2, <1>6 DEF HostConverges, Close, LoseStarted, rt
<1>7. ASSUME NEW s \in Stoppers, StopAnswered(s) \/ StopJoined(s)
      PROVE  live' = live \/ (StopAnswered(s) /\ live' = 0 /\ prov[live] = "down")
  BY <1>7 DEF StopAnswered, StopJoined, LiveAfterStop
<1>8. CASE \E h \in 1..gens : RuntimeDown(h)
  BY <1>8 DEF RuntimeDown, LastWord, RuntimeStops, TornDown, RuntimeStopFails
<1>9. CASE UNCHANGED rt \/ Saying
  BY <1>9 DEF rt, Saying
<1> QED BY <1>4, <1>5, <1>6, <1>7, <1>8, <1>9, NextRuns DEF RunStep, StopForHost, CleanedUp,
           CloseWritten, Converges, AdmissionsDrained, MutationsDrained, Converged

\* A start begins only while the entity is active and holds nothing; only
\* createRuntime's answer takes it past the point where it has no runtime.
LEMMA StartMoves ==
  ASSUME TypeOK, StartInv, Next
  PROVE  /\ start.pc = "none" /\ start'.pc # "none" =>
              phase = "active" /\ live = 0 /\ start'.pc \in {"reopen", "create"}
         /\ start.pc \in {"reopen", "create"} =>
              start'.pc \in {"none", "reopen", "create"} \/ RuntimeCreated
         /\ start'.pc = "create" /\ start.pc # "create" => live = 0 /\ start'.gen = gens + 1
         /\ start'.pc \in {"launch", "rollback"} => start'.gen = start.gen
         /\ start'.pc = "launch" => start.pc = "launch" \/ RuntimeCreated
         /\ start'.pc = "rollback" => start.pc = "rollback" \/ StartFails
<1> USE NextStart
<1>1. CASE start' = start \/ start' = NoStart
  BY <1>1 DEF NoStart
<1>2. CASE start' = [pc |-> "reopen", gen |-> 0] /\ start.pc = "none" /\ phase = "active" /\ live = 0
  BY <1>2
<1>3. CASE OpenGeneration
  BY <1>3 DEF StartStep, OpenGeneration, RuntimeCreated, StartFails, NoStart
<1>4. CASE RuntimeCreated \/ StartFails
  BY <1>4 DEF RuntimeCreated, StartFails, TypeOK, StartType
<1> QED BY <1>1, <1>2, <1>3, <1>4 DEF StartStep

----------------------------------------
(* Stopping a runtime                                                      *)

\* Where a stopper stands says what became of the runtime it asked to stop, and
\* that nothing can start behind its back.
StopOf(s) ==
  /\ stp[s].gen \in 0..gens
  /\ stp[s].gen # 0 => prov[stp[s].gen] \in Asked
  /\ stp[s].pc \in {"stop1", "stop2"} => stp[s].gen # 0
  /\ stp[s].pc = "stop2" => start.pc = "none" /\ (live = stp[s].gen \/ (live = 0 /\ phase # "active"))
  /\ stp[s].pc \in {"join", "joined"} /\ stp[s].gen # 0 =>
       /\ prov[stp[s].gen] \in Over
       /\ ~stp[s].failed => prov[stp[s].gen] = "down" /\ live # stp[s].gen
  /\ stp[s].pc = "joined" =>
       start.pc = "none" \/ (s = "host" /\ start.pc \in {"reopen", "create"})
  /\ s # "host" /\ stp[s].pc # "idle" => phase # "active"

StopInv == \A s \in Stoppers : StopOf(s)

\* A stopper that a step leaves alone stands as well as before.
LEMMA StopKept ==
  ASSUME TypeOK, StartInv, StopInv, Next, NEW s \in Stoppers, stp'[s] = stp[s]
  PROVE  StopOf(s)'
<1> DEFINE g == stp[s].gen
<1>0. StopOf(s) /\ stp[s] \in StopType
  BY DEF StopInv, TypeOK
<1>1. gens <= gens' /\ gens \in Nat /\ gens' \in Nat
  BY GensGrow
<1>2. stp'[s].gen \in 0..gens'
  BY <1>0, <1>1 DEF StopOf
<1>3. stp'[s].gen # 0 => Keeps(g)
  BY <1>0, AskedStays DEF StopOf, TypeOK
<1>4. ASSUME stp'[s].pc = "stop2"
      PROVE  start'.pc = "none" /\ (live' = stp'[s].gen \/ (live' = 0 /\ phase' # "active"))
  <2>1. start.pc = "none" /\ (live = g \/ (live = 0 /\ phase # "active")) /\ g # 0
    BY <1>0, <1>4 DEF StopOf
  <2>2. start'.pc = "none"
    BY <2>1, StartMoves
  <2>3. ~RuntimeCreated /\ ~RollbackStopped
    BY <2>1 DEF RuntimeCreated, RollbackStopped
  <2>4. ASSUME NEW t \in Stoppers, StopAnswered(t) PROVE phase # "active"
    <3>1. t # s
      <4>1. ASSUME t = s PROVE stp'[s].pc # "stop2"
        BY <1>4, <2>4, <4>1 DEF StopAnswered, AfterStop, IdleStop, TypeOK
      <4> QED BY <1>4, <4>1
    <3>2. stp[t].pc # "idle"
      BY <2>4 DEF StopAnswered
    <3>3. StopOf(t)
      BY DEF StopInv
    <3> QED BY <1>0, <1>4, <3>1, <3>2, <3>3 DEF StopOf
  <2>5. live' = live \/ (live' = 0 /\ phase # "active")
    BY <2>3, <2>4, LiveMoves
  <2> QED BY <2>1, <2>2, <2>5, PhaseStable
<1>5. ASSUME stp'[s].pc \in {"join", "joined"}, stp'[s].gen # 0
      PROVE  /\ prov'[g] \in Over
             /\ ~stp'[s].failed => prov'[g] = "down" /\ live' # g
  <2>1. prov[g] \in Over /\ (~stp[s].failed => prov[g] = "down" /\ live # g) /\ g # 0
    BY <1>0, <1>5 DEF StopOf
  <2>2. RuntimeCreated => live' # g
    BY <2>1 DEF RuntimeCreated, StartInv, Over
  <2> QED BY <1>3, <2>1, <2>2, LiveMoves DEF Keeps
<1>6. ASSUME stp'[s].pc = "joined"
      PROVE  start'.pc = "none" \/ (s = "host" /\ start'.pc \in {"reopen", "create"})
  <2>1. start.pc = "none" \/ (s = "host" /\ start.pc \in {"reopen", "create"})
    BY <1>0, <1>6 DEF StopOf
  <2>2. ~RuntimeCreated
    BY <1>6 DEF RuntimeCreated, Quiet
  <2>3. s # "host" => phase # "active"
    BY <1>0, <1>6 DEF StopOf
  <2> QED BY <2>1, <2>2, <2>3, StartMoves
<1>7. s # "host" /\ stp'[s].pc # "idle" => phase' # "active"
  BY <1>0, PhaseStable DEF StopOf
<1> QED BY <1>0, <1>2, <1>3, <1>4, <1>5, <1>6, <1>7 DEF StopOf, Keeps

\* The first attempt of a stopper.
LEMMA StopFirstOf ==
  ASSUME TypeOK, StartInv, RuntimeIsHeld, NEW s \in Stoppers, StopFirst(s), s # "host" => phase' # "active"
  PROVE  StopOf(s)'
<1>0. start' = start /\ gens' = gens
  BY DEF StopFirst, rt
<1>1. CASE live # 0 /\ AskStop(live) /\ stp' = [stp EXCEPT ![s] = [pc |-> "stop1", gen |-> live, failed |-> FALSE]]
  <2>1. stp'[s] = [pc |-> "stop1", gen |-> live, failed |-> FALSE]
    BY <1>1 DEF TypeOK
  <2>2. prov'[live] \in Asked
    BY <1>1, AskMeans DEF TypeOK, Asked, StartInv, ProvStates
  <2> QED BY <1>0, <1>1, <2>1, <2>2 DEF StopOf, TypeOK
<1>2. CASE \E pc \in {"join", "drain"} : stp' = [stp EXCEPT ![s] = [pc |-> pc, gen |-> 0, failed |-> FALSE]]
  <2>1. \E pc \in {"join", "drain"} : stp'[s] = [pc |-> pc, gen |-> 0, failed |-> FALSE]
    BY <1>2 DEF TypeOK
  <2> QED BY <1>0, <2>1 DEF StopOf, TypeOK
<1> QED BY <1>1, <1>2 DEF StopFirst

\* A stopper that is over with the runtime.
LEMMA StopOverOf ==
  ASSUME TypeOK, NEW s \in Stoppers, NEW failed \in BOOLEAN, AfterStop(s, failed), gens' = gens,
         s # "host" => phase' # "active"
  PROVE  StopOf(s)'
<1>1. stp'[s] = IdleStop \/ stp'[s] = [pc |-> "drain", gen |-> 0, failed |-> failed]
  BY DEF AfterStop, TypeOK
<1> QED BY <1>1 DEF StopOf, IdleStop, TypeOK

\* The second attempt, on a runtime the first one did not see.
LEMMA StopSecondOf ==
  ASSUME TypeOK, StartInv, NEW s \in Stoppers, NEW g \in 0..gens, NEW failed \in BOOLEAN,
         StopSecond(s, g, failed), gens' = gens, start' = start, live' = g,
         g \notin {0, stp[s].gen} => start.pc = "none" /\ live = g,
         s # "host" => phase' # "active"
  PROVE  StopOf(s)'
<1>1. CASE g \notin {0, stp[s].gen}
  <2>1. stp'[s] = [pc |-> "stop2", gen |-> g, failed |-> failed]
    BY <1>1 DEF StopSecond, TypeOK
  <2>2. prov'[g] \in Asked
    BY <1>1, AskMeans DEF StopSecond, StartInv, ProvStates, TypeOK, Asked
  <2> QED BY <1>1, <2>1, <2>2 DEF StopOf, TypeOK
<1>2. CASE g \in {0, stp[s].gen}
  BY <1>2, StopOverOf DEF StopSecond
<1> QED BY <1>1, <1>2

\* Every step keeps every stopper where its account of the runtime is right.
LEMMA StopNext ==
  ASSUME TypeOK, StartInv, RuntimeIsHeld, StopInv, Next, NEW s \in Stoppers
  PROVE  StopOf(s)'
<1>k. CASE stp'[s] = stp[s]
  BY <1>k, StopKept
<1>0. StopOf(s) /\ stp[s] \in StopType /\ stp \in [Stoppers -> StopType]
  BY DEF StopInv, TypeOK
<1>p. s # "host" /\ stp[s].pc # "idle" => phase' # "active"
  BY <1>0, PhaseStable DEF StopOf
<1>g. gens <= gens' /\ gens \in Nat /\ gens' \in Nat
  BY GensGrow
<1>i. ASSUME NEW pc, stp'[s] = [IdleStop EXCEPT !.pc = pc], s = "host" \/ stp[s].pc # "idle",
             pc \notin {"stop1", "stop2", "joined"}
      PROVE  StopOf(s)'
  BY <1>g, <1>i, <1>p DEF StopOf, IdleStop
<1>o. ASSUME stp'[s] = IdleStop PROVE StopOf(s)'
  BY <1>g, <1>o DEF StopOf, IdleStop
<1>w. ASSUME stp'[s].gen = stp[s].gen, stp[s].pc # "idle",
             stp'[s].pc \notin {"stop1", "stop2", "join", "joined"}
      PROVE  StopOf(s)'
  <2>1. stp[s].gen # 0 => prov'[stp[s].gen] \in Asked
    BY <1>0, AskedStays DEF StopOf, TypeOK, Keeps
  <2> QED BY <1>0, <1>g, <1>p, <1>w, <2>1 DEF StopOf
<1>f. ASSUME NEW outcome, FlightEnds(outcome), stp[s].pc = "join" PROVE StopOf(s)'
  <2>1. stp'[s] = [stp[s] EXCEPT !.pc = "joined"] /\ start' = NoStart
    BY <1>f DEF FlightEnds
  <2>2. stp'[s].pc = "joined" /\ stp'[s].gen = stp[s].gen /\ stp'[s].failed = stp[s].failed
    BY <1>0, <2>1 DEF StopType
  <2>3. stp[s].gen # 0 => prov'[stp[s].gen] \in Asked \cap Over
                          /\ (prov[stp[s].gen] = "down" => prov'[stp[s].gen] = "down")
    BY <1>0, <1>f, AskedStays DEF StopOf, TypeOK, Keeps, Over, Asked
  <2>4. ~RuntimeCreated
    BY <2>1 DEF RuntimeCreated, NoStart
  <2>5. live' = live \/ live' = 0
    BY <2>4, LiveMoves
  <2> QED BY <1>0, <1>f, <1>g, <1>p, <2>1, <2>2, <2>3, <2>5 DEF StopOf, NoStart
<1>1. CASE StartAnswered
  BY <1>1, <1>f, <1>k DEF StartAnswered, RuntimeCreated, CreateFails, RuntimeStarts, StartFails,
     RollbackStopped, RollbackUnproven, FlightEnds
<1>2. CASE ReopenWritten
  BY <1>2, <1>f, <1>k DEF ReopenWritten, FlightEnds
<1>3. ASSUME NEW o \in Ops, LoseStarted(o) PROVE StopOf(s)'
  <2>1. CASE s = o /\ StopFirst(o)
    BY <1>3, <2>1, StopFirstOf DEF LoseStarted
  <2>2. CASE s # o
    BY <1>0, <1>3, <1>k, <2>2 DEF LoseStarted, StopFirst
  <2> QED BY <1>3, <1>k, <2>1, <2>2 DEF LoseStarted
<1>4. CASE HostConverges
  <2>1. s # "host" => stp'[s] = stp[s]
    BY <1>0, <1>4 DEF HostConverges, StopFirst
  <2> QED BY <1>4, <1>k, <2>1, StopFirstOf DEF HostConverges
<1>5. CASE Close
  <2>1. s # "close" => stp'[s] = stp[s]
    BY <1>0, <1>5 DEF Close, StopFirst
  <2>2. stp' = stp \/ (StopFirst("close") /\ phase' = "closing")
    BY <1>5 DEF Close
  <2> QED BY <1>k, <2>1, <2>2, StopFirstOf
<1>6. CASE StopForHost
  <2>1. s # "host" => stp'[s] = stp[s]
    BY <1>6 DEF StopForHost
  <2>2. s = "host" => stp'[s] = [IdleStop EXCEPT !.pc = "tick"]
    BY <1>0, <1>6 DEF StopForHost
  <2> QED BY <1>i, <1>k, <2>1, <2>2
<1>7. ASSUME NEW t \in Stoppers, StopAnswered(t) \/ StopJoined(t) PROVE StopOf(s)'
  <2>1. CASE t # s
    <3>1. stp'[s] = stp[s]
      BY <1>0, <1>7, <2>1 DEF StopAnswered, StopJoined, StopSecond, AfterStop
    <3> QED BY <1>k, <3>1
  <2>2. CASE t = s /\ StopAnswered(s)
    <3> DEFINE failed == stp[s].failed \/ prov[stp[s].gen] = "stuck"
               left   == LiveAfterStop(stp[s].gen)
    <3>1. failed \in BOOLEAN /\ left \in 0..gens
      BY <1>0 DEF LiveAfterStop, TypeOK, StopType
    <3>2. live' = left /\ gens' = gens /\ start' = start /\ stp[s].pc # "idle"
      BY <2>2 DEF StopAnswered
    <3>3. CASE stp' = [stp EXCEPT ![s].pc = "join", ![s].failed = failed] /\ UNCHANGED prov
               /\ stp[s].pc = "stop1"
      <4>1. stp'[s].pc = "join" /\ stp'[s].failed = failed /\ stp'[s].gen = stp[s].gen
        BY <1>0, <3>3 DEF StopType
      <4>2. stp[s].gen # 0 /\ prov'[stp[s].gen] \in Asked \cap Over /\ prov' = prov
            /\ prov[stp[s].gen] \in {"down", "stuck"}
        BY <1>0, <2>2, <3>3 DEF StopOf, StopAnswered, Asked, Over
      <4>3. ~failed => prov[stp[s].gen] = "down" /\ left # stp[s].gen
        BY <4>2 DEF LiveAfterStop
      <4> QED BY <1>0, <1>p, <3>2, <3>3, <4>1, <4>2, <4>3 DEF StopOf
    <3>4. CASE StopSecond(s, left, failed) /\ start.pc = "none"
      <4>1. left \notin {0, stp[s].gen} => live = left
        BY DEF LiveAfterStop
      <4> HIDE DEF failed, left
      <4> QED BY <1>p, <3>1, <3>2, <3>4, <4>1, StopSecondOf
    <3>5. CASE AfterStop(s, failed)
      <4> HIDE DEF failed, left
      <4> QED BY <1>p, <3>1, <3>2, <3>5, StopOverOf
    <3> QED BY <2>2, <3>3, <3>4, <3>5 DEF StopAnswered
  <2>3. CASE t = s /\ StopJoined(s)
    <3>1. /\ StopSecond(s, live, stp[s].failed) /\ stp[s].pc = "joined"
          /\ live' = live /\ gens' = gens /\ start' = start
      BY <2>3 DEF StopJoined
    <3>2. live # 0 => start.pc = "none"
      BY <1>0, <3>1 DEF StopOf, StartInv
    <3>3. live \in 0..gens /\ stp[s].failed \in BOOLEAN
      BY <1>0 DEF TypeOK, StopType
    <3> QED BY <1>p, <3>1, <3>2, <3>3, StopSecondOf
  <2> QED BY <1>7, <2>1, <2>2, <2>3
<1>8. ASSUME NEW t \in {"host", "close"}, Converges(t) PROVE StopOf(s)'
  <2>0. stp[t].pc # "idle" /\ (t # s => stp'[s] = stp[s])
    BY <1>0, <1>8 DEF Converges, AdmissionsDrained, MutationsDrained, Converged
  <2>1. CASE t = s /\ AdmissionsDrained(s)
    <3>1. stp'[s] = [stp[s] EXCEPT !.pc = "mutations"]
      BY <1>0, <2>1 DEF AdmissionsDrained
    <3> QED BY <1>0, <1>w, <2>0, <2>1, <3>1 DEF StopType
  <2>2. CASE t = s /\ MutationsDrained(s)
    <3>1. stp'[s].gen = stp[s].gen /\ stp'[s].pc = "reports"
      BY <1>0, <2>2 DEF MutationsDrained, StopType
    <3> QED BY <1>w, <2>0, <2>2, <3>1
  <2>3. CASE t = s /\ Converged(s)
    <3>1. stp'[s] = [IdleStop EXCEPT !.pc = "cleanup"] \/ stp'[s] = IdleStop
      BY <1>0, <2>3 DEF Converged
    <3> QED BY <1>i, <1>o, <2>0, <2>3, <3>1
  <2> QED BY <1>8, <1>k, <2>0, <2>1, <2>2, <2>3 DEF Converges
<1>9. CASE CleanedUp
  <2>1. s # "close" => stp'[s] = stp[s]
    BY <1>0, <1>9 DEF CleanedUp
  <2>2. CASE s = "close"
    <3>1. stp'[s] = IdleStop \/ (stp'[s].gen = stp[s].gen /\ stp'[s].pc = "write")
      BY <1>0, <1>9, <2>2 DEF CleanedUp, StopType
    <3>2. stp[s].pc # "idle"
      BY <1>9, <2>2 DEF CleanedUp
    <3> QED BY <1>o, <1>w, <3>1, <3>2
  <2> QED BY <1>k, <2>1, <2>2
<1>10. CASE CloseWritten
  <2>1. stp'[s] = stp[s] \/ stp'[s] = IdleStop
    BY <1>0, <1>10 DEF CloseWritten
  <2> QED BY <1>k, <1>o, <2>1
<1>11. CASE UNCHANGED stp
  BY <1>11, <1>k
<1> QED BY <1>1, <1>2, <1>3, <1>4, <1>5, <1>6, <1>7, <1>8, <1>9, <1>10, <1>11, NextRuns
        DEF RunStep, Saying, Starts, RuntimeDown, LastWord, RuntimeStops, TornDown, RuntimeStopFails

----------------------------------------
(* The state lease                                                         *)

\* A start that made a runtime is the only holder, and its runtime is not up yet.
LaunchInv ==
  start.pc \in {"launch", "rollback"} => live \in {0, start.gen} /\ prov[start.gen] # "up"

\* A runtime comes up only with the answer to its start.
LEMMA UpMoves ==
  ASSUME TypeOK, StartInv, Next, NEW g \in 1..gens, prov'[g] \in {"new", "up"}
  PROVE  \/ prov[g] = prov'[g]
         \/ RuntimeCreated /\ g = start.gen
         \/ RuntimeStarts /\ g = start.gen
<1>1. ASSUME NEW h \in Nat, AskStop(h) PROVE prov[g] = prov'[g]
  BY <1>1, AskMeans
<1>2. ASSUME NEW s, StopFirst(s) PROVE prov[g] = prov'[g]
  BY <1>1, <1>2, live \in Nat DEF StopFirst, rt, TypeOK
<1>3. ASSUME OpenGeneration PROVE prov[g] = prov'[g]
  BY <1>3 DEF OpenGeneration, TypeOK
<1>4. CASE StartAnswered
  <2>1. CASE RuntimeCreated \/ RuntimeStarts
    BY <2>1 DEF RuntimeCreated, RuntimeStarts, TypeOK
  <2>2. CASE StartFails
    BY <1>1, <2>2 DEF StartFails, StartInv, TypeOK
  <2> QED BY <1>4, <2>1, <2>2 DEF StartAnswered, CreateFails, RollbackStopped, RollbackUnproven
<1>5. CASE Starts \/ ReopenWritten
  BY <1>3, <1>5 DEF Starts, BeginStart, ReopenWritten
<1>6. CASE HostConverges \/ Close \/ \E o \in Ops : LoseStarted(o)
  BY <1>2, <1>6 DEF HostConverges, Close, LoseStarted, rt
<1>7. ASSUME NEW s \in Stoppers, StopAnswered(s) \/ StopJoined(s) PROVE prov[g] = prov'[g]
  <2>1. UNCHANGED prov \/ AskStop(LiveAfterStop(stp[s].gen)) \/ AskStop(live)
    BY <1>7 DEF StopAnswered, StopJoined, StopSecond
  <2>2. LiveAfterStop(stp[s].gen) \in Nat /\ live \in Nat
    BY DEF LiveAfterStop, TypeOK
  <2> QED BY <1>1, <2>1, <2>2
<1>8. CASE \E h \in 1..gens : RuntimeDown(h)
  BY <1>8 DEF RuntimeDown, LastWord, RuntimeStops, TornDown, RuntimeStopFails, TypeOK
<1>9. CASE UNCHANGED rt \/ Saying
  BY <1>9 DEF rt, Saying, TypeOK
<1> QED BY <1>4, <1>5, <1>6, <1>7, <1>8, <1>9, NextRuns DEF RunStep, StopForHost, CleanedUp,
           CloseWritten, Converges, AdmissionsDrained, MutationsDrained, Converged

LEMMA LaunchNext ==
  ASSUME TypeOK, StartInv, LaunchInv, Next, StartInv'
  PROVE  LaunchInv'
<1> SUFFICES ASSUME start'.pc \in {"launch", "rollback"}
             PROVE  live' \in {0, start'.gen} /\ prov'[start'.gen] # "up"
  BY DEF LaunchInv
<1>1. CASE RuntimeCreated
  <2>1. live' = start.gen /\ start'.gen = start.gen /\ prov'[start.gen] = "new"
    BY <1>1 DEF RuntimeCreated, StartInv, TypeOK, StartType
  <2> QED BY <2>1
<1>2. CASE ~RuntimeCreated
  <2>1. start'.gen = start.gen /\ start.pc \in {"launch", "rollback"}
    BY <1>2, StartMoves DEF StartFails
  <2>2. live' \in {0, start.gen}
    BY <1>2, <2>1, LiveMoves DEF LaunchInv
  <2>3. start.gen \in 1..gens /\ prov[start.gen] # "up"
    BY <2>1 DEF LaunchInv, StartInv
  <2>4. ~RuntimeStarts
    BY DEF RuntimeStarts, FlightEnds, NoStart
  <2> QED BY <1>2, <2>1, <2>2, <2>3, <2>4, UpMoves
<1> QED BY <1>1, <1>2

\* The lease is dropped only when no runtime may still publish through it.
LEMMA RevokeMoves ==
  ASSUME OwnershipInv, StopInv, LaunchInv, Next, NEW g \in 1..gens, authority = g, authority' # g
  PROVE  prov[g] \in {"none"} \cup Over
<1> USE DEF OwnershipInv
<1>0. ASSUME live = 0 \/ (live \in 1..gens /\ prov[live] \in Over) PROVE prov[g] \in {"none"} \cup Over
  BY <1>0 DEF RuntimeIsHeld, ProvStates, Over, TypeOK
<1>1. CASE StartAnswered
  <2>1. CASE CreateFails
    BY <1>0, <2>1 DEF CreateFails, StartInv
  <2>2. CASE RollbackStopped \/ RollbackUnproven
    BY <1>0, <2>2 DEF RollbackStopped, RollbackUnproven, LaunchInv, StartInv, Over
  <2> QED BY <1>1, <2>1, <2>2 DEF StartAnswered, RuntimeCreated, RuntimeStarts, StartFails
<1>2. CASE Starts \/ ReopenWritten
  BY <1>0, <1>2 DEF Starts, ReopenWritten, StartInv
<1>3. ASSUME NEW s, StopFirst(s) PROVE prov[g] \in {"none"} \cup Over
  BY <1>0, <1>3 DEF StopFirst, WhileStopping, rt
<1>4. CASE HostConverges \/ Close \/ \E o \in Ops : LoseStarted(o)
  BY <1>0, <1>3, <1>4 DEF HostConverges, Close, LoseStarted, rt
<1>5. ASSUME NEW s \in Stoppers, StopAnswered(s) \/ StopJoined(s)
      PROVE  prov[g] \in {"none"} \cup Over
  <2>1. StopOf(s)
    BY DEF StopInv
  <2>2. CASE StopJoined(s)
    BY <1>0, <2>1, <2>2 DEF StopJoined, StopSecond, StopOf, TypeOK
  <2>3. CASE StopAnswered(s)
    <3>1. prov[stp[s].gen] \in Over /\ stp[s].gen # 0
      BY <2>1, <2>3 DEF StopAnswered, StopOf, Over
    <3>2. LiveAfterStop(stp[s].gen) \in {live, 0} /\ (live # 0 /\ LiveAfterStop(stp[s].gen) = 0 => live = stp[s].gen)
      BY DEF LiveAfterStop
    <3>3. live \in {0, stp[s].gen}
      BY <2>1, <2>3, <3>2 DEF StopAnswered, StopSecond, StopOf
    <3> QED BY <1>0, <3>1, <3>3 DEF TypeOK
  <2> QED BY <1>5, <2>2, <2>3
<1> QED BY <1>1, <1>2, <1>4, <1>5, NextRuns DEF RunStep, Saying, rt, StopForHost, CleanedUp,
           CloseWritten, Converges, AdmissionsDrained, MutationsDrained, Converged,
           RuntimeDown, LastWord, RuntimeStops, TornDown, RuntimeStopFails

\* A start with a runtime ends only with an answer of that runtime.
LEMMA StartLeaves ==
  ASSUME TypeOK, Next, start.pc \in {"launch", "rollback"}, start'.pc = "none"
  PROVE  RuntimeStarts \/ RollbackStopped \/ RollbackUnproven
<1>0. ~UNCHANGED start
  OBVIOUS
<1>1. CASE StartAnswered
  BY <1>1 DEF StartAnswered, RuntimeCreated, CreateFails, StartFails, TypeOK, StartType
<1>3. ASSUME NEW s, StopFirst(s) PROVE FALSE
  BY <1>0, <1>3 DEF StopFirst, rt
<1>4. CASE HostConverges \/ Close \/ \E o \in Ops : LoseStarted(o)
  BY <1>0, <1>3, <1>4 DEF HostConverges, Close, LoseStarted, rt
<1>5. CASE Starts \/ ReopenWritten
  BY <1>5 DEF Starts, ReopenWritten
<1>6. CASE \E s \in Stoppers : StopAnswered(s) \/ StopJoined(s)
  BY <1>0, <1>6 DEF StopAnswered, StopJoined
<1>7. CASE StopForHost \/ CleanedUp \/ CloseWritten \/ UNCHANGED rt \/ Saying
  BY <1>0, <1>7 DEF Saying, StopForHost, CleanedUp, CloseWritten, rt
<1>8. CASE \E s \in {"host", "close"} : Converges(s)
  BY <1>0, <1>8 DEF Converges, AdmissionsDrained, MutationsDrained, Converged, rt
<1>9. CASE \E g \in 1..gens : RuntimeDown(g)
  BY <1>0, <1>9 DEF RuntimeDown, LastWord, RuntimeStops, TornDown, RuntimeStopFails
<1> QED BY <1>1, <1>4, <1>5, <1>6, <1>7, <1>8, <1>9, NextRuns DEF RunStep

\* A runtime that only waits for its last word has its lease.
LeaseInv == \A g \in 1..gens : prov[g] = "ending" => authority = g

\* It is waiting from when it queued the word until that is written or refused.
LEMMA EndingMoves ==
  ASSUME TypeOK, StartInv, Next, NEW g \in 1..gens, prov[g] = "ending" \/ prov'[g] = "ending"
  PROVE  \/ prov'[g] = prov[g]
         \/ LastWord(g)
         \/ prov[g] = "ending" /\ (WriteBegins \/ StatusWritten) /\ SaidLast
<1>1. ASSUME NEW h \in Nat, AskStop(h) PROVE prov'[g] = prov[g]
  BY <1>1, AskMeans
<1>2. ASSUME NEW s, StopFirst(s) PROVE prov'[g] = prov[g]
  BY <1>1, <1>2, live \in Nat DEF StopFirst, rt, TypeOK
<1>3. ASSUME OpenGeneration PROVE prov'[g] = prov[g]
  BY <1>3 DEF OpenGeneration, TypeOK
<1>4. CASE StartAnswered
  <2>1. CASE RuntimeCreated \/ RuntimeStarts
    BY <2>1 DEF RuntimeCreated, RuntimeStarts, StartInv, TypeOK
  <2>2. CASE StartFails
    BY <1>1, <2>2 DEF StartFails, StartInv, TypeOK
  <2> QED BY <1>4, <2>1, <2>2 DEF StartAnswered, CreateFails, RollbackStopped, RollbackUnproven
<1>5. CASE Starts \/ ReopenWritten
  BY <1>3, <1>5 DEF Starts, BeginStart, ReopenWritten
<1>6. CASE HostConverges \/ Close \/ \E o \in Ops : LoseStarted(o)
  BY <1>2, <1>6 DEF HostConverges, Close, LoseStarted, rt
<1>7. ASSUME NEW s \in Stoppers, StopAnswered(s) \/ StopJoined(s) PROVE prov'[g] = prov[g]
  <2>1. UNCHANGED prov \/ AskStop(LiveAfterStop(stp[s].gen)) \/ AskStop(live)
    BY <1>7 DEF StopAnswered, StopJoined, StopSecond
  <2>2. LiveAfterStop(stp[s].gen) \in Nat /\ live \in Nat
    BY DEF LiveAfterStop, TypeOK
  <2> QED BY <1>1, <2>1, <2>2
<1>8. ASSUME NEW h \in 1..gens, RuntimeDown(h) PROVE prov'[g] = prov[g] \/ LastWord(g)
  BY <1>8 DEF RuntimeDown, LastWord, RuntimeStops, TornDown, RuntimeStopFails, TypeOK
<1>9. CASE UNCHANGED rt
  BY <1>9 DEF rt
<1>10. CASE Saying
  <2>1. ((WriteBegins \/ StatusWritten) /\ SaidLast) \/ prov' = prov
    BY <1>10 DEF Saying, WriteBegins, StatusWritten
  <2>2. prov'[g] = prov[g] \/ prov'[g] = "down"
    BY <1>10 DEF Saying, TypeOK
  <2> QED BY <2>1, <2>2
<1> QED BY <1>4, <1>5, <1>6, <1>7, <1>8, <1>9, <1>10, NextRuns DEF RunStep, StopForHost, CleanedUp,
           CloseWritten, Converges, AdmissionsDrained, MutationsDrained, Converged

LEMMA LeaseNext ==
  ASSUME OwnershipInv, StopInv, LaunchInv, LeaseInv, Next
  PROVE  LeaseInv'
<1> SUFFICES ASSUME NEW g \in 1..gens', prov'[g] = "ending" PROVE authority' = g
  BY DEF LeaseInv
<1>1. g \in 1..gens
  <2>1. CASE OpenGeneration
    BY <2>1 DEF OpenGeneration, OwnershipInv, TypeOK
  <2> QED BY <2>1, NextStart DEF StartStep, RuntimeCreated, StartFails, OwnershipInv
<1>2. CASE LastWord(g)
  BY <1>2 DEF LastWord, TornDown
<1>3. CASE prov[g] = "ending"
  BY <1>1, <1>3, RevokeMoves DEF LeaseInv, Over
<1> QED BY <1>1, <1>2, <1>3, EndingMoves DEF OwnershipInv

\* What LastWordBeforeRevoke says of a step.
LEMMA LastWordStep ==
  ASSUME OwnershipInv, StopInv, LaunchInv, LeaseInv, Next
  PROVE  LeaseStep
<1>0. writes \in Seq(WriteType) /\ TypeOK /\ StartInv
  BY DEF OwnershipInv, TypeOK
<1>1. ASSUME NEW g \in 1..gens, prov[g] = "ending", prov'[g] # "ending"
      PROVE  Head(writes) = [kind |-> "last", who |-> g, go |-> TRUE]
  <2>1. (WriteBegins \/ StatusWritten) /\ SaidLast
    BY <1>0, <1>1, EndingMoves DEF LastWord
  <2>2. Head(writes) \in WriteType
    <3>1. writes # <<>>
      BY <2>1 DEF WriteBegins, StatusWritten, Writing
    <3> QED BY <1>0, <3>1
  <2>3. Head(writes).kind = "last" /\ Head(writes).who = g
    BY <1>0, <1>1, <2>1 DEF SaidLast, TypeOK
  <2>4. ~Refused(Head(writes))
    BY <1>1, <2>3 DEF Refused, LeaseInv
  <2>5. Head(writes).go
    BY <1>1, <2>1, <2>4 DEF WriteBegins, StatusWritten, Writing
  <2> QED BY <2>2, <2>3, <2>5 DEF WriteType, Words
<1>2. ASSUME writes # <<>>, Head(writes).kind \in Words, ~Head(writes).go,
             writes' = [writes EXCEPT ![1].go = TRUE]
      PROVE  authority = Head(writes).who
  <2>1. Len(writes') = Len(writes) /\ Len(writes) \in Nat
    BY <1>0, <1>2, BeginFacts
  <2>2. Head(writes) = writes[1] /\ 1 \in 1..Len(writes) /\ writes \in [1..Len(writes) -> WriteType]
    BY <1>0, <1>2
  <2>3. writes' # writes
    <3>1. writes[1] \in WriteType /\ writes'[1] = [writes[1] EXCEPT !.go = TRUE]
      BY <1>2, <2>2
    <3>2. writes'[1].go = TRUE
      BY <3>1 DEF WriteType
    <3> QED BY <1>2, <2>2, <3>2
  <2>4. \A kind, who : writes' # Queue(kind, who)
    BY <1>0, <2>1 DEF Queue
  <2>5. writes' # Tail(writes)
    <3>1. Len(Tail(writes)) = Len(writes) - 1
      BY <1>0, <1>2
    <3> QED BY <2>1, <3>1
  <2>6. WriteBegins
    BY <2>3, <2>4, <2>5, NextWrites DEF WriteStep
  <2> QED BY <1>2, <2>5, <2>6 DEF WriteBegins, Refused
<1> QED BY <1>1, <1>2, RevokeMoves DEF LeaseStep, Over

----------------------------------------
(* No report of a stopped turn                                             *)

\* What a step does to one stopper.
StopStep(s) ==
  \/ stp'[s] = stp[s]
  \/ stp[s].pc \in {"idle", "tick"} /\ StopFirst(s)
  \/ s = "host" /\ StopForHost
  \/ stp[s].pc = "join" /\ stp'[s] = [stp[s] EXCEPT !.pc = "joined"]
  \/ StopAnswered(s) \/ StopJoined(s)
  \/ s \in {"host", "close"} /\ Converges(s)
  \/ s = "close" /\ (CleanedUp \/ CloseWritten)

LEMMA NextStops ==
  ASSUME TypeOK, LoseInv, Next, NEW s \in Stoppers
  PROVE  StopStep(s)
<1> USE DEF StopStep
<1>0. stp \in [Stoppers -> StopType]
  BY DEF TypeOK
<1>f. ASSUME NEW outcome, FlightEnds(outcome) PROVE StopStep(s)
  BY <1>f DEF FlightEnds
<1>1. CASE StartAnswered \/ ReopenWritten
  BY <1>1, <1>f DEF StartAnswered, RuntimeCreated, CreateFails, RuntimeStarts, StartFails,
     RollbackStopped, RollbackUnproven, ReopenWritten
<1>2. ASSUME NEW o \in Ops, LoseStarted(o) PROVE StopStep(s)
  <2>1. CASE s = o
    BY <1>2, <2>1 DEF LoseStarted, LoseInv
  <2> QED BY <1>0, <1>2, <2>1 DEF LoseStarted, StopFirst
<1>3. CASE HostConverges \/ Close \/ StopForHost
  BY <1>0, <1>3 DEF HostConverges, Close, StopForHost, StopFirst, Closing
<1>4. ASSUME NEW t \in Stoppers, StopAnswered(t) \/ StopJoined(t) PROVE StopStep(s)
  BY <1>0, <1>4 DEF StopAnswered, StopJoined, StopSecond, AfterStop
<1>5. ASSUME NEW t \in {"host", "close"}, Converges(t) PROVE StopStep(s)
  BY <1>0, <1>5 DEF Converges, AdmissionsDrained, MutationsDrained, Converged
<1>6. CASE CleanedUp \/ CloseWritten
  BY <1>0, <1>6 DEF CleanedUp, CloseWritten
<1> QED BY <1>1, <1>2, <1>3, <1>4, <1>5, <1>6, NextRuns
        DEF RunStep, Saying, Starts, RuntimeDown, LastWord, RuntimeStops, TornDown, RuntimeStopFails

\* A runtime is asked to stop while the entity is active only by a host stop or by
\* the rollback of a failed start.
StoppingInv ==
  \A g \in 1..gens : prov[g] \in Stops =>
    \/ phase # "active"
    \/ stp["host"].pc \in {"stop1", "stop2"} /\ stp["host"].gen = g
    \/ start.pc = "rollback" /\ start.gen = g

LEMMA AskMoves ==
  ASSUME OwnershipInv, StopInv, Next, phase' = "active",
         NEW g \in 1..gens', prov'[g] \in Stops, g \in 1..gens => prov[g] \notin Stops
  PROVE  \/ stp'["host"].pc \in {"stop1", "stop2"} /\ stp'["host"].gen = g
         \/ start'.pc = "rollback" /\ start'.gen = g
<1> USE DEF OwnershipInv, Stops
<1>0. stp \in [Stoppers -> StopType] /\ "host" \in Stoppers /\ phase = "active"
  BY PhaseStable DEF TypeOK, Stoppers
<1>1. ASSUME NEW h \in Nat, AskStop(h), gens' = gens PROVE g = h
  BY <1>1, AskMeans
<1>2. ASSUME OpenGeneration PROVE FALSE
  BY <1>2 DEF OpenGeneration, TypeOK
<1>3. CASE StartFails
  <2>1. g = start.gen
    BY <1>1, <1>3 DEF StartFails, TypeOK, StartType
  <2> QED BY <1>3, <2>1 DEF StartFails, TypeOK, StartType
<1>4. CASE StartAnswered /\ ~StartFails
  <2>1. CASE RuntimeCreated \/ RuntimeStarts
    BY <2>1 DEF RuntimeCreated, RuntimeStarts, TypeOK
  <2> QED BY <1>4, <2>1 DEF StartAnswered, CreateFails, RollbackStopped, RollbackUnproven
<1>5. CASE Starts \/ ReopenWritten
  BY <1>2, <1>5 DEF Starts, BeginStart, ReopenWritten
<1>6. CASE HostConverges
  <2>1. AskStop(live) /\ gens' = gens
        /\ stp' = [stp EXCEPT !["host"] = [pc |-> "stop1", gen |-> live, failed |-> FALSE]]
    BY <1>6 DEF HostConverges, StopFirst, rt
  <2>2. g = live
    BY <1>1, <2>1 DEF TypeOK
  <2> QED BY <1>0, <2>1, <2>2
<1>7. CASE Close \/ \E o \in Ops : LoseStarted(o)
  BY <1>0, <1>7 DEF Close, LoseStarted, rt
<1>8. ASSUME NEW s \in Stoppers, StopAnswered(s) \/ StopJoined(s)
      PROVE  stp'["host"].pc \in {"stop1", "stop2"} /\ stp'["host"].gen = g
  <2>1. s = "host"
    BY <1>0, <1>8 DEF StopInv, StopOf, StopAnswered, StopJoined
  <2>2. PICK left \in Nat : /\ AskStop(left) /\ gens' = gens
                            /\ \E failed : stp' = [stp EXCEPT ![s] = [pc |-> "stop2", gen |-> left, failed |-> failed]]
    <3>1. LiveAfterStop(stp[s].gen) \in Nat /\ live \in Nat
      BY DEF LiveAfterStop, TypeOK
    <3>2. CASE StopJoined(s)
      BY <3>1, <3>2 DEF StopJoined, StopSecond
    <3>3. CASE StopAnswered(s)
      BY <3>1, <3>3 DEF StopAnswered, StopSecond
    <3> QED BY <1>8, <3>2, <3>3
  <2>3. g = left
    BY <1>1, <2>2
  <2> QED BY <1>0, <2>1, <2>2, <2>3
<1>9. CASE \E h \in 1..gens : RuntimeDown(h)
  BY <1>9 DEF RuntimeDown, LastWord, RuntimeStops, TornDown, RuntimeStopFails, TypeOK
<1>10. CASE UNCHANGED rt \/ Saying
  BY <1>10 DEF rt, Saying, TypeOK
<1> QED BY <1>3, <1>4, <1>5, <1>6, <1>7, <1>8, <1>9, <1>10, NextRuns DEF RunStep, StopForHost,
           CleanedUp, CloseWritten, Converges, AdmissionsDrained, MutationsDrained, Converged

LEMMA StoppingNext ==
  ASSUME OwnershipInv, LoseInv, StopInv, StoppingInv, Next
  PROVE  StoppingInv'
<1> USE DEF OwnershipInv
<1> SUFFICES ASSUME NEW g \in 1..gens', prov'[g] \in Stops, phase' = "active",
                    g \in 1..gens, prov[g] \in Stops
             PROVE  \/ stp'["host"].pc \in {"stop1", "stop2"} /\ stp'["host"].gen = g
                    \/ start'.pc = "rollback" /\ start'.gen = g
  BY AskMoves DEF StoppingInv
<1>0. phase = "active" /\ "host" \in Stoppers
  BY PhaseStable DEF Stoppers
<1>1. CASE stp["host"].pc \in {"stop1", "stop2"} /\ stp["host"].gen = g
  <2>1. ~StopAnswered("host") /\ ~StopJoined("host") /\ ~Converges("host") /\ ~StopForHost
    BY <1>1 DEF StopAnswered, StopJoined, Converges, AdmissionsDrained, MutationsDrained,
       Converged, StopForHost, HostStopping, Stops
  <2>2. stp'["host"] = stp["host"]
    BY <1>0, <1>1, <2>1, NextStops DEF StopStep
  <2> QED BY <1>1, <2>2
<1>2. CASE start.pc = "rollback" /\ start.gen = g
  <2>1. ~RuntimeStarts /\ ~RollbackStopped /\ ~RollbackUnproven
    BY <1>2 DEF RuntimeStarts, RollbackStopped, RollbackUnproven, Stops
  <2>2. start'.pc # "none"
    BY <1>2, <2>1, StartLeaves
  <2>3. start' = start
    BY <1>2, <2>2, NextStart DEF StartStep, OpenGeneration, RuntimeCreated, StartFails, NoStart
  <2> QED BY <1>2, <2>3
<1> QED BY <1>0, <1>1, <1>2 DEF StoppingInv

\* No turn was given to a runtime that is not up yet.
FreshInv ==
  start.pc \in {"create", "launch", "rollback"} =>
    \A o \in Ops : op[o].gen = start.gen => op[o].res # "pending" /\ op[o].sett # "open"

LEMMA FreshNext ==
  ASSUME OwnershipInv, TurnInv, LaunchInv, FreshInv, Next, StartInv'
  PROVE  FreshInv'
<1> USE DEF OwnershipInv
<1> SUFFICES ASSUME start'.pc \in {"create", "launch", "rollback"},
                    NEW o \in Ops, op'[o].gen = start'.gen
             PROVE  op'[o].res # "pending" /\ op'[o].sett # "open"
  BY DEF FreshInv
<1>t. op[o] \in OpType /\ op[o].gen \in 0..gens /\ TurnOf(o) /\ gens \in Nat
  BY DEF TypeOK, TurnInv, TurnOf
<1>1. CASE start.pc \notin {"create", "launch", "rollback"}
  <2>1. start'.gen = gens + 1 /\ gens' = gens + 1 /\ OpenGeneration
    BY <1>1, NextStart DEF StartStep, OpenGeneration, RuntimeCreated, StartFails, NoStart
  <2>2. op'[o].gen # op[o].gen
    BY <1>t, <2>1
  <2>3. op'[o].gen \in {0, live}
    BY <1>t, <2>2, NextTurns DEF TurnStep, Fresher, Given, Attached, Reacted, Answered, Settled,
       Ended, OpType
  <2> QED BY <2>1, <2>3, live \in 0..gens DEF TypeOK
<1>2. CASE start.pc \in {"create", "launch", "rollback"}
  <2>1. start'.gen = start.gen
    BY <1>2, NextStart DEF StartStep, OpenGeneration, RuntimeCreated, StartFails, NoStart, TypeOK, StartType
  <2>2. op[o].gen = start.gen => op[o].res # "pending" /\ op[o].sett # "open"
    BY <1>2 DEF FreshInv
  <2>3. start.gen # 0
    BY <1>2 DEF StartInv
  <2>4. CASE Given(o)
    <3>1. live = start.gen /\ prov[live] # "up"
      BY <1>2, <2>1, <2>4 DEF Given, LaunchInv, StartInv
    <3> QED BY <2>4, <3>1 DEF Given
  <2>5. CASE Fresher(o)
    BY <2>5 DEF Fresher
  <2>6. CASE ~Given(o) /\ ~Fresher(o)
    BY <1>t, <2>1, <2>2, <2>6, NextTurns DEF TurnStep, Attached, Reacted, Answered, Settled, Ended, OpType
  <2> QED BY <2>4, <2>5, <2>6
<1> QED BY <1>1, <1>2

\* A host stop waits for its reports only after the submissions it counted left.
HostReports == stp["host"].pc = "reports" => Mutating = {}

LEMMA HostReportsNext ==
  ASSUME TypeOK, LoseInv, HostReports, Next
  PROVE  HostReports'
<1>0. stp \in [Stoppers -> StopType] /\ "host" \in Stoppers
  BY DEF TypeOK, Stoppers
<1> SUFFICES ASSUME stp'["host"].pc = "reports", NEW o \in Ops, Counted(o)' PROVE FALSE
  BY DEF HostReports, Mutating, Counted
<1>1. CASE stp'["host"] = stp["host"]
  <2>1. ~Writable /\ ~Counted(o)
    BY <1>1 DEF Writable, HostStopping, HostReports, Mutating, Counted
  <2> QED BY <2>1, FencedCounted
<1>2. CASE StopAnswered("host") \/ StopJoined("host")
  <2>1. \E pc \in {"join", "stop2", "drain", "idle"} : stp'["host"].pc = pc
    <3>1. CASE StopAnswered("host")
      BY <1>0, <3>1 DEF StopAnswered, StopSecond, AfterStop, IdleStop, StopType
    <3>2. CASE StopJoined("host")
      BY <1>0, <3>2 DEF StopJoined, StopSecond, AfterStop, IdleStop, StopType
    <3> QED BY <1>2, <3>1, <3>2
  <2> QED BY <2>1
<1>3. CASE stp'["host"] # stp["host"] /\ ~StopAnswered("host") /\ ~StopJoined("host")
  <2>1. ~StopFirst("host") /\ ~StopForHost
    BY <1>0 DEF StopFirst, StopForHost, IdleStop
  <2>2. ~AdmissionsDrained("host") /\ ~Converged("host")
    BY <1>0 DEF AdmissionsDrained, Converged, IdleStop, StopType
  <2>3. stp'["host"].pc # "joined"
    OBVIOUS
  <2>4. stp["host"].pc = "join" => stp'["host"] # [stp["host"] EXCEPT !.pc = "joined"]
    BY <1>0, <2>3 DEF StopType
  <2>5. MutationsDrained("host")
    BY <1>3, <2>1, <2>2, <2>4, NextStops, <1>0 DEF StopStep, Converges
  <2> QED BY <2>5 DEF MutationsDrained, Mutating, Counted
<1> QED BY <1>1, <1>2, <1>3

\* A turn that was ended by a stop and has not been reacted to was ended by a stop
\* of the whole entity, and the host is still in it.
StoppedInv ==
  \A o \in Ops :
    op[o].kind = "send" /\ op[o].sett = "stopped" /\ op[o].pc \in {"submitting", "attached"}
      => phase # "active" \/ HostStopping

\* A host stop ends when its reports are done.
LEMMA HostLeaves ==
  ASSUME TypeOK, LoseInv, Next, HostStopping, ~HostStopping'
  PROVE  Converged("host")
<1>0. stp \in [Stoppers -> StopType] /\ "host" \in Stoppers /\ "host" \notin Ops
  BY EntityAssumption DEF TypeOK, Stoppers, EntityAssumption
<1>1. CASE StopAnswered("host")
  BY <1>0, <1>1 DEF StopAnswered, StopSecond, AfterStop, StopType, HostStopping
<1>2. CASE StopJoined("host")
  BY <1>0, <1>2 DEF StopJoined, StopSecond, AfterStop, StopType, HostStopping
<1>3. ~StopFirst("host") /\ ~StopForHost
  BY <1>0 DEF StopFirst, StopForHost, IdleStop, HostStopping
<1>4. ~AdmissionsDrained("host") /\ ~MutationsDrained("host")
  BY <1>0 DEF AdmissionsDrained, MutationsDrained, StopType, HostStopping
<1>5. stp["host"].pc = "join" => stp'["host"] # [stp["host"] EXCEPT !.pc = "joined"]
  BY <1>0 DEF StopType, HostStopping
<1> QED BY <1>0, <1>1, <1>2, <1>3, <1>4, <1>5, NextStops DEF StopStep, HostStopping, Converges

LEMMA StoppedNext ==
  ASSUME OwnershipInv, TurnInv, StoppingInv, FreshInv, HostReports, StoppedInv, Next
  PROVE  StoppedInv'
<1> USE DEF OwnershipInv
<1> SUFFICES ASSUME NEW o \in Ops, op'[o].kind = "send", op'[o].sett = "stopped",
                    op'[o].pc \in {"submitting", "attached"}, phase' = "active", ~HostStopping'
             PROVE  FALSE
  BY DEF StoppedInv
<1>t. op[o] \in OpType /\ TurnOf(o) /\ phase = "active"
  BY PhaseStable DEF TypeOK, TurnInv, TurnOf
<1>1. CASE Ended(o)
  <2>1. start.pc # "rollback" \/ start.gen # op[o].gen
    BY <1>1 DEF Ended, FreshInv
  <2>2. stp["host"].pc \in {"stop1", "stop2"}
    BY <1>1, <1>t, <2>1 DEF Ended, StoppingInv, Dies
  <2>3. HostStopping'
    BY <1>1, <2>2 DEF Ended, Dies, TornDown, HostStopping
  <2> QED BY <2>3
<1>2. CASE ~Ended(o)
  <2>1. op[o].kind = "send" /\ op[o].sett = "stopped" /\ op[o].pc \in {"submitting", "attached"}
    BY <1>2, <1>t, NextTurns DEF TurnStep, Fresher, Given, Attached, Reacted, Answered, Settled, OpType
  <2>2. HostStopping
    BY <1>t, <2>1 DEF StoppedInv
  <2>3. Converged("host")
    BY <2>2, HostLeaves DEF TurnInv
  <2>4. op[o].pc = "submitting"
    BY <2>1, <2>3 DEF Converged, Quiet, Ready
  <2>5. o \in Mutating
    BY <2>1, <2>4 DEF Mutating, Busy
  <2> QED BY <2>3, <2>5 DEF Converged, HostReports
<1> QED BY <1>1, <1>2

\* A report that was begun is of a turn the stop did not end.
LEMMA ReportNext ==
  ASSUME TypeOK, TurnInv, StoppedInv, NoReportOfStoppedTurn, Next
  PROVE  NoReportOfStoppedTurn'
<1> SUFFICES ASSUME NEW o \in Ops, rep'[o] # "no", op'[o].sett = "stopped" PROVE FALSE
  BY DEF NoReportOfStoppedTurn
<1>t. op[o] \in OpType /\ TurnOf(o)
  BY DEF TypeOK, TurnInv, TurnOf
<1>1. CASE rep[o] # "no"
  <2>1. op[o].pc = "done" /\ op[o].sett \notin {"open", "stopped"}
    BY <1>1, <1>t DEF TurnOf, NoReportOfStoppedTurn
  <2> QED BY <1>t, <2>1, NextTurns DEF TurnStep, Fresher, Given, Attached, Reacted, Answered, Settled,
          Ended, Early, OpType
<1>2. CASE rep[o] = "no"
  <2>1. OpStep
    BY NextOps DEF TurnInv
  <2>2. React(o)
    BY <1>2, <2>1 DEF OpStep, Enters, Relocks, Submits, Moves, Attach, React, ReportEnds,
       RuntimeAdmits, RuntimeSettles, Dies, TornDown, rest, TypeOK
  <2>3. op[o].kind = "send" /\ Owes
    BY <1>2, <2>2 DEF React
  <2>4. op[o].pc = "attached" /\ op'[o].sett = op[o].sett
    BY <1>t, <2>2 DEF React, At, TypeOK, OpType
  <2> QED BY <2>3, <2>4 DEF StoppedInv, Owes
<1> QED BY <1>1, <1>2

----------------------------------------
(* The turns of submissions: preservation                                  *)

\* A submission that stops a runtime goes on when that is over.
LEMMA LosingLeaves ==
  ASSUME TypeOK, LineInv, Next, NEW o \in Ops, op[o].pc = "losing", op'[o].pc # "losing"
  PROVE  stp'[o] = IdleStop
<1>0. op \in [Ops -> OpType] /\ stp \in [Stoppers -> StopType]
  BY DEF TypeOK
<1>a. ASSUME NEW p \in Ops, NEW pc, op' = At(p, pc), op[p].pc # "losing" PROVE FALSE
  BY <1>0, <1>a DEF At
<1>b. ASSUME NEW p \in Ops, Submit(p), op[p].pc # "losing" PROVE FALSE
  BY <1>0, <1>a, <1>b DEF Submit
<1>c. ASSUME NEW outcome, FlightEnds(outcome) PROVE FALSE
  BY <1>0, <1>c DEF FlightEnds
<1>1. ASSUME NEW p \in Ops, OpContinues(p) PROVE FALSE
  <2>1. CASE PushPrepares(p)
    BY <1>a, <2>1 DEF PushPrepares
  <2>2. CASE PushSubmits(p)
    BY <1>a, <2>2 DEF PushSubmits
  <2>3. CASE Admit(p)
    BY <1>a, <1>b, <2>3 DEF Admit, EnsureStarted
  <2>4. CASE ContinueStarted(p)
    <3>1. op' # [op EXCEPT ![p].pc = "entered", ![p].kind = "relocked"]
      BY <1>0, <2>4 DEF ContinueStarted
    <3> QED BY <1>a, <1>b, <2>4, <3>1 DEF ContinueStarted
  <2>5. CASE LoseStarted(p)
    BY <1>a, <2>5 DEF LoseStarted
  <2>6. CASE React(p)
    BY <1>a, <2>6 DEF React
  <2> QED BY <1>1, <2>1, <2>2, <2>3, <2>4, <2>5, <2>6 DEF OpContinues
<1>2. ASSUME NEW p \in Ops, (\E k \in Kinds : Enter(p, k)) \/ EnterLocked(p) PROVE FALSE
  BY <1>0, <1>2 DEF Enter, EnterLocked
<1>3. ASSUME NEW p \in Ops, \/ PushBodyBuilt(p) \/ ReportEnds(p) \/ RuntimeAdmits(p) \/ RuntimeSettles(p)
      PROVE  FALSE
  <2>1. ~PushBodyBuilt(p)
    BY <1>a DEF PushBodyBuilt
  <2>2. ~RuntimeAdmits(p)
    BY <1>0 DEF RuntimeAdmits, OpType
  <2>3. ~RuntimeSettles(p)
    BY <1>0 DEF RuntimeSettles, OpType
  <2> QED BY <1>3, <2>1, <2>2, <2>3 DEF ReportEnds
<1>4. ASSUME NEW s \in Stoppers, StopAnswered(s) \/ StopJoined(s) PROVE stp'[o] = IdleStop
  <2>1. \E failed : AfterStop(s, failed)
    BY <1>4 DEF StopAnswered, StopJoined, StopSecond
  <2>2. s = o
    BY <1>0, <2>1 DEF AfterStop, At
  <2> QED BY <1>0, <2>1, <2>2 DEF AfterStop
<1>5. CASE StartAnswered
  BY <1>c, <1>5 DEF StartAnswered, RuntimeCreated, CreateFails, RuntimeStarts, StartFails,
     RollbackStopped, RollbackUnproven
<1>6. CASE StoreAnswers
  <2>1. CASE IntentWritten
    <3>1. op[Head(writes).who].pc = "intent" /\ writes # <<>> /\ Head(writes).kind = "intent"
      BY <2>1 DEF IntentWritten, Writing
    <3>2. Head(writes) \in WriteType
      BY <3>1 DEF TypeOK
    <3>3. Head(writes).who \in Ops
      BY <3>1, <3>2 DEF WriteType, Words
    <3> QED BY <1>a, <1>b, <2>1, <3>1, <3>3 DEF IntentWritten
  <2> QED BY <1>6, <1>c, <2>1 DEF StoreAnswers, StatusWritten, ReopenWritten, CloseWritten
<1>7. CASE Attach
  <2>1. Head(line) \in Ops
    BY <1>7 DEF Attach, TypeOK
  <2>2. op[Head(line)].pc # "losing"
    BY <1>7 DEF Attach, LineInv, TypeOK
  <2> QED BY <1>7, <1>a, <2>1, <2>2 DEF Attach
<1>8. CASE WriteBegins \/ HostConverges \/ CleanedUp \/ Lock \/ Unlock \/ StopForHost \/ Close
  BY <1>8 DEF WriteBegins, HostConverges, CleanedUp, Lock, Unlock, StopForHost, Close
<1>9. ASSUME NEW s \in {"host", "close"}, Converges(s) PROVE FALSE
  BY <1>9 DEF Converges, AdmissionsDrained, MutationsDrained, Converged
<1>10. ASSUME NEW g \in 1..gens, RuntimeDown(g) \/ Publish(g) PROVE FALSE
  <2>1. op'[o] = op[o] \/ op'[o] = [op[o] EXCEPT !.sett = "stopped"]
    BY <1>10 DEF RuntimeDown, LastWord, RuntimeStops, TornDown, RuntimeStopFails, Publish
  <2> QED BY <1>0, <2>1 DEF OpType
<1> QED BY <1>1, <1>2, <1>3, <1>4, <1>5, <1>6, <1>7, <1>8, <1>9, <1>10 DEF Next

LEMMA LoseNext ==
  ASSUME TypeOK, LineInv, LoseInv, Next
  PROVE  LoseInv'
<1> SUFFICES ASSUME NEW o \in Ops, stp'[o].pc # "idle" PROVE op'[o].pc = "losing"
  BY DEF LoseInv
<1>0. /\ op \in [Ops -> OpType] /\ stp \in [Stoppers -> StopType] /\ o \in Stoppers
      /\ o \notin {"host", "close"}
  BY EntityAssumption DEF TypeOK, Stoppers, EntityAssumption
<1>1. CASE stp[o].pc # "idle"
  BY <1>1, LosingLeaves DEF LoseInv, IdleStop
<1>2. CASE stp[o].pc = "idle"
  <2>1. stp'[o] # stp[o]
    BY <1>2
  <2>2. ASSUME NEW outcome, FlightEnds(outcome) PROVE FALSE
    BY <1>0, <1>2, <2>1, <2>2 DEF FlightEnds
  <2>3. CASE StartAnswered \/ ReopenWritten
    BY <2>1, <2>2, <2>3 DEF StartAnswered, RuntimeCreated, CreateFails, RuntimeStarts, StartFails,
       RollbackStopped, RollbackUnproven, ReopenWritten
  <2>4. ASSUME NEW p \in Ops, LoseStarted(p) PROVE op'[o].pc = "losing"
    <3>1. p = o /\ op' = At(o, "losing")
      BY <1>0, <2>1, <2>4 DEF LoseStarted, StopFirst
    <3> QED BY <1>0, <3>1 DEF At, OpType
  <2>5. CASE HostConverges \/ Close \/ StopForHost
    BY <1>0, <2>1, <2>5 DEF HostConverges, Close, StopForHost, StopFirst
  <2>6. ASSUME NEW t \in Stoppers, StopAnswered(t) \/ StopJoined(t) PROVE FALSE
    <3>1. t = o
      BY <1>0, <2>1, <2>6 DEF StopAnswered, StopJoined, StopSecond, AfterStop
    <3> QED BY <1>2, <2>6, <3>1 DEF StopAnswered, StopJoined
  <2>7. ASSUME NEW t \in {"host", "close"}, Converges(t) PROVE FALSE
    BY <1>0, <2>1, <2>7 DEF Converges, AdmissionsDrained, MutationsDrained, Converged
  <2>8. CASE CleanedUp \/ CloseWritten
    BY <1>0, <2>1, <2>8 DEF CleanedUp, CloseWritten
  <2> QED BY <2>1, <2>3, <2>4, <2>5, <2>6, <2>7, <2>8, NextRuns
          DEF RunStep, Saying, Starts, RuntimeDown, LastWord, RuntimeStops, TornDown, RuntimeStopFails
<1> QED BY <1>1, <1>2

\* A submission waits for the runtime's answer until its continuation attaches it.
LEMMA SubmittingStays ==
  ASSUME TypeOK, TurnInv, Next, NEW o \in Ops, op[o].pc = "submitting", op'[o].pc # "submitting"
  PROVE  Attach /\ o = Head(line)
<1>0. OpStep /\ op \in [Ops -> OpType]
  BY NextOps DEF TurnInv, TypeOK
<1>1. ASSUME NEW p \in Ops, Enters(p) \/ Relocks(p) \/ Submits(p) \/ \E pc \in OpPcs : Moves(p, pc)
      PROVE  FALSE
  <2>1. op[p].pc # "submitting"
    BY <1>1 DEF Enters, Relocks, Submits, Moves, Early
  <2> QED BY <1>0, <1>1, <2>1 DEF Enters, Relocks, Submits, Submit, Moves, At
<1>2. ASSUME NEW outcome, FlightEnds(outcome) PROVE FALSE
  BY <1>0, <1>2 DEF FlightEnds
<1>3. ASSUME NEW p \in Ops, React(p) \/ ReportEnds(p) \/ RuntimeAdmits(p) \/ RuntimeSettles(p)
      PROVE  FALSE
  <2>1. ~React(p) /\ ~ReportEnds(p)
    BY <1>0 DEF React, ReportEnds, At
  <2>2. ~RuntimeAdmits(p)
    BY <1>0 DEF RuntimeAdmits, OpType
  <2>3. ~RuntimeSettles(p)
    BY <1>0 DEF RuntimeSettles, OpType
  <2> QED BY <1>3, <2>1, <2>2, <2>3
<1>4. ASSUME NEW g \in 1..gens, Dies(g) PROVE FALSE
  BY <1>0, <1>4 DEF Dies, TornDown, OpType
<1>5. Attach
  BY <1>0, <1>1, <1>2, <1>3, <1>4 DEF OpStep
<1>6. Head(line) \in Ops
  BY <1>5 DEF Attach, TypeOK
<1> QED BY <1>0, <1>5, <1>6 DEF Attach, At

LEMMA LineNext ==
  ASSUME TypeOK, TurnInv, Next
  PROVE  LineInv'
<1>0. OpStep /\ line \in Seq(Ops) /\ op \in [Ops -> OpType] /\ LineInv
  BY NextOps DEF TurnInv, TypeOK
<1>1. CASE Attach
  <2>1. /\ line' = Tail(line) /\ Len(line') = Len(line) - 1 /\ Len(line) \in Nat /\ Len(line) # 0
        /\ \A i \in 1..Len(line') : line'[i] = line[i + 1] /\ i + 1 \in 1..Len(line)
        /\ Head(line) = line[1] /\ 1 \in 1..Len(line)
    BY <1>0, <1>1 DEF Attach
  <2>2. ASSUME NEW i \in 1..Len(line') PROVE op'[line'[i]].pc = "submitting"
    <3>1. line[i + 1] # line[1]
      BY <1>0, <2>1 DEF LineInv
    <3>2. line[i + 1] \in Ops /\ op[line[i + 1]].pc = "submitting"
      BY <1>0, <2>1 DEF LineInv
    <3> QED BY <2>1, <3>1, <3>2, SubmittingStays
  <2>3. ASSUME NEW i \in 1..Len(line'), NEW j \in 1..Len(line'), line'[i] = line'[j] PROVE i = j
    BY <1>0, <2>1, <2>3 DEF LineInv
  <2> QED BY <2>2, <2>3 DEF LineInv
<1>2. CASE UNCHANGED line /\ ~Attach
  <2>1. \A i \in 1..Len(line) : line[i] \in Ops
    BY <1>0
  <2> QED BY <1>0, <1>2, <2>1, SubmittingStays DEF LineInv
<1>3. ASSUME NEW p \in Ops, Submits(p), ~UNCHANGED line PROVE LineInv'
  <2>1. line' = Append(line, p) /\ op[p].pc # "submitting" /\ op'[p].pc = "submitting"
    BY <1>0, <1>3 DEF Submits, Submit, Early, OpType
  <2>2. ~Attach
    <3>1. Len(line') = Len(line) + 1
      BY <1>0, <2>1
    <3>2. ASSUME Attach PROVE Len(line') = Len(line) - 1
      BY <1>0, <3>2 DEF Attach
    <3> QED BY <1>0, <3>1, <3>2
  <2>3. /\ Len(line') = Len(line) + 1 /\ Len(line) \in Nat
        /\ \A i \in 1..Len(line) : line'[i] = line[i] /\ line[i] \in Ops
        /\ line'[Len(line) + 1] = p
    BY <1>0, <2>1
  <2>4. ASSUME NEW i \in 1..Len(line') PROVE op'[line'[i]].pc = "submitting"
    <3>1. CASE i = Len(line) + 1
      BY <2>1, <2>3, <3>1
    <3>2. CASE i \in 1..Len(line)
      BY <1>0, <2>2, <2>3, <3>2, SubmittingStays DEF LineInv
    <3> QED BY <2>3, <3>1, <3>2
  <2>5. ASSUME NEW i \in 1..Len(line'), NEW j \in 1..Len(line'), line'[i] = line'[j] PROVE i = j
    <3>1. \A k \in 1..Len(line) : line'[k] # p
      BY <1>0, <2>1, <2>3 DEF LineInv
    <3>2. (i \in 1..Len(line) \/ i = Len(line) + 1) /\ (j \in 1..Len(line) \/ j = Len(line) + 1)
      BY <2>3
    <3> QED BY <1>0, <2>3, <2>5, <3>1, <3>2 DEF LineInv
  <2> QED BY <2>4, <2>5 DEF LineInv
<1> QED BY <1>0, <1>1, <1>2, <1>3 DEF OpStep, Enters, Relocks, Moves, React, ReportEnds,
           RuntimeAdmits, RuntimeSettles, Dies, TornDown

LEMMA TurnNext ==
  ASSUME OwnershipInv, TurnInv, Next
  PROVE  TurnInv'
<1> USE DEF OwnershipInv
<1>0. LineInv' /\ LoseInv'
  BY LineNext, LoseNext DEF TurnInv
<1>1. ASSUME NEW o \in Ops PROVE TurnOf(o)'
  <2>0. op[o] \in OpType /\ TurnOf(o) /\ rep \in [Ops -> {"no", "sending", "sent"}]
    BY DEF TypeOK, TurnInv
  <2>1. gens \in Nat /\ gens' \in Nat /\ gens <= gens' /\ live \in 0..gens
    BY GensGrow DEF TypeOK
  <2>2. /\ op'[o].gen \in 0..gens'
        /\ op'[o].res # "none" => op'[o].pc \in Past /\ op'[o].gen # 0
        /\ op'[o].pc \in {"submitting", "attached"} => op'[o].res # "none"
        /\ op'[o].sett # "none" => op'[o].res = "submitted"
        /\ op'[o].sett = "open" => op'[o].pc \in {"submitting", "attached"}
    <3>1. CASE op'[o] = op[o]
      BY <2>0, <2>1, <3>1 DEF TurnOf
    <3>2. CASE Fresher(o)
      BY <2>0, <2>1, <3>2 DEF TurnOf, Fresher
    <3>3. CASE Given(o)
      BY <2>0, <2>1, <3>3 DEF TurnOf, Given, Past
    <3>4. CASE Attached(o) \/ Reacted(o)
      <4>1. /\ op'[o].gen = op[o].gen /\ op'[o].res = op[o].res /\ op'[o].sett = op[o].sett
            /\ op'[o].pc \in {"attached", "stopped", "failed", "done"}
        BY <2>0, <3>4 DEF Attached, Reacted, OpType
      <4>2. op[o].sett = "open" => op'[o].pc = "attached"
        BY <2>0, <3>4 DEF Attached, Reacted, OpType, TurnOf
      <4>3. op[o].res # "none" /\ op[o].gen # 0
        BY <2>0, <3>4 DEF Attached, Reacted, TurnOf
      <4> QED BY <2>0, <2>1, <4>1, <4>2, <4>3 DEF TurnOf, Past
    <3>5. CASE Answered(o)
      BY <2>0, <2>1, <3>5 DEF TurnOf, Answered, OpType, Past
    <3>6. CASE Settled(o) \/ Ended(o)
      BY <2>0, <2>1, <3>6 DEF TurnOf, Settled, Ended, OpType, Past
    <3> QED BY <3>1, <3>2, <3>3, <3>4, <3>5, <3>6, NextTurns DEF TurnStep
  <2>3. ASSUME rep'[o] # "no" PROVE op'[o].pc = "done" /\ op'[o].res # "none"
    <3>1. CASE rep[o] # "no"
      <4>1. op[o].pc = "done" /\ op[o].res # "none" /\ op[o].sett # "open"
        BY <2>0, <3>1 DEF TurnOf
      <4>2. op'[o] = op[o]
        BY <4>1, NextTurns DEF TurnStep, Fresher, Given, Attached, Reacted, Answered, Settled,
           Ended, Early
      <4> QED BY <4>1, <4>2
    <3>2. CASE rep[o] = "no"
      <4>1. OpStep
        BY NextOps DEF TurnInv
      <4>2. React(o)
        BY <2>0, <2>3, <3>2, <4>1 DEF OpStep, Enters, Relocks, Submits, Moves, Attach, React,
           ReportEnds, RuntimeAdmits, RuntimeSettles, Dies, TornDown, rest
      <4>3. op'[o].pc = "done" /\ op'[o].res = op[o].res /\ op[o].pc = "attached"
        BY <2>0, <4>2 DEF React, At, TypeOK, OpType
      <4> QED BY <2>0, <4>3 DEF TurnOf
    <3> QED BY <3>1, <3>2
  <2> QED BY <2>2, <2>3 DEF TurnOf
<1> QED BY <1>0, <1>1 DEF TurnInv

----------------------------------------
(* The invariant of the runtime, its stoppers and the turns                *)

EntityInv ==
  /\ OwnershipInv /\ TurnInv
  /\ StopInv /\ LaunchInv /\ LeaseInv
  /\ StoppingInv /\ FreshInv /\ HostReports
  /\ StoppedInv /\ NoReportOfStoppedTurn

LEMMA EntityInit == Init => EntityInv
<1> SUFFICES ASSUME Init PROVE EntityInv
  OBVIOUS
<1>1. OwnershipInv
  BY OwnershipInit
<1>2. TurnInv
  BY DEF Init, TurnInv, LineInv, LoseInv, TurnOf, IdleOp, IdleStop, Stoppers
<1>3. StopInv
  BY DEF Init, StopInv, StopOf, IdleStop
<1>4. LaunchInv /\ LeaseInv /\ StoppingInv /\ FreshInv
  BY DEF Init, NoStart, LaunchInv, LeaseInv, StoppingInv, FreshInv
<1>5. HostReports
  BY DEF Init, HostReports, IdleStop, Stoppers
<1>6. StoppedInv /\ NoReportOfStoppedTurn
  BY DEF Init, StoppedInv, NoReportOfStoppedTurn, IdleOp
<1> QED BY <1>1, <1>2, <1>3, <1>4, <1>5, <1>6 DEF EntityInv

LEMMA EntityNext == EntityInv /\ [Next]_vars => EntityInv'
<1>1. ASSUME EntityInv, Next PROVE EntityInv'
  <2> USE <1>1 DEF EntityInv
  <2>1. OwnershipInv'
    BY OwnershipNext
  <2>2. TurnInv'
    BY TurnNext
  <2>3. StopInv'
    BY StopNext DEF OwnershipInv, StopInv
  <2>4. LaunchInv'
    BY <2>1, LaunchNext DEF OwnershipInv
  <2>5. LeaseInv'
    BY <2>1, LeaseNext
  <2>6. StoppingInv'
    BY StoppingNext DEF TurnInv
  <2>7. FreshInv'
    BY <2>1, FreshNext DEF OwnershipInv
  <2>8. HostReports'
    BY HostReportsNext DEF OwnershipInv, TurnInv
  <2>9. StoppedInv'
    BY StoppedNext
  <2>10. NoReportOfStoppedTurn'
    BY ReportNext DEF OwnershipInv
  <2> QED BY <2>1, <2>2, <2>3, <2>4, <2>5, <2>6, <2>7, <2>8, <2>9, <2>10
<1>2. ASSUME EntityInv, UNCHANGED vars PROVE EntityInv'
  <2>1. OwnershipInv'
    BY <1>2, OwnershipNext DEF EntityInv
  <2>2. TurnInv'
    BY <1>2 DEF EntityInv, vars, rt, rest, TurnInv, LineInv, LoseInv, TurnOf
  <2>3. StopInv'
    BY <1>2 DEF EntityInv, vars, rt, StopInv, StopOf, Stoppers
  <2>4. LaunchInv' /\ LeaseInv' /\ StoppingInv' /\ FreshInv'
    BY <1>2 DEF EntityInv, vars, rt, LaunchInv, LeaseInv, StoppingInv, FreshInv
  <2>5. HostReports'
    BY <1>2 DEF EntityInv, vars, HostReports, Mutating
  <2>6. StoppedInv' /\ NoReportOfStoppedTurn'
    BY <1>2 DEF EntityInv, vars, rest, StoppedInv, NoReportOfStoppedTurn, HostStopping
  <2> QED BY <2>1, <2>2, <2>3, <2>4, <2>5, <2>6 DEF EntityInv
<1> QED BY <1>1, <1>2

\* The lease of a running or stopping runtime is not revoked, its last word is not turned away
\* and what it queued is not written once the lease is gone: whoever starts, stops, closes or
\* loses a race.
THEOREM LeaseAlwaysOutlives == Spec => LastWordBeforeRevoke
<1>1. EntityInv /\ [Next]_vars => [LeaseStep]_vars
  BY LastWordStep DEF EntityInv
<1> QED BY <1>1, EntityInit, EntityNext, PTL DEF Spec, LastWordBeforeRevoke

\* A turn that a stop ended is never reported to the party that asked for it.
THEOREM StoppedNeverReported == Spec => []NoReportOfStoppedTurn
<1>1. EntityInv => NoReportOfStoppedTurn
  BY DEF EntityInv
<1> QED BY <1>1, EntityInit, EntityNext, PTL DEF Spec

----------------------------------------
(* Closed means gone: what stays gone                                      *)

\* Nothing of the runtime is left.
Gone == live = 0 /\ start.pc = "none" /\ authority = 0 /\ mcp = 0

\* Lease and tokens come only with a new generation.
LEMMA TokenMoves ==
  ASSUME Next
  PROVE  OpenGeneration \/ (authority' \in {authority, 0} /\ mcp' \in {mcp, 0})
<1>2. ASSUME NEW s, StopFirst(s) PROVE authority' \in {authority, 0} /\ mcp' \in {mcp, 0}
  BY <1>2 DEF StopFirst, AskStop, WhileStopping, Revoke, rt
<1>4. CASE StartAnswered
  BY <1>4 DEF StartAnswered, RuntimeCreated, CreateFails, RuntimeStarts, StartFails, AskStop,
     RollbackStopped, RollbackUnproven
<1>5. CASE Starts \/ ReopenWritten
  BY <1>5 DEF Starts, BeginStart, ReopenWritten
<1>6. CASE HostConverges \/ Close \/ \E o \in Ops : LoseStarted(o)
  BY <1>2, <1>6 DEF HostConverges, Close, LoseStarted, Revoke, rt
<1>7. CASE \E s \in Stoppers : StopAnswered(s) \/ StopJoined(s)
  BY <1>7 DEF StopAnswered, StopJoined, StopSecond, AskStop, Revoke
<1>8. CASE \E h \in 1..gens : RuntimeDown(h)
  BY <1>8 DEF RuntimeDown, LastWord, RuntimeStops, TornDown, RuntimeStopFails
<1>9. CASE UNCHANGED rt \/ Saying
  BY <1>9 DEF rt, Saying, TypeOK
<1> QED BY <1>4, <1>5, <1>6, <1>7, <1>8, <1>9, NextRuns DEF RunStep, StopForHost, CleanedUp,
           CloseWritten, Converges, AdmissionsDrained, MutationsDrained, Converged

LEMMA GoneStays ==
  ASSUME TypeOK, StartInv, Next, phase # "active", Gone
  PROVE  Gone'
<1>1. start'.pc = "none"
  BY StartMoves DEF Gone
<1>2. live' = 0
  BY LiveMoves DEF Gone, RuntimeCreated
<1>3. ~OpenGeneration
  BY <1>1 DEF OpenGeneration
<1> QED BY <1>1, <1>2, <1>3, TokenMoves DEF Gone

LEMMA LineStays ==
  ASSUME TypeOK, TurnInv, Next, phase # "active", line = <<>>
  PROVE  line' = <<>>
  BY NextOps DEF TurnInv, OpStep, Enters, Relocks, Submits, Submit, Moves, Attach, React, ReportEnds,
     RuntimeAdmits, RuntimeSettles, Dies, TornDown

LEMMA UnsettledStays ==
  ASSUME TypeOK, TurnInv, Next, line = <<>>, Unsettled = {}
  PROVE  Unsettled' = {}
<1> SUFFICES ASSUME NEW o \in Ops, op'[o].pc = "attached" PROVE FALSE
  BY DEF Unsettled
<1>1. op[o].pc # "attached" /\ op[o] \in OpType
  BY DEF Unsettled, TypeOK
<1>2. op[o].pc # "submitting"
  BY SubmittingStays DEF Attach
<1> QED BY <1>1, <1>2, NextTurns DEF TurnStep, Fresher, Given, Attached, Reacted, Answered, Settled,
        Ended, OpType

NoneSending == \A o \in Ops : rep[o] # "sending"

LEMMA ReportsStay ==
  ASSUME TypeOK, LoseInv, Next, Unsettled = {}, NoneSending
  PROVE  NoneSending'
<1>1. ~\E o \in Ops : React(o)
  BY DEF React, Unsettled
<1> QED BY <1>1, NextOps DEF OpStep, NoneSending, Enters, Relocks, Submits, Moves, Attach,
        ReportEnds, RuntimeAdmits, RuntimeSettles, Dies, TornDown, rest, TypeOK

\* The entity leaves its phase by an unproven rollback or by a close.
LEMMA PhaseMoves ==
  ASSUME Next
  PROVE  \/ phase' = phase
         \/ RollbackUnproven /\ phase' = "closing"
         \/ Close
         \/ CloseWritten /\ phase' = "closed"
  BY NextRuns DEF RunStep, Saying, StartAnswered, RuntimeCreated, CreateFails, RuntimeStarts, StartFails,
     RollbackStopped, RollbackUnproven, Starts, ReopenWritten, LoseStarted, HostConverges, Close,
     StopForHost, StopAnswered, StopJoined, Converges, AdmissionsDrained, MutationsDrained,
     Converged, CleanedUp, CloseWritten, RuntimeDown, LastWord, RuntimeStops, TornDown, RuntimeStopFails

\* A close in progress began with a close call.
LEMMA CloseEnters ==
  ASSUME TypeOK, Next, ~Closing, Closing'
  PROVE  Close /\ phase' = "closing" /\ StopFirst("close")
<1>0. /\ stp \in [Stoppers -> StopType] /\ "close" \in Stoppers /\ "close" # "host" /\ "close" \notin Ops
      /\ stp["close"].pc = "idle" /\ stp'["close"].pc # "idle"
  BY EntityAssumption DEF TypeOK, Stoppers, EntityAssumption, Closing
<1>1. ASSUME NEW outcome, FlightEnds(outcome) PROVE FALSE
  BY <1>0, <1>1 DEF FlightEnds
<1>2. ~StartAnswered /\ ~ReopenWritten
  BY <1>0, <1>1 DEF StartAnswered, RuntimeCreated, CreateFails, RuntimeStarts, StartFails,
     RollbackStopped, RollbackUnproven, ReopenWritten
<1>3. \A o \in Ops : ~LoseStarted(o)
  BY <1>0 DEF LoseStarted, StopFirst
<1>4. ~HostConverges /\ ~StopForHost /\ ~CleanedUp /\ ~CloseWritten
  BY <1>0 DEF HostConverges, StopFirst, StopForHost, CleanedUp, CloseWritten
<1>5. ASSUME NEW t \in Stoppers, StopAnswered(t) \/ StopJoined(t) PROVE FALSE
  <2>1. t = "close"
    BY <1>0, <1>5 DEF StopAnswered, StopJoined, StopSecond, AfterStop
  <2> QED BY <1>0, <1>5, <2>1 DEF StopAnswered, StopJoined
<1>6. \A t \in {"host", "close"} : ~Converges(t)
  BY <1>0 DEF Converges, AdmissionsDrained, MutationsDrained, Converged
<1>7. Close
  BY <1>0, <1>2, <1>3, <1>4, <1>5, <1>6, NextRuns
     DEF RunStep, Saying, Starts, RuntimeDown, LastWord, RuntimeStops, TornDown, RuntimeStopFails
<1> QED BY <1>0, <1>7 DEF Close

----------------------------------------
(* Closed means gone: the close                                            *)

Late == {"drain", "mutations", "reports", "cleanup", "write"}

\* How far a close is says how much of the entity is gone.
CloseInv ==
  /\ Closing => phase = "closing"
  /\ stp["close"].pc # "tick"
  /\ stp["close"].pc \in Late /\ ~stp["close"].failed => Gone
  /\ stp["close"].pc \in Late \ {"drain"} => line = <<>>
  /\ stp["close"].pc \in {"reports", "cleanup", "write"} /\ ~stp["close"].failed => Unsettled = {}
  /\ stp["close"].pc \in {"cleanup", "write"} => ~stp["close"].failed /\ NoneSending

\* The close is over with the runtime: what it leaves if nothing failed.
LEMMA StopOverGone ==
  ASSUME TypeOK, StartInv, StopInv, LoseInv, Next, StopAnswered("close") \/ StopJoined("close")
  PROVE  /\ stp'["close"].pc \in {"join", "stop2", "drain"}
         /\ stp'["close"].pc = "drain" /\ ~stp'["close"].failed => Gone'
<1>0. /\ stp \in [Stoppers -> StopType] /\ "close" \in Stoppers /\ "close" # "host" /\ "close" \notin Ops
      /\ StopOf("close")
  BY EntityAssumption DEF TypeOK, Stoppers, EntityAssumption, StopInv
<1>1. CASE StopJoined("close")
  <2>1. /\ StopSecond("close", live, stp["close"].failed) /\ live' = live /\ start' = start
        /\ stp["close"].pc = "joined" /\ start.pc = "none"
    BY <1>0, <1>1 DEF StopJoined, StopOf
  <2>2. CASE live \notin {0, stp["close"].gen}
    BY <1>0, <2>1, <2>2 DEF StopSecond
  <2>3. CASE live \in {0, stp["close"].gen}
    <3>1. /\ authority' = 0 /\ mcp' = 0
          /\ stp'["close"] = [pc |-> "drain", gen |-> 0, failed |-> stp["close"].failed]
      BY <1>0, <2>1, <2>3 DEF StopSecond, Revoke, AfterStop
    <3>2. ~stp["close"].failed => live = 0
      BY <1>0, <2>1, <2>3 DEF StopOf
    <3> QED BY <2>1, <3>1, <3>2 DEF Gone
  <2> QED BY <2>2, <2>3
<1>2. CASE StopAnswered("close")
  <2> DEFINE g      == stp["close"].gen
             failed == stp["close"].failed \/ prov[g] = "stuck"
             left   == LiveAfterStop(g)
  <2>1. live' = left /\ start' = start /\ prov[g] \in {"down", "stuck"} /\ g # 0
    BY <1>0, <1>2 DEF StopAnswered, StopOf
  <2>2. ~failed => prov[g] = "down" /\ left # g
    BY <2>1 DEF LiveAfterStop
  <2>3. CASE stp' = [stp EXCEPT !["close"].pc = "join", !["close"].failed = failed]
    BY <1>0, <2>3 DEF StopType
  <2>4. CASE StopSecond("close", left, failed) /\ start.pc = "none"
    <3>1. CASE left \notin {0, g}
      BY <1>0, <2>4, <3>1 DEF StopSecond
    <3>2. CASE left \in {0, g}
      <4>1. /\ authority' = 0 /\ mcp' = 0
            /\ stp'["close"] = [pc |-> "drain", gen |-> 0, failed |-> failed]
        BY <1>0, <2>4, <3>2 DEF StopSecond, Revoke, AfterStop
      <4>2. ~failed => live' = 0
        BY <2>1, <2>2, <3>2
      <4>3. stp'["close"].pc = "drain" /\ stp'["close"].failed = failed
        BY <4>1
      <4> HIDE DEF failed, left
      <4> QED BY <2>1, <2>4, <4>1, <4>2, <4>3 DEF Gone
    <3> QED BY <3>1, <3>2
  <2>5. CASE stp["close"].pc = "stop2" /\ Revoke /\ AfterStop("close", failed)
    <3>1. /\ authority' = 0 /\ mcp' = 0
          /\ stp'["close"] = [pc |-> "drain", gen |-> 0, failed |-> failed]
      BY <1>0, <2>5 DEF Revoke, AfterStop
    <3>2. start.pc = "none" /\ live \in {0, g}
      BY <1>0, <2>5 DEF StopOf
    <3>3. left \in {0, g}
      BY <3>2 DEF LiveAfterStop
    <3>4. ~failed => live' = 0
      BY <2>1, <2>2, <3>3
    <3>5. stp'["close"].pc = "drain" /\ stp'["close"].failed = failed
      BY <3>1
    <3> HIDE DEF failed, left
    <3> QED BY <2>1, <3>1, <3>2, <3>4, <3>5 DEF Gone
  <2> QED BY <1>2, <2>3, <2>4, <2>5 DEF StopAnswered
<1> QED BY <1>1, <1>2

LEMMA CloseNext ==
  ASSUME EntityInv, CloseInv, Next
  PROVE  CloseInv'
<1> USE DEF EntityInv, OwnershipInv, TurnInv
<1>0. /\ stp \in [Stoppers -> StopType] /\ "close" \in Stoppers /\ "close" # "host" /\ "close" \notin Ops
      /\ stp["close"] \in StopType
  BY EntityAssumption DEF TypeOK, Stoppers, EntityAssumption
<1>c. stp["close"].pc # "idle" => phase = "closing" /\ phase # "active"
  BY DEF CloseInv, Closing
<1>p. ASSUME stp["close"].pc \notin {"idle", "write"} PROVE phase' = "closing"
  BY <1>c, <1>p, PhaseMoves DEF Close, CloseWritten, Closing
<1>1. CASE stp'["close"] = stp["close"]
  <2>1. Closing' => phase' = "closing"
    <3>1. ASSUME Closing, CloseWritten PROVE FALSE
      BY <1>0, <1>1, <3>1 DEF CloseWritten, IdleStop
    <3> QED BY <1>1, <1>c, <3>1, PhaseMoves DEF Close, Closing
  <2>2. stp["close"].pc \in Late /\ ~stp["close"].failed => Gone'
    BY <1>c, GoneStays DEF CloseInv, Late
  <2>3. stp["close"].pc \in Late \ {"drain"} => line' = <<>>
    BY <1>c, LineStays DEF CloseInv, Late
  <2>4. stp["close"].pc \in {"reports", "cleanup", "write"} /\ ~stp["close"].failed => Unsettled' = {}
    BY UnsettledStays DEF CloseInv, Late
  <2>5. stp["close"].pc \in {"cleanup", "write"} => ~stp["close"].failed /\ NoneSending'
    BY ReportsStay DEF CloseInv, Late
  <2> QED BY <1>1, <2>1, <2>2, <2>3, <2>4, <2>5 DEF CloseInv
<1>2. CASE stp["close"].pc \in {"idle", "tick"} /\ StopFirst("close")
  <2>1. stp["close"].pc = "idle" /\ stp'["close"].pc \in {"stop1", "join", "drain"}
    BY <1>0, <1>2 DEF StopFirst, CloseInv
  <2>2. phase' = "closing"
    BY <2>1, CloseEnters DEF Closing
  <2>3. stp'["close"].pc = "drain" => Gone'
    BY <1>0, <1>2 DEF StopFirst, Revoke, Gone
  <2> QED BY <2>1, <2>2, <2>3 DEF CloseInv, Late, Closing
<1>3. CASE stp["close"].pc = "join" /\ stp'["close"] = [stp["close"] EXCEPT !.pc = "joined"]
  <2>1. stp'["close"].pc = "joined"
    BY <1>0, <1>3 DEF StopType
  <2> QED BY <1>3, <1>p, <2>1 DEF CloseInv, Late
<1>4. CASE StopAnswered("close") \/ StopJoined("close")
  <2>1. phase' = "closing"
    BY <1>4, <1>p DEF StopAnswered, StopJoined
  <2> QED BY <1>4, <2>1, StopOverGone DEF CloseInv, Late
<1>5. CASE AdmissionsDrained("close")
  <2>1. /\ stp["close"].pc = "drain" /\ stp'["close"].pc = "mutations"
        /\ stp'["close"].failed = stp["close"].failed /\ line' = <<>>
    BY <1>0, <1>5 DEF AdmissionsDrained, StopType
  <2>2. ~stp["close"].failed => Gone'
    BY <1>c, <2>1, GoneStays DEF CloseInv, Late
  <2> QED BY <1>p, <2>1, <2>2 DEF CloseInv, Late
<1>6. CASE MutationsDrained("close")
  <2>1. /\ stp["close"].pc = "mutations" /\ stp'["close"].pc = "reports"
        /\ ~stp'["close"].failed => ~stp["close"].failed /\ Unsettled = {}
        /\ UNCHANGED <<op, line>>
    BY <1>0, <1>6 DEF MutationsDrained, StopType
  <2>2. ~stp["close"].failed => Gone'
    BY <1>c, <2>1, GoneStays DEF CloseInv, Late
  <2>3. line' = <<>> /\ Unsettled' = Unsettled
    BY <2>1 DEF CloseInv, Late, Unsettled
  <2> QED BY <1>p, <2>1, <2>2, <2>3 DEF CloseInv, Late
<1>7. CASE Converged("close")
  <2>1. CASE stp'["close"] = IdleStop
    BY <2>1 DEF CloseInv, Late, Closing, IdleStop
  <2>2. CASE stp'["close"] = [IdleStop EXCEPT !.pc = "cleanup"]
    <3>1. /\ stp["close"].pc = "reports" /\ ~stp["close"].failed
          /\ NoneSending /\ UNCHANGED <<op, line, rep>>
      BY <1>0, <1>7, <2>2 DEF Converged, NoneSending, IdleStop
    <3>2. Gone'
      BY <1>c, <3>1, GoneStays DEF CloseInv, Late
    <3>3. line' = <<>> /\ Unsettled' = {} /\ NoneSending'
      BY <3>1 DEF CloseInv, Late, Unsettled, NoneSending
    <3>4. stp'["close"].pc = "cleanup" /\ stp'["close"].failed = FALSE
      BY <2>2 DEF IdleStop
    <3> QED BY <1>p, <3>1, <3>2, <3>3, <3>4 DEF CloseInv, Late
  <2> QED BY <1>0, <1>7, <2>1, <2>2 DEF Converged
<1>8. CASE CleanedUp
  <2>1. CASE stp'["close"] = IdleStop
    BY <2>1 DEF CloseInv, Late, Closing, IdleStop
  <2>2. CASE stp'["close"] = [stp["close"] EXCEPT !.pc = "write"]
    <3>1. /\ stp["close"].pc = "cleanup" /\ UNCHANGED <<op, line, rep>>
          /\ ~stp["close"].failed
      BY <1>8 DEF CleanedUp, rest, CloseInv
    <3>2. stp'["close"].pc = "write" /\ stp'["close"].failed = FALSE
      BY <1>0, <2>2, <3>1 DEF StopType
    <3>3. Gone'
      BY <1>c, <3>1, GoneStays DEF CloseInv, Late
    <3>4. line' = <<>> /\ Unsettled' = {} /\ NoneSending'
      BY <3>1 DEF CloseInv, Late, Unsettled, NoneSending
    <3> QED BY <1>p, <3>1, <3>2, <3>3, <3>4 DEF CloseInv, Late
  <2> QED BY <1>0, <1>8, <2>1, <2>2 DEF CleanedUp
<1>9. CASE CloseWritten
  <2>1. stp'["close"] = IdleStop
    BY <1>0, <1>9 DEF CloseWritten
  <2> QED BY <2>1 DEF CloseInv, Late, Closing, IdleStop
<1> QED BY <1>0, <1>1, <1>2, <1>3, <1>4, <1>5, <1>6, <1>7, <1>8, <1>9, NextStops
        DEF StopStep, Converges

----------------------------------------
(* Closed means gone: the record on disk                                   *)

\* What a step does to the record on disk.
DurableStep ==
  \/ durable' = durable /\ (gens' = gens \/ ~durable)
  \/ StatusWritten
  \/ ReopenWritten /\ durable' = FALSE
  \/ CloseWritten /\ durable' /\ phase' = "closed"

LEMMA NextDurable ==
  ASSUME Next
  PROVE  DurableStep
<1> USE DEF DurableStep
<1>b. ASSUME BeginStart PROVE DurableStep
  BY <1>b DEF BeginStart, store
<1>s. ASSUME NEW s, StopFirst(s) PROVE gens' = gens
  BY <1>s DEF StopFirst, rt
<1>1. ASSUME NEW o \in Ops, OpContinues(o) PROVE DurableStep
  <2>1. CASE PushPrepares(o) \/ PushSubmits(o) \/ React(o)
    BY <2>1 DEF PushPrepares, PushSubmits, React, store, rt
  <2>2. CASE Admit(o)
    BY <1>b, <2>2 DEF Admit, EnsureStarted, store, rt
  <2>3. CASE ContinueStarted(o)
    BY <2>3 DEF ContinueStarted, store, rt
  <2>4. CASE LoseStarted(o)
    BY <1>s, <2>4 DEF LoseStarted, store, rt
  <2> QED BY <1>1, <2>1, <2>2, <2>3, <2>4 DEF OpContinues
<1>2. ASSUME NEW o \in Ops, EnterLocked(o) PROVE DurableStep
  BY <1>b, <1>2 DEF EnterLocked, store, rt
<1>3. CASE StoreAnswers
  BY <1>3 DEF StoreAnswers, StatusWritten, IntentWritten, ReopenWritten, CloseWritten, rt
<1>4. CASE CleanedUp
  BY <1>4 DEF CleanedUp, rt
<1>5. ASSUME NEW g \in 1..gens, RuntimeDown(g) \/ Publish(g) PROVE DurableStep
  BY <1>5 DEF RuntimeDown, LastWord, RuntimeStops, TornDown, RuntimeStopFails, Publish, store, rt
<1>6. CASE StartAnswered
  BY <1>6 DEF StartAnswered, RuntimeCreated, CreateFails, RuntimeStarts, StartFails,
     RollbackStopped, RollbackUnproven, store
<1>7. CASE Attach \/ WriteBegins \/ HostConverges \/ Lock \/ Unlock \/ StopForHost \/ Close
  BY <1>s, <1>7 DEF Attach, WriteBegins, HostConverges, Lock, Unlock, StopForHost, Close, store, rt
<1>8. ASSUME NEW o \in Ops, \/ PushBodyBuilt(o) \/ ReportEnds(o) \/ RuntimeAdmits(o)
                            \/ RuntimeSettles(o) \/ \E k \in Kinds : Enter(o, k)
      PROVE  DurableStep
  BY <1>8 DEF PushBodyBuilt, ReportEnds, RuntimeAdmits, RuntimeSettles, Enter, store, rt
<1>9. ASSUME NEW s \in Stoppers, StopAnswered(s) \/ StopJoined(s) PROVE DurableStep
  BY <1>9 DEF StopAnswered, StopJoined, store
<1>10. ASSUME NEW s \in {"host", "close"}, Converges(s) PROVE DurableStep
  BY <1>10 DEF Converges, AdmissionsDrained, MutationsDrained, Converged, store, rt
<1> QED BY <1>1, <1>2, <1>3, <1>4, <1>5, <1>6, <1>7, <1>8, <1>9, <1>10 DEF Next

\* A record that says closed belongs to an entity that is, or that did not start yet.
\* And no status overtakes the one the close wrote.
DiskInv ==
  /\ durable => gens = 0 \/ phase = "closed"
  /\ phase = "closed" => durable
  /\ phase = "closed" /\ writes # <<>> => Head(writes).kind \notin Words \/ ~Head(writes).go

ClosedInv == EntityInv /\ CloseInv /\ DiskInv /\ ClosedOwnsNothing /\ ClosedFactOnlyWhenRetired

LEMMA DiskNext ==
  ASSUME ClosedInv, Next
  PROVE  DiskInv'
<1> USE DEF ClosedInv, EntityInv, OwnershipInv
<1>0. writes \in Seq(WriteType) /\ gens \in Nat /\ durable \in BOOLEAN
  BY DEF TypeOK
<1>p. ASSUME phase = "closed"
      PROVE  phase' = "closed" /\ durable' /\ gens' = gens
  <2>0. durable /\ start.pc = "none" /\ (writes # <<>> => Head(writes).kind \notin Words \/ ~Head(writes).go)
    BY <1>p DEF DiskInv, ClosedOwnsNothing
  <2>1. phase' = "closed"
    BY <1>p, <2>0, PhaseMoves DEF RollbackUnproven, Close
  <2> QED BY <2>0, <2>1, <1>p, NextDurable
          DEF DurableStep, StatusWritten, ReopenWritten, Writing, CloseWritten, rt
<1>2. durable' => gens' = 0 \/ phase' = "closed"
  <2>1. CASE phase = "closed"
    BY <1>p, <2>1
  <2>2. CASE phase # "closed"
    BY <2>2, NextDurable DEF DurableStep, StatusWritten, DiskInv
  <2> QED BY <2>1, <2>2
<1>c. ASSUME phase' = "closed", phase # "closed" PROVE durable' /\ ((Close /\ durable /\ phase = "active") \/ CloseWritten)
  <2>1. Close \/ CloseWritten
    BY <1>c, PhaseMoves
  <2>2. CASE Close
    BY <1>c, <2>2 DEF Close, store
  <2>3. CASE CloseWritten
    BY <1>c, <2>3 DEF CloseWritten
  <2> QED BY <2>1, <2>2, <2>3
<1>3. phase' = "closed" => durable'
  BY <1>c, <1>p
<1>4. ASSUME phase' = "closed", writes' # <<>> PROVE Head(writes').kind \notin Words \/ ~Head(writes').go
  <2>1. ASSUME writes # <<>>, writes' = Tail(writes) PROVE ~Head(writes').go
    BY <1>0, <1>4, <2>1, TailFacts DEF DiskInv, QueueInv
  <2>2. CASE phase # "closed" /\ Close
    <3>1. gens = 0 /\ writes' = writes
      BY <1>4, <1>c, <2>2 DEF DiskInv, Close, store
    <3>2. 1 \in 1..Len(writes) /\ Head(writes) = writes[1]
      BY <1>0, <1>4, <3>1
    <3>3. writes[1].kind \notin Words
      BY <3>1, <3>2 DEF DiskInv, QueueInv
    <3> QED BY <3>1, <3>2, <3>3
  <2>3. CASE phase # "closed" /\ CloseWritten
    BY <2>1, <2>3 DEF CloseWritten, Writing
  <2>4. CASE phase = "closed"
    <3>1. authority = 0
      BY <2>4 DEF ClosedOwnsNothing
    <3>2. CASE WriteBegins
      <4>1. CASE Head(writes).kind \in Words
        <5>1. 1 \in 1..Len(writes) /\ Head(writes) = writes[1]
          BY <1>0, <3>2 DEF WriteBegins
        <5>2. Head(writes).who # 0
          BY <1>0, <4>1, <5>1 DEF DiskInv, QueueInv
        <5>3. writes' = Tail(writes) /\ writes # <<>>
          BY <3>1, <3>2, <4>1, <5>2 DEF WriteBegins, Refused
        <5> QED BY <2>1, <5>3
      <4>2. CASE Head(writes).kind \notin Words
        <5>1. writes # <<>> /\ writes' = [writes EXCEPT ![1].go = TRUE]
          BY <3>2, <4>2 DEF WriteBegins, Refused
        <5> QED BY <1>0, <4>2, <5>1, BeginFacts
      <4> QED BY <4>1, <4>2
    <3>3. CASE writes' = writes
      BY <1>4, <2>4, <3>3 DEF DiskInv
    <3>4. ASSUME NEW kind, NEW who, writes' = Queue(kind, who)
          PROVE  Head(writes').kind \notin Words \/ ~Head(writes').go
      <4>1. Head(writes') = IF writes = <<>> THEN [kind |-> kind, who |-> who, go |-> FALSE] ELSE Head(writes)
        BY <1>0, <3>4, QueueFacts
      <4> QED BY <2>4, <4>1 DEF DiskInv
    <3>5. CASE \E kind, who : writes' = Queue(kind, who)
      BY <3>4, <3>5
    <3> QED BY <2>1, <3>2, <3>3, <3>5, NextWrites DEF WriteStep
  <2> QED BY <1>4, <1>c, <2>2, <2>3, <2>4
<1> QED BY <1>2, <1>3, <1>4 DEF DiskInv

\* An entity that never opened a generation has nothing of a turn.
LEMMA NothingYet ==
  ASSUME TypeOK, TurnInv, gens = 0
  PROVE  /\ live = 0 /\ authority = 0 /\ mcp = 0
         /\ line = <<>> /\ Unsettled = {} /\ NoneSending
<1>1. live = 0 /\ authority = 0 /\ mcp = 0
  BY DEF TypeOK
<1>2. ASSUME NEW o \in Ops PROVE op[o].pc \notin {"submitting", "attached"} /\ rep[o] = "no"
  BY DEF TurnInv, TurnOf
<1>3. line = <<>>
  <2>1. SUFFICES ASSUME line # <<>> PROVE FALSE
    OBVIOUS
  <2>2. 1 \in 1..Len(line) /\ line[1] \in Ops
    BY <2>1 DEF TypeOK
  <2> QED BY <1>2, <2>2 DEF TurnInv, LineInv
<1> QED BY <1>1, <1>2, <1>3 DEF Unsettled, NoneSending

LEMMA ClosedNext ==
  ASSUME ClosedInv, Next
  PROVE  ClosedOwnsNothing'
<1> USE DEF ClosedInv, EntityInv, OwnershipInv
<1> DEFINE Nothing == Gone /\ line = <<>> /\ Unsettled = {} /\ NoneSending
<1>0. SUFFICES ASSUME phase' = "closed" PROVE Nothing'
  BY DEF ClosedOwnsNothing, Gone, NoneSending
<1>s. ASSUME Nothing, phase # "active" PROVE Nothing'
  BY <1>s, GoneStays, LineStays, UnsettledStays, ReportsStay DEF TurnInv
<1>1. CASE phase = "closed"
  BY <1>1, <1>s DEF ClosedOwnsNothing, Gone, NoneSending
<1>2. CASE phase # "closed" /\ Close
  <2>1. phase = "active" /\ durable /\ UNCHANGED <<rt, op, line, rep>> /\ start.pc = "none"
    BY <1>0, <1>2 DEF Close
  <2>2. gens = 0
    BY <2>1 DEF DiskInv
  <2>3. Nothing
    BY <2>1, <2>2, NothingYet DEF Gone
  <2> QED BY <2>1, <2>3 DEF Gone, rt, Unsettled, NoneSending
<1>3. CASE CloseWritten
  <2>1. stp["close"].pc = "write"
    BY <1>3 DEF CloseWritten
  <2>2. phase = "closing"
    BY <2>1 DEF CloseInv, Closing
  <2>3. Nothing
    BY <2>1 DEF CloseInv, Late
  <2> QED BY <1>s, <2>2, <2>3
<1> QED BY <1>0, <1>1, <1>2, <1>3, PhaseMoves

\* What a step does to the promise `closed`.
LEMMA NextFact ==
  ASSUME Next, closedFact'
  PROVE  \/ closedFact
         \/ Unlock /\ phase = "closed"
         \/ (Close \/ CloseWritten) /\ phase' = "closed" /\ ~locked
<1>1. CASE StartAnswered
  BY <1>1 DEF StartAnswered, RuntimeCreated, CreateFails, RuntimeStarts, StartFails,
     RollbackStopped, RollbackUnproven, rest
<1>2. CASE StoreAnswers
  BY <1>2 DEF StoreAnswers, StatusWritten, IntentWritten, ReopenWritten, CloseWritten, rest, FactAtClose
<1>3. ASSUME NEW o \in Ops, OpContinues(o) PROVE closedFact
  BY <1>3 DEF OpContinues, PushPrepares, PushSubmits, Admit, ContinueStarted, LoseStarted, React, rest
<1>4. ASSUME NEW o \in Ops, \/ PushBodyBuilt(o) \/ ReportEnds(o) \/ RuntimeAdmits(o)
                            \/ RuntimeSettles(o) \/ EnterLocked(o) \/ \E k \in Kinds : Enter(o, k)
      PROVE  closedFact
  BY <1>4 DEF PushBodyBuilt, ReportEnds, RuntimeAdmits, RuntimeSettles, EnterLocked, Enter, rest
<1>5. CASE \/ Attach \/ WriteBegins \/ HostConverges \/ CleanedUp \/ Lock \/ Unlock
           \/ StopForHost \/ Close
  BY <1>5 DEF Attach, WriteBegins, HostConverges, CleanedUp, Lock, Unlock, StopForHost, Close,
     rest, FactAtClose
<1>6. ASSUME NEW s \in Stoppers, StopAnswered(s) \/ StopJoined(s) PROVE closedFact
  BY <1>6 DEF StopAnswered, StopJoined, rest
<1>7. ASSUME NEW s \in {"host", "close"}, Converges(s) PROVE closedFact
  BY <1>7 DEF Converges, AdmissionsDrained, MutationsDrained, Converged, rest
<1>8. ASSUME NEW g \in 1..gens, RuntimeDown(g) \/ Publish(g) PROVE closedFact
  BY <1>8 DEF RuntimeDown, LastWord, RuntimeStops, TornDown, RuntimeStopFails, Publish, rest
<1> QED BY <1>1, <1>2, <1>3, <1>4, <1>5, <1>6, <1>7, <1>8 DEF Next

LEMMA FactNext ==
  ASSUME ClosedInv, Next, DiskInv'
  PROVE  ClosedFactOnlyWhenRetired'
<1> USE DEF ClosedInv, EntityInv, OwnershipInv
<1> SUFFICES ASSUME closedFact' PROVE phase' = "closed" /\ ~locked' /\ durable'
  BY DEF ClosedFactOnlyWhenRetired
<1>1. ASSUME phase = "closed" PROVE phase' = "closed"
  <2>1. start.pc = "none"
    BY <1>1 DEF ClosedOwnsNothing
  <2> QED BY <1>1, <2>1, PhaseMoves DEF RollbackUnproven, Close
<1>2. phase' = "closed"
  BY <1>1, NextFact DEF ClosedFactOnlyWhenRetired
<1>3. ~locked'
  <2>1. CASE closedFact
    BY <2>1, NextLocks DEF ClosedFactOnlyWhenRetired, Lock
  <2>2. CASE ~closedFact
    BY <2>2, NextFact DEF Unlock, Close, CloseWritten
  <2> QED BY <2>1, <2>2
<1> QED BY <1>2, <1>3 DEF DiskInv

LEMMA ClosedInvInit == Init => ClosedInv
<1> SUFFICES ASSUME Init PROVE ClosedInv
  OBVIOUS
<1>1. EntityInv
  BY EntityInit
<1>2. CloseInv
  BY DEF Init, CloseInv, Late, Closing, IdleStop, Stoppers
<1>3. DiskInv /\ ClosedOwnsNothing /\ ClosedFactOnlyWhenRetired
  BY DEF Init, DiskInv, QueueInv, ClosedOwnsNothing, ClosedFactOnlyWhenRetired
<1> QED BY <1>1, <1>2, <1>3 DEF ClosedInv

LEMMA ClosedInvNext == ClosedInv /\ [Next]_vars => ClosedInv'
<1>1. ASSUME ClosedInv, Next PROVE ClosedInv'
  <2>1. EntityInv'
    BY <1>1, EntityNext DEF ClosedInv
  <2>2. CloseInv'
    BY <1>1, CloseNext DEF ClosedInv
  <2>3. DiskInv'
    BY <1>1, DiskNext
  <2> QED BY <1>1, <2>1, <2>2, <2>3, ClosedNext, FactNext DEF ClosedInv
<1>2. ASSUME ClosedInv, UNCHANGED vars PROVE ClosedInv'
  <2>1. EntityInv'
    BY <1>2, EntityNext DEF ClosedInv
  <2>2. CloseInv'
    BY <1>2 DEF ClosedInv, CloseInv, Closing, Gone, Unsettled, NoneSending, vars, rt, rest
  <2>3. DiskInv' /\ ClosedOwnsNothing' /\ ClosedFactOnlyWhenRetired'
    BY <1>2 DEF ClosedInv, DiskInv, QueueInv, ClosedOwnsNothing, ClosedFactOnlyWhenRetired,
       Unsettled, vars, rt, rest, store
  <2> QED BY <2>1, <2>2, <2>3 DEF ClosedInv
<1> QED BY <1>1, <1>2

\* Closed means gone: an entity that is closed owns no runtime, start, token, lease,
\* turn or report, and its `closed` resolves only when it is closed on disk too and
\* no holder has it; no queued status update brings the record back to life.
THEOREM ClosedIsGone == Spec => []ClosedMeansGone
<1>1. ClosedInv => ClosedMeansGone
  BY DEF ClosedInv, ClosedMeansGone
<1> QED BY <1>1, ClosedInvInit, ClosedInvNext, PTL DEF Spec
========================================
