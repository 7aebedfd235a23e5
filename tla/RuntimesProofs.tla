--------------------------- MODULE RuntimesProofs ---------------------------
(***************************************************************************)
(* Theorems about the two agent runtimes and the cards that tell what they *)
(* do, for any number of submissions, turns, sessions, children, messages, *)
(* cards and events.                                                       *)
(***************************************************************************)
EXTENDS Runtimes, FiniteSetTheorems, SequenceTheorems, TLAPS

----------------------------------------
(* The turns of a Codex session                                            *)

\* A submission that is being decided is the one at the head of the queue.
Deciding(s) == trnStep[s] \in {"effort", "sent", "answered", "rejected"}

\* Where a decision stands, what Core was told of it, and what took it.
DecisionInv ==
  /\ \A s \in CodexSubs : Deciding(s) => trnQueue # <<>> /\ Head(trnQueue) = s
  /\ \A s \in CodexSubs : trnAdmission[s] = "pending" <=> trnStep[s] # "over"
  /\ \A s \in CodexSubs : trnStep[s] # "over" => trnSettlement[s] = "open"
  /\ \A s \in CodexSubs : trnStep[s] \in {"new", "queued", "effort"} => trnTaken[s] = Nothing
  /\ \A s \in CodexSubs : trnStep[s] = "answered" \/ trnAdmission[s] = "submitted" => trnTaken[s] \in Turns
  /\ trnStopping = "done" => \A s \in CodexSubs : trnStep[s] \in {"new", "over"}

\* A turn that was heard to end has no members, and keeps its record for every request it took
\* that has not come back; a record with members is that of an open turn.
TurnRecords ==
  /\ \A t \in Turns : trnRecords[t].members # {} => trnRecords[t].state = "open"
  /\ \A t \in Turns : \A s \in trnRecords[t].members : trnTaken[s] = t /\ trnAdmission[s] = "submitted"
  /\ \A t \in Turns : trnRecords[t].state = "ended" => t \in trnSeen \/ T!Barred
  /\ \A t \in trnSeen : trnNative[t] = "ended" /\ trnRecords[t].state # "open"
  /\ \A s \in CodexSubs : trnStep[s] \in {"sent", "answered"} /\ trnTaken[s] \in trnSeen =>
       trnRecords[trnTaken[s]].state = "ended" /\ s \in trnRecords[trnTaken[s]].release
  /\ T!Barred => trnCollector # "listening"
  /\ \A t \in Turns : trnResults[t] # 0 => trnResults[t] = 1 /\ (t \in trnSeen \/ T!Barred)

TurnInv == T!TypeOK /\ DecisionInv /\ TurnRecords /\ T!NobodyWaitsInVain

\* A record of a turn.
Record == [state : {"none", "open", "ended"}, members : SUBSET CodexSubs, release : SUBSET CodexSubs]

\* What a settlement of several leaves.
LEMMA TurnSettles ==
  ASSUME trnSettlement \in [CodexSubs -> Turns \union {"open", "failed", "stopped"}],
         NEW M, NEW what \in Turns \union {"failed", "stopped"}, T!SettleAll(M, what)
  PROVE  /\ trnSettlement' \in [CodexSubs -> Turns \union {"open", "failed", "stopped"}]
         /\ \A s \in CodexSubs : trnSettlement'[s] = IF s \in M /\ trnSettlement[s] = "open"
                                                     THEN what ELSE trnSettlement[s]
  BY DEF T!SettleAll

\* A request that has come back is waited for no more: the records stay what they were, but for
\* an ended one that waited for nothing else.
LEMMA TurnReleases ==
  ASSUME NEW rs \in [Turns -> Record], NEW s \in CodexSubs,
         \A t \in Turns : rs[t].members # {} => rs[t].state = "open"
  PROVE  /\ T!Released(rs, s) \in [Turns -> Record]
         /\ \A t \in Turns :
              /\ T!Released(rs, s)[t].members = rs[t].members
              /\ \/ T!Released(rs, s)[t].state = rs[t].state
                 \/ rs[t].state = "ended" /\ T!Released(rs, s)[t].state = "none"
              /\ \A u \in rs[t].release : u # s /\ rs[t].state = "ended" =>
                   T!Released(rs, s)[t].state = "ended" /\ u \in T!Released(rs, s)[t].release
<1>1. \A t \in Turns : T!Released(rs, s)[t] = T!Ready([rs[t] EXCEPT !.release = @ \ {s}])
  BY DEF T!Released
<1>2. ASSUME NEW t \in Turns
      PROVE  /\ T!Released(rs, s)[t] \in Record
             /\ T!Released(rs, s)[t].members = rs[t].members
             /\ \/ T!Released(rs, s)[t].state = rs[t].state
                \/ rs[t].state = "ended" /\ T!Released(rs, s)[t].state = "none"
             /\ \A u \in rs[t].release : u # s /\ rs[t].state = "ended" =>
                  T!Released(rs, s)[t].state = "ended" /\ u \in T!Released(rs, s)[t].release
  <2>1. rs[t] \in Record
    OBVIOUS
  <2>2. /\ [rs[t] EXCEPT !.release = @ \ {s}] \in Record
        /\ [rs[t] EXCEPT !.release = @ \ {s}].state = rs[t].state
        /\ [rs[t] EXCEPT !.release = @ \ {s}].members = rs[t].members
        /\ [rs[t] EXCEPT !.release = @ \ {s}].release = rs[t].release \ {s}
    BY <2>1 DEF Record
  <2>3. T!NoRecord \in Record /\ T!NoRecord.state = "none" /\ T!NoRecord.members = {}
    BY DEF T!NoRecord, Record
  <2> QED BY <1>1, <2>2, <2>3 DEF T!Ready
<1> QED BY <1>2 DEF T!Released

\* The mutations of the queue.
LEMMA QueueFacts ==
  ASSUME NEW Elems, NEW q \in Seq(Elems)
  PROVE  /\ q # <<>> => Head(q) \in Elems /\ Tail(q) \in Seq(Elems)
         /\ \A o \in Elems : /\ Append(q, o) \in Seq(Elems) /\ Append(q, o) # <<>>
                         /\ q # <<>> => Head(Append(q, o)) = Head(q)
<1>1. ASSUME q # <<>>
      PROVE  Head(q) \in Elems /\ Tail(q) \in Seq(Elems)
  BY <1>1
<1>2. ASSUME NEW o \in Elems
      PROVE  Append(q, o) \in Seq(Elems) /\ Append(q, o) # <<>>
  <2>1. Append(q, o) \in Seq(Elems) /\ Len(Append(q, o)) = Len(q) + 1 /\ Len(q) \in Nat
    OBVIOUS
  <2>2. Len(<<>>) = 0
    OBVIOUS
  <2> QED BY <2>1, <2>2
<1>3. ASSUME NEW o \in Elems, q # <<>>
      PROVE  Head(Append(q, o)) = Head(q)
  <2>1. 1 \in 1..Len(q) /\ Head(q) = q[1]
    BY <1>3
  <2>2. Append(q, o)[1] = q[1]
    BY <2>1
  <2> QED BY <1>2, <2>1, <2>2
<1> QED BY <1>1, <1>2, <1>3


\* A decision that is over leaves the queue to the next.
LEMMA TurnDecided ==
  ASSUME T!TypeOK, DecisionInv, NEW s \in CodexSubs, T!Running(s) \/ Deciding(s),
         NEW outcome \in {"submitted", "stopped", "failed", "ambiguous"}, T!Decided(s, outcome)
  PROVE  /\ trnQueue' \in Seq(CodexSubs \union {"interrupt"})
         /\ trnStep' \in [CodexSubs -> T!Steps] /\ trnStep'[s] = "over"
         /\ trnAdmission' \in [CodexSubs -> {"pending", "submitted", "stopped", "failed", "ambiguous"}]
         /\ trnAdmission'[s] = outcome
         /\ \A u \in CodexSubs : u # s => trnStep'[u] = trnStep[u] /\ trnAdmission'[u] = trnAdmission[u] /\ ~Deciding(u)
<1>1. trnQueue # <<>> /\ Head(trnQueue) = s
  BY DEF DecisionInv, T!Running
<1>2. trnQueue' \in Seq(CodexSubs \union {"interrupt"})
  BY <1>1, QueueFacts DEF T!Decided, T!TypeOK
<1>3. \A u \in CodexSubs : u # s => ~Deciding(u)
  BY <1>1 DEF DecisionInv
<1> QED BY <1>2, <1>3 DEF T!Decided, T!TypeOK, T!Steps

\* What binding a submission to its turn does: it is answered by the turn that has ended or by the
\* manager's own end, or it is a member of its turn, which is open.
LEMMA TurnBinds ==
  ASSUME TurnInv, NEW s \in CodexSubs, T!BindSubmission(s)
  PROVE  /\ trnRecords' \in [Turns -> Record]
         /\ trnSettlement' \in [CodexSubs -> Turns \union {"open", "failed", "stopped"}]
         /\ \A u \in CodexSubs : u # s => trnSettlement'[u] = trnSettlement[u]
         /\ trnTaken[s] \in Turns
         /\ \A t \in Turns : /\ t # trnTaken[s] => trnRecords'[t].members = trnRecords[t].members
                             /\ t # trnTaken[s] => trnRecords'[t].state \in {trnRecords[t].state, "none"}
                             /\ trnRecords'[t].state = "none" => trnRecords'[t].members = {}
                             /\ \A u \in trnRecords[t].release : u # s /\ trnRecords[t].state = "ended" =>
                                  trnRecords'[t].state = "ended" /\ u \in trnRecords'[t].release
         /\ \/ /\ trnSettlement'[s] \in {trnTaken[s], "failed", "stopped"}
               /\ trnRecords'[trnTaken[s]].members = trnRecords[trnTaken[s]].members
               /\ trnRecords'[trnTaken[s]].state \in {trnRecords[trnTaken[s]].state, "none"}
            \/ /\ trnSettlement'[s] = "open" /\ ~T!Barred /\ trnRecords[trnTaken[s]].state # "ended"
               /\ trnRecords'[trnTaken[s]].members = trnRecords[trnTaken[s]].members \cup {s}
               /\ trnRecords'[trnTaken[s]].state = "open"
<1> DEFINE t == trnTaken[s]
           r == trnRecords[t]
           bound == [r EXCEPT !.state = "open", !.members = @ \union {s}]
           rs == [trnRecords EXCEPT ![t] = bound]
<1>1. t \in Turns /\ trnSettlement[s] = "open" /\ trnStep[s] = "answered"
  BY DEF T!BindSubmission, TurnInv, DecisionInv
<1>2. /\ trnRecords \in [Turns -> Record] /\ r \in Record
      /\ \A u \in Turns : trnRecords[u].members # {} => trnRecords[u].state = "open"
      /\ trnSettlement \in [CodexSubs -> Turns \union {"open", "failed", "stopped"}]
  BY <1>1 DEF TurnInv, T!TypeOK, Record, TurnRecords
<1>3. ASSUME NEW what \in {t, "failed", "stopped"}, T!SettleAll({s}, what), trnRecords' = T!Released(trnRecords, s)
      PROVE  /\ trnSettlement' \in [CodexSubs -> Turns \union {"open", "failed", "stopped"}]
             /\ \A u \in CodexSubs : u # s => trnSettlement'[u] = trnSettlement[u]
             /\ trnSettlement'[s] = what
             /\ trnRecords' \in [Turns -> Record]
             /\ \A u \in Turns : /\ trnRecords'[u].members = trnRecords[u].members
                                 /\ trnRecords'[u].state \in {trnRecords[u].state, "none"}
                                 /\ trnRecords'[u].state = "none" => trnRecords'[u].members = {}
                                 /\ \A v \in trnRecords[u].release : v # s /\ trnRecords[u].state = "ended" =>
                                      trnRecords'[u].state = "ended" /\ v \in trnRecords'[u].release
  <2>1. what \in Turns \union {"failed", "stopped"}
    BY <1>1
  <2>2. /\ trnSettlement' \in [CodexSubs -> Turns \union {"open", "failed", "stopped"}]
        /\ \A u \in CodexSubs : trnSettlement'[u] = IF u \in {s} /\ trnSettlement[u] = "open" THEN what ELSE trnSettlement[u]
    BY <1>2, <1>3, <2>1, TurnSettles
  <2>3. /\ trnRecords' \in [Turns -> Record]
        /\ \A u \in Turns : /\ trnRecords'[u].members = trnRecords[u].members
                            /\ \/ trnRecords'[u].state = trnRecords[u].state
                               \/ trnRecords[u].state = "ended" /\ trnRecords'[u].state = "none"
                            /\ \A v \in trnRecords[u].release : v # s /\ trnRecords[u].state = "ended" =>
                                 trnRecords'[u].state = "ended" /\ v \in trnRecords'[u].release
    BY <1>2, <1>3, TurnReleases
  <2> QED BY <1>1, <1>2, <2>2, <2>3
<1>4. CASE r.state = "ended"
  <2>1. T!SettleAll({s}, t) /\ trnRecords' = T!Released(trnRecords, s)
    BY <1>4 DEF T!BindSubmission
  <2> QED BY <1>1, <1>3, <2>1
<1>5. CASE r.state # "ended" /\ T!Barred
  <2>1. T!SettleAll({s}, T!WhyBarred) /\ trnRecords' = T!Released(trnRecords, s) /\ T!WhyBarred \in {"failed", "stopped"}
    BY <1>5 DEF T!BindSubmission, T!WhyBarred
  <2> QED BY <1>1, <1>3, <2>1
<1>6. CASE r.state # "ended" /\ ~T!Barred
  <2>1. trnRecords' = T!Released(rs, s) /\ trnSettlement' = trnSettlement
    BY <1>6 DEF T!BindSubmission
  <2>2. /\ bound \in Record /\ bound.state = "open" /\ bound.members = r.members \cup {s}
        /\ bound.release = r.release
    BY <1>2 DEF Record
  <2>3. /\ rs \in [Turns -> Record] /\ rs[t] = bound
        /\ \A u \in Turns : u # t => rs[u] = trnRecords[u]
    BY <1>1, <1>2, <2>2
  <2>4. \A u \in Turns : rs[u].members # {} => rs[u].state = "open"
    BY <1>2, <2>2, <2>3
  <2> HIDE DEF rs, bound
  <2>5. /\ trnRecords' \in [Turns -> Record]
        /\ \A u \in Turns : /\ trnRecords'[u].members = rs[u].members
                            /\ \/ trnRecords'[u].state = rs[u].state
                               \/ rs[u].state = "ended" /\ trnRecords'[u].state = "none"
                            /\ \A v \in rs[u].release : v # s /\ rs[u].state = "ended" =>
                                 trnRecords'[u].state = "ended" /\ v \in trnRecords'[u].release
    BY <2>1, <2>3, <2>4, TurnReleases
  <2> QED BY <1>1, <1>2, <1>6, <2>1, <2>2, <2>3, <2>4, <2>5
<1> QED BY <1>4, <1>5, <1>6

\* Every step keeps the types: Core's calls and the decisions.
LEMMA TurnDecisionTypes ==
  ASSUME T!TurnsAssumption, TurnInv, NEW s \in CodexSubs,
         T!SubmitInput(s) \/ T!Decide(s) \/ T!Interrupt \/ T!InterruptEnds
  PROVE  T!TypeOK'
<1> USE DEF TurnInv
<1>1. CASE T!SubmitInput(s) \/ T!Interrupt \/ T!InterruptEnds
  <2>1. trnQueue' \in Seq(CodexSubs \union {"interrupt"})
    <3>1. trnQueue \in Seq(CodexSubs \union {"interrupt"}) /\ {s, "interrupt"} \subseteq CodexSubs \union {"interrupt"}
      BY DEF T!TypeOK
    <3>2. \/ trnQueue' \in {Append(trnQueue, s), Append(trnQueue, "interrupt")}
          \/ trnQueue # <<>> /\ trnQueue' = Tail(trnQueue)
      BY <1>1 DEF T!SubmitInput, T!Interrupt, T!InterruptEnds, T!Running
    <3> QED BY <3>1, <3>2, QueueFacts
  <2> QED BY <1>1, <2>1 DEF T!SubmitInput, T!Interrupt, T!InterruptEnds, T!TypeOK, T!codexVars, T!Steps
<1>2. CASE T!BeginSubmit(s)
  <2>1. CASE T!Barred
    BY <1>2, <2>1, TurnDecided DEF T!BeginSubmit, T!WhyBarred, T!TypeOK, T!codexVars
  <2>2. CASE ~T!Barred
    BY <1>2, <2>2 DEF T!BeginSubmit, T!TypeOK, T!codexVars, T!Steps
  <2> QED BY <2>1, <2>2
<1>3. CASE T!RefuseSubmit(s)
  BY <1>3, TurnDecided DEF T!RefuseSubmit, Deciding, T!WhyBarred, T!TypeOK, T!codexVars
<1>4. CASE T!SendTurnStart(s)
  BY <1>4 DEF T!SendTurnStart, T!TypeOK, T!codexVars, T!Steps
<1>5. CASE T!FailSubmit(s)
  <2>1. trnRecords' \in [Turns -> Record]
    BY <1>5, TurnReleases DEF T!FailSubmit, T!TypeOK, TurnRecords, Record
  <2> QED BY <1>5, <2>1, TurnDecided DEF T!FailSubmit, Deciding, T!TypeOK, T!codexVars, Record
<1>6. CASE T!BindSubmission(s)
  <2>1. /\ trnRecords' \in [Turns -> Record]
        /\ trnSettlement' \in [CodexSubs -> Turns \union {"open", "failed", "stopped"}]
    BY <1>6, TurnBinds
  <2> QED BY <1>6, <2>1, TurnDecided DEF T!BindSubmission, Deciding, T!TypeOK, T!codexVars, Record
<1> QED BY <1>1, <1>2, <1>3, <1>4, <1>5, <1>6 DEF T!Decide

\* What the notifications settle: the members of a turn that ends, or of all that are open.
LEMMA TurnTerminal ==
  ASSUME TurnInv, NEW t \in Turns, NEW how, T!ObserveTerminal(t, how)
  PROVE  \/ /\ trnCollector # "listening" \/ t \in trnSeen
            /\ UNCHANGED <<trnSeen, trnSettlement, trnRecords, trnResults>>
         \/ /\ trnCollector = "listening" /\ t \notin trnSeen /\ ~T!Barred /\ trnRecords[t].state # "ended"
            /\ trnSeen' = trnSeen \union {t}
            /\ trnRecords' \in [Turns -> Record]
            /\ \A u \in Turns : u # t => trnRecords'[u] = trnRecords[u]
            /\ trnRecords'[t].members = {} /\ trnRecords'[t].state \in {"ended", "none"}
            /\ T!InFlight # {} => trnRecords'[t].state = "ended" /\ trnRecords'[t].release = T!InFlight
            /\ trnSettlement' \in [CodexSubs -> Turns \union {"open", "failed", "stopped"}]
            /\ \A s \in CodexSubs : trnSettlement'[s] = IF s \in trnRecords[t].members /\ trnSettlement[s] = "open"
                                                        THEN t ELSE trnSettlement[s]
            /\ trnResults[t] = 0 /\ trnResults' \in [Turns -> Nat] /\ trnResults'[t] \in {0, 1}
            /\ \A u \in Turns : u # t => trnResults'[u] = trnResults[u]
<1>1. CASE trnCollector # "listening" \/ t \in trnSeen
  BY <1>1 DEF T!ObserveTerminal
<1>2. CASE trnCollector = "listening" /\ t \notin trnSeen
  <2> DEFINE ended == [state |-> "ended", members |-> {}, release |-> T!InFlight]
  <2>1. /\ ~T!Barred /\ trnRecords[t].state # "ended" /\ trnResults[t] = 0
        /\ trnRecords \in [Turns -> Record] /\ trnResults \in [Turns -> Nat]
        /\ trnSettlement \in [CodexSubs -> Turns \union {"open", "failed", "stopped"}]
    BY <1>2 DEF TurnInv, TurnRecords, T!TypeOK, Record
  <2>2. /\ trnSeen' = trnSeen \union {t}
        /\ trnRecords' = [trnRecords EXCEPT ![t] = T!Ready(ended)]
        /\ T!SettleAll(trnRecords[t].members, t)
        /\ trnResults' = IF how = "interrupted" THEN trnResults ELSE [trnResults EXCEPT ![t] = @ + 1]
    BY <1>2, <2>1 DEF T!ObserveTerminal
  <2>3. /\ T!Ready(ended) \in Record /\ T!Ready(ended).members = {}
        /\ T!Ready(ended).state \in {"ended", "none"}
        /\ T!InFlight # {} => T!Ready(ended).state = "ended" /\ T!Ready(ended).release = T!InFlight
    BY DEF T!Ready, T!NoRecord, Record, T!InFlight
  <2>4. /\ trnSettlement' \in [CodexSubs -> Turns \union {"open", "failed", "stopped"}]
        /\ \A s \in CodexSubs : trnSettlement'[s] = IF s \in trnRecords[t].members /\ trnSettlement[s] = "open"
                                                    THEN t ELSE trnSettlement[s]
    BY <2>1, <2>2, TurnSettles
  <2>5. /\ trnResults' \in [Turns -> Nat] /\ trnResults'[t] \in {0, 1}
        /\ \A u \in Turns : u # t => trnResults'[u] = trnResults[u]
    BY <2>1, <2>2
  <2> HIDE DEF ended
  <2>6. /\ trnRecords' \in [Turns -> Record] /\ trnRecords'[t] = T!Ready(ended)
        /\ \A u \in Turns : u # t => trnRecords'[u] = trnRecords[u]
    BY <2>1, <2>2, <2>3
  <2> QED BY <1>2, <2>1, <2>2, <2>3, <2>4, <2>5, <2>6
<1> QED BY <1>1, <1>2

\* The failure of the protocol, and the end of a stop, settle what is open and forget it.
LEMMA TurnSweeps ==
  ASSUME TurnInv, NEW what \in {"failed", "stopped"},
         LET opened == {t \in Turns : trnRecords[t].state = "open"}
         IN /\ T!SettleAll(UNION {trnRecords[t].members : t \in opened}, what)
            /\ trnRecords' = [t \in Turns |-> IF t \in opened THEN T!NoRecord ELSE trnRecords[t]]
  PROVE  /\ trnRecords' \in [Turns -> Record]
         /\ \A t \in Turns : trnRecords'[t].members = {} /\ trnRecords'[t].state # "open"
         /\ \A t \in Turns : trnRecords[t].state = "ended" => trnRecords'[t] = trnRecords[t]
         /\ \A t \in Turns : trnRecords'[t].state = "ended" => trnRecords[t].state = "ended"
         /\ trnSettlement' \in [CodexSubs -> Turns \union {"open", "failed", "stopped"}]
         /\ \A s \in CodexSubs : \/ trnSettlement'[s] = trnSettlement[s]
                                 \/ trnSettlement'[s] = what /\ \E t \in Turns : s \in trnRecords[t].members
         /\ \A s \in CodexSubs, t \in Turns : s \in trnRecords[t].members => trnSettlement'[s] # "open"
<1> DEFINE opened == {t \in Turns : trnRecords[t].state = "open"}
           all == UNION {trnRecords[t].members : t \in opened}
<1>1. /\ trnRecords \in [Turns -> Record] /\ trnSettlement \in [CodexSubs -> Turns \union {"open", "failed", "stopped"}]
      /\ \A t \in Turns : trnRecords[t].members # {} => trnRecords[t].state = "open"
      /\ \A t \in Turns : trnRecords[t].members \subseteq CodexSubs
  BY DEF TurnInv, T!TypeOK, TurnRecords, Record
<1>2. T!NoRecord \in Record /\ T!NoRecord.members = {} /\ T!NoRecord.state = "none"
  BY DEF T!NoRecord, Record
<1>3. T!SettleAll(all, what) /\ trnRecords' = [t \in Turns |-> IF t \in opened THEN T!NoRecord ELSE trnRecords[t]]
  OBVIOUS
<1>4. \A t \in Turns : trnRecords'[t] = IF trnRecords[t].state = "open" THEN T!NoRecord ELSE trnRecords[t]
  BY <1>3
<1>5. trnRecords' \in [Turns -> Record]
  BY <1>1, <1>2, <1>3
<1>6. \A s \in CodexSubs, t \in Turns : s \in trnRecords[t].members => s \in all
  BY <1>1
<1>7. \A s \in all : \E t \in Turns : s \in trnRecords[t].members
  OBVIOUS
<1> HIDE DEF all
<1>8. /\ trnSettlement' \in [CodexSubs -> Turns \union {"open", "failed", "stopped"}]
      /\ \A s \in CodexSubs : trnSettlement'[s] = IF s \in all /\ trnSettlement[s] = "open" THEN what ELSE trnSettlement[s]
  BY <1>1, <1>3, TurnSettles
<1>9. \A t \in Turns : trnRecords'[t].members = {} /\ trnRecords'[t].state # "open"
  BY <1>1, <1>2, <1>4
<1> QED BY <1>2, <1>4, <1>5, <1>6, <1>7, <1>8, <1>9

\* Every step keeps the types: the notifications, Codex and the stop.
LEMMA TurnOutsideTypes ==
  ASSUME T!TurnsAssumption, TurnInv, T!FailProtocol \/ T!Codex \/ T!Stop \/ T!StopDrained
  PROVE  T!TypeOK'
<1> USE DEF TurnInv
<1>1. CASE T!FailProtocol
  <2>1. trnRecords' \in [Turns -> Record] /\ trnSettlement' \in [CodexSubs -> Turns \union {"open", "failed", "stopped"}]
    BY <1>1, TurnSweeps DEF T!FailProtocol
  <2> QED BY <1>1, <2>1 DEF T!FailProtocol, T!TypeOK, T!codexVars, Record
<1>2. CASE T!StopDrained
  <2>1. trnRecords' \in [Turns -> Record] /\ trnSettlement' \in [CodexSubs -> Turns \union {"open", "failed", "stopped"}]
    BY <1>2, TurnSweeps DEF T!StopDrained
  <2> QED BY <1>2, <2>1 DEF T!StopDrained, T!TypeOK, T!codexVars, Record
<1>3. CASE T!Stop \/ T!ConnectionLost
  BY <1>3 DEF T!Stop, T!ConnectionLost, T!Disconnected, T!TypeOK, T!codexVars, T!Steps
<1>4. CASE \E s \in CodexSubs, t \in Turns : T!Accept(s, t)
  BY <1>4 DEF T!Accept, T!TypeOK
<1>5. CASE \E s \in CodexSubs : T!Respond(s)
  BY <1>5 DEF T!Respond, T!TypeOK, T!codexVars, T!Steps
<1>6. ASSUME NEW t \in Turns, NEW how \in {"completed", "interrupted"}, T!TurnEnds(t, how)
      PROVE  T!TypeOK'
  <2>1. trnFrames' \in [Turns -> 0..2]
    <3>1. trnFrames[t] \in 0..2 /\ trnFrames[t] < 2
      BY <1>6 DEF T!TurnEnds, T!TypeOK
    <3>2. trnFrames[t] + 1 \in 0..2
      BY <3>1
    <3> QED BY <1>6, <3>2 DEF T!TurnEnds, T!TypeOK
  <2>2. /\ trnRecords' \in [Turns -> Record] /\ trnSettlement' \in [CodexSubs -> Turns \union {"open", "failed", "stopped"}]
        /\ trnSeen' \subseteq Turns /\ trnResults' \in [Turns -> Nat]
    BY <1>6, TurnTerminal DEF T!TurnEnds, T!TypeOK, Record
  <2> QED BY <1>6, <2>1, <2>2 DEF T!TurnEnds, T!TypeOK, Record
<1> QED BY <1>1, <1>2, <1>3, <1>4, <1>5, <1>6 DEF T!Codex

----------------------------------------
(* What was decided                                                        *)

LEMMA TurnDecisionsDecide ==
  ASSUME T!TurnsAssumption, TurnInv, NEW s \in CodexSubs,
         T!SubmitInput(s) \/ T!Decide(s) \/ T!Interrupt \/ T!InterruptEnds
  PROVE  DecisionInv'
<1> USE DEF TurnInv
<1>0. /\ trnQueue \in Seq(CodexSubs \union {"interrupt"}) /\ s \in CodexSubs \union {"interrupt"}
      /\ "interrupt" \in CodexSubs \union {"interrupt"} /\ "interrupt" \notin CodexSubs
  BY DEF T!TypeOK, T!TurnsAssumption
<1>1. CASE T!SubmitInput(s) \/ T!Interrupt
  <2>1. trnQueue # <<>> => trnQueue' # <<>> /\ Head(trnQueue') = Head(trnQueue)
    BY <1>0, <1>1, QueueFacts DEF T!SubmitInput, T!Interrupt
  <2> QED BY <1>1, <2>1 DEF T!SubmitInput, T!Interrupt, DecisionInv, Deciding, T!TypeOK, T!codexVars
<1>2. CASE T!InterruptEnds
  <2>1. \A u \in CodexSubs : ~Deciding(u)
    BY <1>0, <1>2 DEF T!InterruptEnds, T!Running, DecisionInv
  <2> QED BY <1>2, <2>1 DEF T!InterruptEnds, DecisionInv, Deciding, T!codexVars
<1>3. CASE T!BeginSubmit(s)
  <2>1. CASE T!Barred
    BY <1>3, <2>1, TurnDecided DEF T!BeginSubmit, T!WhyBarred, DecisionInv, Deciding, T!codexVars
  <2>2. CASE ~T!Barred
    BY <1>3, <2>2 DEF T!BeginSubmit, T!Barred, T!Running, DecisionInv, Deciding, T!TypeOK, T!codexVars
  <2> QED BY <2>1, <2>2
<1>4. CASE T!RefuseSubmit(s)
  BY <1>4, TurnDecided DEF T!RefuseSubmit, T!WhyBarred, DecisionInv, Deciding, T!codexVars
<1>5. CASE T!SendTurnStart(s)
  BY <1>5 DEF T!SendTurnStart, T!Barred, DecisionInv, Deciding, T!TypeOK, T!codexVars
<1>6. CASE T!FailSubmit(s)
  BY <1>6, TurnDecided DEF T!FailSubmit, DecisionInv, Deciding, T!codexVars
<1>7. CASE T!BindSubmission(s)
  <2>1. /\ trnTaken[s] \in Turns /\ trnTaken' = trnTaken /\ trnStopping' = trnStopping
        /\ \A u \in CodexSubs : u # s => trnSettlement'[u] = trnSettlement[u]
    BY <1>7, TurnBinds DEF T!BindSubmission, T!codexVars
  <2>2. T!Decided(s, "submitted") /\ Deciding(s)
    BY <1>7 DEF T!BindSubmission, Deciding
  <2> QED BY <2>1, <2>2, TurnDecided DEF DecisionInv, Deciding
<1> QED BY <1>1, <1>2, <1>3, <1>4, <1>5, <1>6, <1>7 DEF T!Decide

LEMMA TurnOutsideDecides ==
  ASSUME T!TurnsAssumption, TurnInv, T!FailProtocol \/ T!Codex \/ T!Stop \/ T!StopDrained
  PROVE  DecisionInv'
<1> USE DEF TurnInv
<1>0. \A t \in Turns : \A m \in trnRecords[t].members : m \in CodexSubs /\ trnStep[m] = "over"
  <2>1. \A t \in Turns : \A m \in trnRecords[t].members : m \in CodexSubs /\ trnAdmission[m] = "submitted"
    BY DEF T!TypeOK, TurnRecords
  <2> QED BY <2>1 DEF DecisionInv
<1>1. CASE T!FailProtocol
  BY <1>0, <1>1, TurnSweeps DEF T!FailProtocol, DecisionInv, Deciding, T!codexVars
<1>2. CASE T!StopDrained
  BY <1>0, <1>2, TurnSweeps DEF T!StopDrained, DecisionInv, Deciding, T!codexVars
<1>3. CASE T!Stop \/ T!ConnectionLost
  BY <1>3 DEF T!Stop, T!ConnectionLost, T!Disconnected, DecisionInv, Deciding, T!TypeOK, T!codexVars
<1>4. CASE \E s \in CodexSubs, t \in Turns : T!Accept(s, t)
  BY <1>4 DEF T!Accept, DecisionInv, Deciding, T!TypeOK
<1>5. CASE \E s \in CodexSubs : T!Respond(s)
  BY <1>5 DEF T!Respond, DecisionInv, Deciding, T!TypeOK, T!codexVars, T!TurnsAssumption
<1>6. CASE \E t \in Turns, how \in {"completed", "interrupted"} : T!TurnEnds(t, how)
  BY <1>0, <1>6, TurnTerminal DEF T!TurnEnds, DecisionInv, Deciding
<1> QED BY <1>1, <1>2, <1>3, <1>4, <1>5, <1>6 DEF T!Codex

----------------------------------------
(* What is recorded of a turn, and who still waits                         *)

\* The steps of a decision that leave the turns alone.
LEMMA TurnWaitsKeep ==
  ASSUME T!TurnsAssumption, TurnInv, NEW s \in CodexSubs,
         \/ T!SubmitInput(s) \/ T!Interrupt \/ T!InterruptEnds \/ T!BeginSubmit(s) \/ T!RefuseSubmit(s)
         \/ T!SendTurnStart(s)
  PROVE  TurnRecords' /\ T!NobodyWaitsInVain'
<1> USE DEF TurnInv
<1>1. /\ UNCHANGED <<trnSettlement, trnRecords, trnSeen, trnBroken, trnStopping, trnResults, trnNative, trnTaken>>
      /\ trnCollector' = trnCollector \/ (trnCollector = "none" /\ trnCollector' = "listening" /\ ~T!Barred)
  BY DEF T!SubmitInput, T!Interrupt, T!InterruptEnds, T!BeginSubmit, T!RefuseSubmit, T!SendTurnStart, T!codexVars
<1>2. \A u \in CodexSubs : trnAdmission'[u] # trnAdmission[u] =>
        trnAdmission[u] = "pending" /\ trnAdmission'[u] \notin {"pending", "submitted"}
  <2>1. CASE T!SubmitInput(s) \/ T!Interrupt \/ T!InterruptEnds \/ T!SendTurnStart(s)
    BY <2>1 DEF T!SubmitInput, T!Interrupt, T!InterruptEnds, T!SendTurnStart
  <2>2. CASE T!BeginSubmit(s)
    BY <2>2, TurnDecided DEF T!BeginSubmit, T!WhyBarred, DecisionInv
  <2>3. CASE T!RefuseSubmit(s)
    BY <2>3, TurnDecided DEF T!RefuseSubmit, T!WhyBarred, DecisionInv, Deciding
  <2> QED BY <2>1, <2>2, <2>3
<1>3. \A u \in CodexSubs : trnStep'[u] \in {"sent", "answered"} =>
        trnStep[u] \in {"sent", "answered"} \/ trnTaken[u] = Nothing
  <2>1. CASE T!SubmitInput(s) \/ T!Interrupt \/ T!InterruptEnds \/ T!SendTurnStart(s)
    BY <2>1 DEF T!SubmitInput, T!Interrupt, T!InterruptEnds, T!SendTurnStart, DecisionInv, T!TypeOK
  <2>2. CASE T!BeginSubmit(s)
    BY <2>2, TurnDecided DEF T!BeginSubmit, T!WhyBarred, T!TypeOK
  <2>3. CASE T!RefuseSubmit(s)
    BY <2>3, TurnDecided DEF T!RefuseSubmit, T!WhyBarred, Deciding
  <2> QED BY <2>1, <2>2, <2>3
<1>4. Nothing \notin trnSeen
  BY DEF T!TypeOK, T!TurnsAssumption
<1>5. TurnRecords'
  <2>1. \A t \in Turns : \A m \in trnRecords[t].members : m \in CodexSubs
    BY DEF T!TypeOK
  <2> QED BY <1>1, <1>2, <1>3, <1>4, <2>1 DEF TurnRecords, T!Barred
<1>6. T!NobodyWaitsInVain'
  BY <1>1, <1>2 DEF T!NobodyWaitsInVain
<1> QED BY <1>5, <1>6

\* A decision that ends the wait for a request.
LEMMA TurnBackKeeps ==
  ASSUME T!TurnsAssumption, TurnInv, NEW s \in CodexSubs, T!FailSubmit(s) \/ T!BindSubmission(s)
  PROVE  TurnRecords' /\ T!NobodyWaitsInVain'
<1> USE DEF TurnInv
<1>1. /\ UNCHANGED <<trnCollector, trnSeen, trnBroken, trnStopping, trnResults, trnNative, trnTaken>>
      /\ Deciding(s) /\ trnAdmission[s] = "pending"
  BY DEF T!FailSubmit, T!BindSubmission, T!codexVars, Deciding, DecisionInv
<1>2. \A u \in CodexSubs : u # s => trnStep'[u] = trnStep[u] /\ trnAdmission'[u] = trnAdmission[u] /\ ~Deciding(u)
  BY <1>1, TurnDecided DEF T!FailSubmit, T!BindSubmission
<1>3. \A t \in Turns : s \notin trnRecords[t].members /\ \A m \in trnRecords[t].members : m \in CodexSubs
  BY <1>1 DEF TurnRecords, T!TypeOK
<1>4. CASE T!FailSubmit(s)
  <2>1. /\ trnSettlement' = trnSettlement /\ trnRecords' = T!Released(trnRecords, s)
        /\ trnAdmission'[s] = "ambiguous" /\ trnStep'[s] = "over"
    BY <1>1, <1>4, TurnDecided DEF T!FailSubmit
  <2>2. trnRecords \in [Turns -> Record] /\ \A t \in Turns : trnRecords[t].members # {} => trnRecords[t].state = "open"
    BY DEF T!TypeOK, Record, TurnRecords
  <2>3. \A t \in Turns : /\ trnRecords'[t].members = trnRecords[t].members
                         /\ \/ trnRecords'[t].state = trnRecords[t].state
                            \/ trnRecords[t].state = "ended" /\ trnRecords'[t].state = "none"
                         /\ \A u \in trnRecords[t].release : u # s /\ trnRecords[t].state = "ended" =>
                              trnRecords'[t].state = "ended" /\ u \in trnRecords'[t].release
    BY <2>1, <2>2, TurnReleases
  <2>4. TurnRecords'
    <3>1. \A u \in CodexSubs : trnStep'[u] \notin {"sent", "answered"}
      BY <1>2, <2>1 DEF Deciding
    <3>2. \A t \in Turns : trnRecords'[t].members # {} => trnRecords'[t].state = "open"
      BY <2>2, <2>3
    <3>3. \A t \in Turns : \A m \in trnRecords'[t].members : trnTaken[m] = t /\ trnAdmission'[m] = "submitted"
      <4> SUFFICES ASSUME NEW t \in Turns, NEW m \in trnRecords[t].members
                   PROVE  trnTaken[m] = t /\ trnAdmission'[m] = "submitted"
        BY <2>3
      <4> QED BY <1>2, <1>3 DEF TurnRecords
    <3>4. \A t \in Turns : trnRecords'[t].state = "ended" => t \in trnSeen \/ T!Barred
      BY <2>3 DEF TurnRecords
    <3>5. \A t \in trnSeen : trnNative[t] = "ended" /\ trnRecords'[t].state # "open"
      <4>1. \A t \in trnSeen : t \in Turns
        BY DEF T!TypeOK
      <4> QED BY <2>3, <4>1 DEF TurnRecords
    <3> QED BY <1>1, <3>1, <3>2, <3>3, <3>4, <3>5 DEF TurnRecords, T!Barred
  <2>5. T!NobodyWaitsInVain'
    BY <1>1, <1>2, <2>1, <2>3 DEF T!NobodyWaitsInVain, DecisionInv
  <2> QED BY <2>4, <2>5
<1>5. CASE T!BindSubmission(s)
  <2>1. trnAdmission'[s] = "submitted" /\ trnStep'[s] = "over" /\ trnStep[s] = "answered"
    BY <1>1, <1>5, TurnDecided DEF T!BindSubmission
  <2>2. /\ trnRecords' \in [Turns -> Record]
        /\ \A u \in CodexSubs : u # s => trnSettlement'[u] = trnSettlement[u]
        /\ trnTaken[s] \in Turns
        /\ \A t \in Turns : /\ t # trnTaken[s] => trnRecords'[t].members = trnRecords[t].members
                            /\ t # trnTaken[s] => trnRecords'[t].state \in {trnRecords[t].state, "none"}
                            /\ trnRecords'[t].state = "none" => trnRecords'[t].members = {}
        /\ \/ /\ trnSettlement'[s] \in {trnTaken[s], "failed", "stopped"}
              /\ trnRecords'[trnTaken[s]].members = trnRecords[trnTaken[s]].members
              /\ trnRecords'[trnTaken[s]].state \in {trnRecords[trnTaken[s]].state, "none"}
           \/ /\ trnSettlement'[s] = "open" /\ ~T!Barred /\ trnRecords[trnTaken[s]].state # "ended"
              /\ trnRecords'[trnTaken[s]].members = trnRecords[trnTaken[s]].members \cup {s}
              /\ trnRecords'[trnTaken[s]].state = "open"
    BY <1>5, TurnBinds
  <2>3. trnTaken[s] \in trnSeen => trnRecords[trnTaken[s]].state = "ended"
    BY <2>1 DEF TurnRecords
  <2>4. TurnRecords'
    <3>1. \A u \in CodexSubs : trnStep'[u] \notin {"sent", "answered"}
      BY <1>2, <2>1 DEF Deciding
    <3>2. \A t \in Turns : trnRecords'[t].members # {} => trnRecords'[t].state = "open"
      BY <2>2 DEF TurnRecords
    <3>3. \A t \in Turns : \A m \in trnRecords'[t].members : trnTaken[m] = t /\ trnAdmission'[m] = "submitted"
      BY <1>2, <1>3, <2>1, <2>2 DEF TurnRecords
    <3>4. \A t \in Turns : trnRecords'[t].state = "ended" => t \in trnSeen \/ T!Barred
      BY <2>2 DEF TurnRecords
    <3>5. \A t \in trnSeen : trnNative[t] = "ended" /\ trnRecords'[t].state # "open"
      <4>1. \A t \in trnSeen : t \in Turns
        BY DEF T!TypeOK
      <4> QED BY <2>2, <2>3, <4>1 DEF TurnRecords
    <3> QED BY <1>1, <3>1, <3>2, <3>3, <3>4, <3>5 DEF TurnRecords, T!Barred
  <2>5. T!NobodyWaitsInVain'
    <3>1. ASSUME NEW u \in CodexSubs, u # s, trnAdmission[u] = "submitted"
          PROVE  \/ trnSettlement'[u] \in {trnTaken[u], "failed", "stopped"}
                 \/ /\ trnSettlement'[u] = "open" /\ trnStopping # "done"
                    /\ u \in trnRecords'[trnTaken[u]].members /\ trnTaken[u] \notin trnSeen
      <4>1. trnTaken[u] \in Turns /\ trnRecords[trnTaken[u]].members \subseteq trnRecords'[trnTaken[u]].members
        BY <2>2, <3>1 DEF DecisionInv
      <4> QED BY <2>2, <3>1, <4>1 DEF T!NobodyWaitsInVain
    <3>2. \/ trnSettlement'[s] \in {trnTaken[s], "failed", "stopped"}
          \/ /\ trnSettlement'[s] = "open" /\ trnStopping # "done"
             /\ s \in trnRecords'[trnTaken[s]].members /\ trnTaken[s] \notin trnSeen
      BY <2>2, <2>3 DEF T!Barred
    <3> QED BY <1>1, <1>2, <3>1, <3>2 DEF T!NobodyWaitsInVain
  <2> QED BY <2>4, <2>5
<1> QED BY <1>4, <1>5

\* The end of the connection, of the protocol and of the manager.
LEMMA TurnEndsKeep ==
  ASSUME T!TurnsAssumption, TurnInv, T!FailProtocol \/ T!ConnectionLost \/ T!Stop \/ T!StopDrained
  PROVE  TurnRecords' /\ T!NobodyWaitsInVain'
<1> USE DEF TurnInv
<1>1. \A s \in CodexSubs : trnStep'[s] \in {"sent", "answered"} => trnStep'[s] = trnStep[s]
  BY DEF T!FailProtocol, T!ConnectionLost, T!Stop, T!StopDrained, T!Disconnected, T!TypeOK
<1>2. CASE T!ConnectionLost \/ T!Stop
  <2>1. UNCHANGED <<trnAdmission, trnSettlement, trnRecords, trnBroken, trnResults, trnNative, trnTaken>>
    BY <1>2 DEF T!ConnectionLost, T!Stop, T!codexVars
  <2>2. \/ UNCHANGED <<trnSeen, trnCollector, trnStopping>>
        \/ trnSeen' = {} /\ trnCollector' = "none" /\ trnStopping' = "draining"
    BY <1>2 DEF T!ConnectionLost, T!Stop
  <2> QED BY <1>1, <2>1, <2>2 DEF TurnRecords, T!NobodyWaitsInVain, T!Barred, T!TypeOK
<1>3. CASE T!FailProtocol \/ T!StopDrained
  <2>1. UNCHANGED <<trnAdmission, trnStep, trnResults, trnNative, trnTaken>>
    BY <1>3 DEF T!FailProtocol, T!StopDrained, T!codexVars
  <2>2. /\ T!Barred' /\ trnCollector' # "listening" /\ trnSeen' \subseteq trnSeen
        /\ trnStopping' = trnStopping \/ trnStopping' = "done"
    BY <1>3 DEF T!FailProtocol, T!StopDrained, T!Barred, TurnRecords
  <2>3. /\ trnRecords' \in [Turns -> Record]
        /\ \A t \in Turns : trnRecords'[t].members = {} /\ trnRecords'[t].state # "open"
        /\ \A t \in Turns : trnRecords[t].state = "ended" => trnRecords'[t] = trnRecords[t]
        /\ \A s \in CodexSubs : \/ trnSettlement'[s] = trnSettlement[s]
                                \/ trnSettlement'[s] \in {"failed", "stopped"}
        /\ \A s \in CodexSubs, t \in Turns : s \in trnRecords[t].members => trnSettlement'[s] # "open"
    BY <1>3, TurnSweeps DEF T!FailProtocol, T!StopDrained
  <2>4. TurnRecords'
    <3>1. \A s \in CodexSubs : trnTaken[s] \in trnSeen => trnTaken[s] \in Turns
      BY DEF T!TypeOK
    <3> QED BY <2>1, <2>2, <2>3, <3>1 DEF TurnRecords, T!TypeOK
  <2>5. T!NobodyWaitsInVain'
    BY <2>1, <2>3 DEF T!NobodyWaitsInVain, DecisionInv
  <2> QED BY <2>4, <2>5
<1> QED BY <1>2, <1>3

\* What Codex does.
LEMMA TurnCodexKeeps ==
  ASSUME T!TurnsAssumption, TurnInv, T!Codex, ~T!ConnectionLost
  PROVE  TurnRecords' /\ T!NobodyWaitsInVain'
<1> USE DEF TurnInv
<1>1. ASSUME NEW s \in CodexSubs, NEW t \in Turns, T!Accept(s, t)
      PROVE  TurnRecords' /\ T!NobodyWaitsInVain'
  <2>1. /\ UNCHANGED <<trnStep, trnAdmission, trnSettlement, trnRecords, trnCollector, trnSeen, trnBroken, trnStopping, trnResults>>
        /\ trnStep[s] = "sent" /\ trnTaken[s] = Nothing /\ trnTaken'[s] = t
        /\ \A u \in CodexSubs : u # s => trnTaken'[u] = trnTaken[u]
        /\ trnNative[t] # "ended" /\ \A u \in Turns : u # t => trnNative'[u] = trnNative[u]
    BY <1>1 DEF T!Accept, T!TypeOK
  <2>2. t \notin trnSeen /\ trnAdmission[s] = "pending"
    BY <2>1 DEF TurnRecords, DecisionInv
  <2>3. TurnRecords'
    <3>1. \A u \in Turns : \A m \in trnRecords[u].members : m \in CodexSubs /\ m # s
      BY <2>2 DEF TurnRecords, T!TypeOK
    <3>2. \A u \in trnSeen : u \in Turns /\ u # t
      BY <2>2 DEF T!TypeOK
    <3> QED BY <2>1, <2>2, <3>1, <3>2 DEF TurnRecords, T!Barred
  <2>4. T!NobodyWaitsInVain'
    BY <2>1, <2>2 DEF T!NobodyWaitsInVain
  <2> QED BY <2>3, <2>4
<1>2. ASSUME NEW s \in CodexSubs, T!Respond(s)
      PROVE  TurnRecords' /\ T!NobodyWaitsInVain'
  <2>1. /\ UNCHANGED <<trnAdmission, trnSettlement, trnRecords, trnCollector, trnSeen, trnBroken, trnStopping, trnResults, trnNative, trnTaken>>
        /\ trnStep[s] = "sent" /\ \A u \in CodexSubs : u # s => trnStep'[u] = trnStep[u]
    BY <1>2 DEF T!Respond, T!codexVars, T!TypeOK
  <2> QED BY <2>1 DEF TurnRecords, T!NobodyWaitsInVain, T!Barred
<1>3. ASSUME NEW t \in Turns, NEW how \in {"completed", "interrupted"}, T!TurnEnds(t, how)
      PROVE  TurnRecords' /\ T!NobodyWaitsInVain'
  <2>1. /\ UNCHANGED <<trnStep, trnAdmission, trnCollector, trnBroken, trnStopping, trnTaken>>
        /\ trnNative'[t] = "ended" /\ \A u \in Turns : u # t => trnNative'[u] = trnNative[u]
        /\ T!ObserveTerminal(t, how)
    BY <1>3 DEF T!TurnEnds, T!TypeOK
  <2>2. CASE UNCHANGED <<trnSeen, trnSettlement, trnRecords, trnResults>>
    <3>1. \A u \in trnSeen : u \in Turns
      BY DEF T!TypeOK
    <3> QED BY <2>1, <2>2, <3>1 DEF TurnRecords, T!NobodyWaitsInVain, T!Barred
  <2>3. CASE /\ trnCollector = "listening" /\ t \notin trnSeen /\ ~T!Barred /\ trnRecords[t].state # "ended"
             /\ trnSeen' = trnSeen \union {t}
             /\ trnRecords' \in [Turns -> Record]
             /\ \A u \in Turns : u # t => trnRecords'[u] = trnRecords[u]
             /\ trnRecords'[t].members = {} /\ trnRecords'[t].state \in {"ended", "none"}
             /\ T!InFlight # {} => trnRecords'[t].state = "ended" /\ trnRecords'[t].release = T!InFlight
             /\ \A s \in CodexSubs : trnSettlement'[s] = IF s \in trnRecords[t].members /\ trnSettlement[s] = "open"
                                                         THEN t ELSE trnSettlement[s]
             /\ trnResults[t] = 0 /\ trnResults' \in [Turns -> Nat] /\ trnResults'[t] \in {0, 1}
             /\ \A u \in Turns : u # t => trnResults'[u] = trnResults[u]
    <3>1. TurnRecords'
      <4>1. \A u \in trnSeen : u \in Turns /\ u # t
        BY <2>3 DEF T!TypeOK
      <4>2. \A s \in CodexSubs : trnStep[s] \in {"sent", "answered"} => s \in T!InFlight
        BY DEF T!InFlight
      <4>3. \A s \in CodexSubs : trnStep[s] \in {"sent", "answered"} /\ trnTaken[s] \in trnSeen' =>
              trnRecords'[trnTaken[s]].state = "ended" /\ s \in trnRecords'[trnTaken[s]].release
        BY <2>3, <4>1, <4>2 DEF TurnRecords
      <4>4. \A u \in trnSeen' : trnNative'[u] = "ended" /\ trnRecords'[u].state # "open"
        BY <2>1, <2>3, <4>1 DEF TurnRecords
      <4>5. \A u \in Turns : trnResults'[u] # 0 => trnResults'[u] = 1 /\ (u \in trnSeen' \/ T!Barred)
        BY <2>3 DEF TurnRecords
      <4>6. /\ \A u \in Turns : trnRecords'[u].members # {} => trnRecords'[u].state = "open"
            /\ \A u \in Turns : \A s \in trnRecords'[u].members : trnTaken[s] = u /\ trnAdmission[s] = "submitted"
            /\ \A u \in Turns : trnRecords'[u].state = "ended" => u \in trnSeen' \/ T!Barred
        BY <2>3 DEF TurnRecords
      <4> QED BY <2>1, <2>3, <4>3, <4>4, <4>5, <4>6 DEF TurnRecords, T!Barred
    <3>2. T!NobodyWaitsInVain'
      <4>1. \A s \in CodexSubs : trnAdmission[s] = "submitted" => trnTaken[s] \in Turns
        BY DEF DecisionInv
      <4>2. \A s \in CodexSubs : s \in trnRecords[t].members => trnTaken[s] = t
        BY DEF TurnRecords
      <4> QED BY <2>1, <2>3, <4>1, <4>2 DEF T!NobodyWaitsInVain
    <3> QED BY <3>1, <3>2
  <2> QED BY <2>1, <2>2, <2>3, TurnTerminal
<1> QED BY <1>1, <1>2, <1>3 DEF T!Codex

----------------------------------------
(* The theorems about the turns                                            *)

\* Every step keeps the invariant.
LEMMA TurnInvKept ==
  ASSUME T!TurnsAssumption, TurnInv, [T!Next]_(T!vars)
  PROVE  TurnInv'
<1>1. CASE UNCHANGED T!vars
  BY <1>1 DEF T!vars, TurnInv, T!TypeOK, DecisionInv, Deciding, TurnRecords, T!NobodyWaitsInVain, T!Barred
<1>2. ASSUME NEW s \in CodexSubs, T!SubmitInput(s) \/ T!Decide(s)
      PROVE  TurnInv'
  BY <1>2, TurnDecisionTypes, TurnDecisionsDecide, TurnWaitsKeep, TurnBackKeeps DEF TurnInv, T!Decide
<1>3. CASE T!Interrupt \/ T!InterruptEnds
  <2>1. CASE CodexSubs = {}
    <3>1. T!TypeOK'
      <4>1. /\ trnQueue \in Seq(CodexSubs \union {"interrupt"}) /\ "interrupt" \in CodexSubs \union {"interrupt"}
            /\ trnQueue' = Append(trnQueue, "interrupt") \/ (trnQueue # <<>> /\ trnQueue' = Tail(trnQueue))
        BY <1>3 DEF TurnInv, T!TypeOK, T!Interrupt, T!InterruptEnds, T!Running
      <4>2. trnQueue' \in Seq(CodexSubs \union {"interrupt"})
        BY <4>1, QueueFacts
      <4> QED BY <1>3, <4>2 DEF T!Interrupt, T!InterruptEnds, TurnInv, T!TypeOK, T!codexVars
    <3>2. DecisionInv' /\ T!NobodyWaitsInVain'
      BY <2>1 DEF DecisionInv, T!NobodyWaitsInVain
    <3>3. TurnRecords'
      BY <1>3 DEF T!Interrupt, T!InterruptEnds, TurnInv, TurnRecords, T!codexVars, T!Barred
    <3> QED BY <3>1, <3>2, <3>3 DEF TurnInv
  <2>2. CASE CodexSubs # {}
    <3>1. PICK s \in CodexSubs : TRUE
      BY <2>2
    <3> QED BY <1>3, <3>1, TurnDecisionTypes, TurnDecisionsDecide, TurnWaitsKeep DEF TurnInv
  <2> QED BY <2>1, <2>2
<1>4. CASE T!FailProtocol \/ T!Codex \/ T!Stop \/ T!StopDrained
  BY <1>4, TurnOutsideTypes, TurnOutsideDecides, TurnEndsKeep, TurnCodexKeeps DEF TurnInv
<1> QED BY <1>1, <1>2, <1>3, <1>4 DEF T!Next

\* A turn's records, and what Core was told, agree at every step.
LEMMA AlwaysTurnInv == RuntimesSpec => []TurnInv
<1>1. T!Init => TurnInv
  <2> SUFFICES ASSUME T!Init PROVE TurnInv
    OBVIOUS
  <2>1. T!TypeOK
    <3>1. T!NoRecord \in Record
      BY DEF T!NoRecord, Record
    <3>2. 0 \in 0 .. 2 /\ 0 \in Nat
      OBVIOUS
    <3>3. trnQueue \in Seq(CodexSubs \union {"interrupt"})
      BY DEF T!Init
    <3> QED BY <3>1, <3>2, <3>3 DEF T!Init, T!TypeOK, T!Steps, Record
  <2>2. DecisionInv /\ TurnRecords /\ T!NobodyWaitsInVain
    BY DEF T!Init, DecisionInv, Deciding, TurnRecords, T!NobodyWaitsInVain, T!NoRecord, T!Barred
  <2> QED BY <2>1, <2>2 DEF TurnInv
<1>2. TurnInv /\ [T!Next]_(T!vars) => TurnInv'
  BY TurnInvKept, SubmissionsAssumption
<1> QED BY <1>1, <1>2, PTL DEF RuntimesSpec

\* Whoever was told that a turn took its input hears the end of that turn, in whatever order
\* the turn's end and the answers of the requests folded into it arrive, and a turn publishes
\* one result (codex/src/turn-manager.ts).
THEOREM SubmittersAlwaysHear == RuntimesSpec => []SubmittersHearTheEnd
<1>1. TurnInv => SubmittersHearTheEnd
  BY DEF TurnInv, TurnRecords, T!TypeOK, SubmittersHearTheEnd, T!OneResultPerTurn
<1> QED BY <1>1, AlwaysTurnInv, PTL DEF RuntimesSpec

----------------------------------------
(* What the turns promise of a submission                                  *)

\* What one step does to one submission.
Waits(s) ==
  /\ trnStep'[s] = "new" <=> trnStep[s] = "new"
  /\ trnAdmission'[s] = trnAdmission[s] /\ trnSettlement'[s] = trnSettlement[s]
Asks(s) ==
  /\ trnStep[s] = "new" /\ trnStep'[s] # "new"
  /\ trnAdmission'[s] = trnAdmission[s] /\ trnSettlement'[s] = trnSettlement[s]
Admits(s) ==
  /\ trnStep[s] \notin {"new", "over"} /\ trnStep'[s] = "over"
  /\ trnAdmission'[s] \in {"submitted", "stopped", "failed", "ambiguous"}
IsHeard(s) ==
  /\ trnStep'[s] = trnStep[s] /\ trnStep[s] = "over" /\ trnAdmission'[s] = trnAdmission[s]
  /\ trnAdmission[s] = "submitted" /\ trnSettlement[s] = "open" /\ trnSettlement'[s] # "open"
Told(s) == Waits(s) \/ Asks(s) \/ Admits(s) \/ IsHeard(s)

LEMMA MembersHear ==
  ASSUME T!TurnsAssumption, TurnInv, NEW ts \in SUBSET Turns, NEW what \in Turns \union {"failed", "stopped"},
         T!SettleAll(UNION {trnRecords[t].members : t \in ts}, what), UNCHANGED <<trnStep, trnAdmission>>
  PROVE  \A s \in CodexSubs : Told(s)
<1> TAKE s \in CodexSubs
<1>1. what # "open"
  BY DEF T!TurnsAssumption
<1>2. trnSettlement'[s] = IF s \in UNION {trnRecords[t].members : t \in ts} /\ trnSettlement[s] = "open"
                          THEN what ELSE trnSettlement[s]
  BY DEF T!SettleAll
<1>3. s \in UNION {trnRecords[t].members : t \in ts} => trnAdmission[s] = "submitted" /\ trnStep[s] = "over"
  BY DEF TurnInv, TurnRecords, DecisionInv
<1> QED BY <1>1, <1>2, <1>3 DEF Told, Waits, IsHeard

LEMMA TurnsTold ==
  ASSUME T!TurnsAssumption, TurnInv, [T!Next]_(T!vars)
  PROVE  (\A s \in CodexSubs : Told(s)) /\ (trnStopping = "done" => trnStopping' = "done")
<1> USE DEF TurnInv
<1>1. ASSUME NEW s \in CodexSubs, T!SubmitInput(s) PROVE \A u \in CodexSubs : Told(u)
  <2> TAKE u \in CodexSubs
  <2> QED BY <1>1 DEF T!SubmitInput, T!TypeOK, Told, Waits, Asks
<1>2. ASSUME NEW s \in CodexSubs, NEW outcome \in {"submitted", "stopped", "failed", "ambiguous"},
             T!Decided(s, outcome), (T!Running(s) /\ trnStep[s] = "queued") \/ Deciding(s),
             \A u \in CodexSubs : u # s => trnSettlement'[u] = trnSettlement[u]
      PROVE  \A u \in CodexSubs : Told(u)
  <2> TAKE u \in CodexSubs
  <2> QED BY <1>2 DEF T!Decided, Deciding, T!TypeOK, Told, Waits, Admits
<1>3. ASSUME NEW s \in CodexSubs, T!BeginSubmit(s) PROVE \A u \in CodexSubs : Told(u)
  <2>1. CASE T!Barred
    BY <1>2, <1>3, <2>1 DEF T!BeginSubmit, T!WhyBarred
  <2>2. CASE ~T!Barred
    BY <1>3, <2>2 DEF T!BeginSubmit, T!TypeOK, Told, Waits
  <2> QED BY <2>1, <2>2
<1>4. ASSUME NEW s \in CodexSubs, T!RefuseSubmit(s) PROVE \A u \in CodexSubs : Told(u)
  BY <1>2, <1>4 DEF T!RefuseSubmit, T!WhyBarred, Deciding
<1>5. ASSUME NEW s \in CodexSubs, T!SendTurnStart(s) PROVE \A u \in CodexSubs : Told(u)
  BY <1>5 DEF T!SendTurnStart, T!TypeOK, Told, Waits
<1>6. ASSUME NEW s \in CodexSubs, T!FailSubmit(s) PROVE \A u \in CodexSubs : Told(u)
  BY <1>2, <1>6 DEF T!FailSubmit, Deciding
<1>7. ASSUME NEW s \in CodexSubs, T!BindSubmission(s) PROVE \A u \in CodexSubs : Told(u)
  <2>1. \A u \in CodexSubs : u # s => trnSettlement'[u] = trnSettlement[u]
    BY <1>7, TurnBinds
  <2> QED BY <1>2, <1>7, <2>1 DEF T!BindSubmission, Deciding
<1>8. ASSUME T!Interrupt \/ T!InterruptEnds PROVE \A s \in CodexSubs : Told(s)
  BY <1>8 DEF T!Interrupt, T!InterruptEnds, Told, Waits
<1>9. ASSUME T!FailProtocol \/ T!StopDrained PROVE \A s \in CodexSubs : Told(s)
  <2> DEFINE opened == {t \in Turns : trnRecords[t].state = "open"}
  <2>1. /\ opened \in SUBSET Turns
        /\ \E what \in {"failed", "stopped"} : T!SettleAll(UNION {trnRecords[t].members : t \in opened}, what)
        /\ UNCHANGED <<trnStep, trnAdmission>>
    BY <1>9 DEF T!FailProtocol, T!StopDrained
  <2> HIDE DEF opened
  <2>2. PICK what \in {"failed", "stopped"} : T!SettleAll(UNION {trnRecords[t].members : t \in opened}, what)
    BY <2>1
  <2>3. what \in Turns \union {"failed", "stopped"}
    OBVIOUS
  <2> QED BY <2>1, <2>2, <2>3, MembersHear
<1>10. ASSUME NEW t \in Turns, NEW how, T!TurnEnds(t, how) PROVE \A s \in CodexSubs : Told(s)
  <2>1. CASE UNCHANGED <<trnSettlement, trnStep, trnAdmission>>
    BY <2>1 DEF Told, Waits
  <2>2. CASE T!SettleAll(trnRecords[t].members, t)
    <3>1. UNION {trnRecords[u].members : u \in {t}} = trnRecords[t].members
      OBVIOUS
    <3> QED BY <1>10, <2>2, <3>1, MembersHear DEF T!TurnEnds
  <2> QED BY <1>10, <2>1, <2>2 DEF T!TurnEnds, T!ObserveTerminal
<1>11. ASSUME \/ \E s \in CodexSubs, t \in Turns : T!Accept(s, t)
              \/ \E s \in CodexSubs : T!Respond(s)
              \/ T!ConnectionLost \/ T!Stop
       PROVE  \A s \in CodexSubs : Told(s)
  <2>1. UNCHANGED <<trnAdmission, trnSettlement>>
    BY <1>11 DEF T!Accept, T!Respond, T!ConnectionLost, T!Stop
  <2>2. \A s \in CodexSubs : trnStep'[s] = "new" <=> trnStep[s] = "new"
    BY <1>11 DEF T!Accept, T!Respond, T!ConnectionLost, T!Stop, T!Disconnected, T!TypeOK
  <2> QED BY <2>1, <2>2 DEF Told, Waits
<1>12. ASSUME UNCHANGED T!vars PROVE \A s \in CodexSubs : Told(s)
  BY <1>12 DEF T!vars, Told, Waits
<1>13. \A s \in CodexSubs : Told(s)
  BY <1>1, <1>3, <1>4, <1>5, <1>6, <1>7, <1>8, <1>9, <1>10, <1>11, <1>12 DEF T!Next, T!Decide, T!Codex
<1>14. trnStopping = "done" => trnStopping' = "done"
  BY DEF T!Next, T!SubmitInput, T!Decide, T!BeginSubmit, T!RefuseSubmit, T!SendTurnStart, T!FailSubmit, T!BindSubmission,
         T!Interrupt, T!InterruptEnds, T!FailProtocol, T!Codex, T!Accept, T!Respond, T!TurnEnds, T!ConnectionLost, T!Stop,
         T!StopDrained, T!vars
<1> QED BY <1>13, <1>14

\* Each of them is a move that the contract knows.
LEMMA TurnsKeep ==
  ASSUME T!TurnsAssumption, TurnInv, TurnInv', [T!Next]_(T!vars)
  PROVE  [T!Contract!Step]_(T!Contract!vars)
<1>1. (\A s \in CodexSubs : Told(s)) /\ (trnStopping = "done" => trnStopping' = "done")
  BY TurnsTold
<1>2. ASSUME NEW s \in CodexSubs, T!Promised(s)' # T!Promised(s)
      PROVE  <<T!Promised(s), T!Promised(s)'>> \in T!Contract!Moves
  <2>1. CASE Waits(s)
    BY <1>2, <2>1 DEF Waits, T!Promised
  <2>2. CASE Asks(s)
    BY <1>2, <2>2 DEF Asks, T!Promised, T!Contract!Moves, TurnInv, DecisionInv
  <2>3. CASE Admits(s)
    BY <1>2, <2>3 DEF Admits, T!Promised, T!Contract!Moves, TurnInv, DecisionInv
  <2>4. CASE IsHeard(s)
    BY <1>2, <2>4 DEF IsHeard, T!Promised, T!Contract!Moves
  <2> QED BY <1>1, <2>1, <2>2, <2>3, <2>4 DEF Told
<1>3. ASSUME trnStopping' = "done", NEW s \in CodexSubs PROVE T!Promised(s)' \notin {"asked", "accepted"}
  <2>1. /\ trnStep'[s] \in {"new", "over"} /\ (trnAdmission'[s] = "pending" <=> trnStep'[s] # "over")
        /\ trnAdmission'[s] = "submitted" => trnTaken'[s] \in Turns
                                             /\ trnSettlement'[s] \in {trnTaken'[s], "failed", "stopped"}
    BY <1>3 DEF TurnInv, DecisionInv, T!NobodyWaitsInVain
  <2> QED BY <2>1 DEF T!Promised, T!TurnsAssumption
<1> QED BY <1>1, <1>2, <1>3 DEF T!Contract!Step, T!Contract!Settled

\* The turns are what Core takes a runtime to be.
LEMMA TurnsKeepContract == RuntimesSpec => T!KeepsContract
<1>1. T!Init => T!Contract!Init
  BY DEF T!Init, T!Contract!Init, T!Promised
<1>2. TurnInv /\ [T!Next]_(T!vars) => TurnInv' /\ [T!Contract!Step]_(T!Contract!vars)
  BY TurnInvKept, TurnsKeep, SubmissionsAssumption
<1> QED BY <1>1, <1>2, AlwaysTurnInv, PTL DEF RuntimesSpec, T!KeepsContract, T!Contract!Spec

----------------------------------------
(* The session of Claude Code                                              *)

ClaudeTypes ==
  /\ claStopped \in BOOLEAN /\ claFenced \in BOOLEAN
  /\ claSession \in 0 .. Sessions /\ claMade \in 0 .. Sessions /\ claRpc \in 0 .. Sessions
  /\ claKill \in [C!Numbers -> {"no", "running", "failed", "done"}]
  /\ claStopReq \subseteq C!Numbers /\ claRequests \subseteq ClaudeSubs /\ claConsumed \subseteq ClaudeSubs
  /\ claStep \in [C!Callers -> {"new", "opening", "ensuring", "have", "writing", "readying", "over"}]
  /\ claTarget \in [C!Callers -> 0 .. Sessions]
  /\ claAdmission \in [ClaudeSubs -> {"pending", "submitted", "stopped", "failed", "ambiguous"}]
  /\ claSettlement \in [ClaudeSubs -> {"open", "completion", "failed", "stopped"}]
  /\ claPc \in [C!Tasks -> {"idle", "waiting", "closing", "draining", "stuck", "over"}]
  /\ claOn \in [C!Tasks -> 0 .. Sessions] /\ claVerdict \in [C!Tasks -> {"none", "gone", "kept"}]

\* What Core was told of a submission, and where it waits.
ClaudeCallerInv ==
  \A s \in ClaudeSubs :
    /\ claStep[s] = "over" <=> claAdmission[s] # "pending"
    /\ s \in claRequests => claStep[s] \in {"writing", "over"}
    /\ s \in claConsumed => claStep[s] = "over"
    /\ claAdmission[s] = "submitted" /\ claSettlement[s] = "open" => s \in claRequests

\* The open transport is that of the session at hand, which nobody has asked to stop; work
\* waits at a transport whose child was not lost, and under the timer.
ClaudeTransportInv ==
  /\ claRpc # 0 => /\ claRpc = claSession /\ claRpc \in claBound /\ claRpc \notin claStopReq
                   /\ ~claStopped /\ claCreating # "clearing"
  /\ claRequests # {} => claRpc # 0 /\ claRpc \notin claExitErr
  /\ claTimer \in BOOLEAN /\ (claTimer <=> claRequests # {})
  /\ \A s \in ClaudeSubs : claStep[s] = "have" => claTarget[s] # 0

ClaudeCreations == {"opening", "launching", "publishing", "aborting"}

\* What a stop and a creation know of the sessions.
ClaudeStopInv ==
  /\ \A n \in C!Numbers : claKill[n] # "no" => n \in claStopReq
  /\ \A k \in C!Tasks : claOn[k] # 0 => claOn[k] \in claStopReq
  /\ claStopped => claSession = 0 \/ claSession \in claStopReq
  /\ claCreating \in ClaudeCreations => claMade # 0 /\ (claSession = claMade \/ claMade \in claStopReq)
  /\ claFenced => claStopped
  /\ claPc["stop"] # "idle" => claStopped

ClaudeEndInv == claPc["stop"] = "over" => \A s \in ClaudeSubs : claStep[s] \in {"new", "over"}

ClaudeInv == ClaudeTypes /\ ClaudeCallerInv /\ ClaudeTransportInv /\ ClaudeStopInv /\ ClaudeEndInv

LEMMA ClaudeStarts == C!SessionsAssumption /\ C!Init => ClaudeInv
<1> SUFFICES ASSUME C!SessionsAssumption, C!Init PROVE ClaudeInv
  OBVIOUS
<1>1. ClaudeTypes
  <2>1. 0 \in 0 .. Sessions
    BY DEF C!SessionsAssumption
  <2> QED BY <2>1 DEF C!Init, ClaudeTypes
<1>2. ClaudeCallerInv
  BY DEF C!Init, ClaudeCallerInv, C!Callers
<1>3. ClaudeTransportInv
  BY DEF C!Init, ClaudeTransportInv, C!Callers
<1>4. ClaudeStopInv
  BY DEF C!Init, ClaudeStopInv, ClaudeCreations, C!Tasks
<1>5. ClaudeEndInv
  BY DEF C!Init, ClaudeEndInv, C!Tasks
<1> QED BY <1>1, <1>2, <1>3, <1>4, <1>5 DEF ClaudeInv

\* What one step does to one submission.
Stays(s) ==
  /\ claStep'[s] = claStep[s] /\ claAdmission'[s] = claAdmission[s] /\ claSettlement'[s] = claSettlement[s]
  /\ (s \in claRequests' <=> s \in claRequests) /\ (s \in claConsumed' => s \in claConsumed)
Advances(s) ==
  /\ claStep[s] # "over" /\ claStep'[s] \notin {"new", "over"}
  /\ claStep[s] = "new" => ~claStopped
  /\ claAdmission'[s] = claAdmission[s] /\ claSettlement'[s] = claSettlement[s]
  /\ (s \in claRequests' => claStep'[s] = "writing") /\ (s \in claRequests => s \in claRequests')
  /\ (s \in claConsumed' => s \in claConsumed)
Refuses(s) ==
  /\ claStep[s] \notin {"over", "writing"} /\ claStep'[s] = "over"
  /\ claAdmission'[s] \in {"stopped", "failed"} /\ claSettlement'[s] = claSettlement[s]
  /\ (s \in claRequests' <=> s \in claRequests) /\ (s \in claConsumed' => s \in claConsumed)
Accepts(s) ==
  /\ s \in claRequests /\ s \in claRequests' /\ claStep'[s] = "over"
  /\ claAdmission'[s] = IF claAdmission[s] = "pending" THEN "submitted" ELSE claAdmission[s]
  /\ claSettlement'[s] = claSettlement[s]
Ends(s) ==
  /\ s \in claRequests /\ s \notin claRequests' /\ claStep'[s] = "over" /\ claSettlement'[s] # "open"
  /\ IF claAdmission[s] = "pending" THEN claAdmission'[s] \in {"ambiguous", "submitted"}
                                    ELSE claAdmission'[s] = claAdmission[s]
Fate(s) == Stays(s) \/ Advances(s) \/ Refuses(s) \/ Accepts(s) \/ Ends(s)

\* Each of them is a move that the contract knows.
LEMMA FateKeeps ==
  ASSUME ClaudeInv, ClaudeTypes', \A s \in ClaudeSubs : Fate(s)
  PROVE  /\ ClaudeCallerInv'
         /\ \A s \in ClaudeSubs : C!Promised(s)' # C!Promised(s) =>
              <<C!Promised(s), C!Promised(s)'>> \in C!Contract!Moves
         /\ claPc["stop"] = "over" => \A s \in ClaudeSubs : claStep'[s] \in {"new", "over"}
<1> USE DEF ClaudeInv
<1>1. ASSUME NEW s \in ClaudeSubs
      PROVE  /\ claStep'[s] = "over" <=> claAdmission'[s] # "pending"
             /\ s \in claRequests' => claStep'[s] \in {"writing", "over"}
             /\ s \in claConsumed' => claStep'[s] = "over"
             /\ claAdmission'[s] = "submitted" /\ claSettlement'[s] = "open" => s \in claRequests'
  <2>1. CASE Stays(s)
    BY <2>1 DEF ClaudeCallerInv, Stays
  <2>2. CASE Advances(s)
    BY <2>2 DEF ClaudeCallerInv, Advances
  <2>3. CASE Refuses(s)
    BY <2>3 DEF ClaudeCallerInv, Refuses
  <2>4. CASE Accepts(s)
    BY <2>4 DEF ClaudeCallerInv, Accepts
  <2>5. CASE Ends(s)
    BY <2>5 DEF ClaudeCallerInv, Ends
  <2> QED BY <2>1, <2>2, <2>3, <2>4, <2>5 DEF Fate
<1>2. ASSUME NEW s \in ClaudeSubs, C!Promised(s)' # C!Promised(s)
      PROVE  <<C!Promised(s), C!Promised(s)'>> \in C!Contract!Moves
  <2>1. CASE Stays(s)
    BY <1>2, <2>1 DEF Stays, C!Promised
  <2>2. CASE Advances(s)
    BY <1>2, <2>2 DEF Advances, C!Promised, ClaudeCallerInv, C!Contract!Moves
  <2>3. CASE Refuses(s)
    BY <1>2, <2>3 DEF Refuses, C!Promised, ClaudeCallerInv, C!Contract!Moves
  <2>4. CASE Accepts(s)
    BY <1>2, <2>4 DEF Accepts, C!Promised, ClaudeCallerInv, C!Contract!Moves
  <2>5. CASE Ends(s)
    BY <1>2, <2>5 DEF Ends, C!Promised, ClaudeCallerInv, C!Contract!Moves
  <2> QED BY <2>1, <2>2, <2>3, <2>4, <2>5 DEF Fate
<1>3. ASSUME claPc["stop"] = "over", NEW s \in ClaudeSubs PROVE claStep'[s] \in {"new", "over"}
  <2>1. claStep[s] \in {"new", "over"} /\ claStopped
    BY <1>3 DEF ClaudeStopInv, ClaudeEndInv
  <2> QED BY <2>1 DEF ClaudeCallerInv, Fate, Stays, Advances, Refuses, Accepts, Ends
<1> QED BY <1>1, <1>2, <1>3 DEF ClaudeCallerInv

\* Who closes the transport answers what was written to it.
LEMMA CloseEnds ==
  ASSUME ClaudeInv, NEW how \in {"failed", "stopped"}, C!CloseTransport(how)
  PROVE  /\ \A s \in ClaudeSubs : Fate(s) /\ claStep'[s] \in {claStep[s], "over"}
         /\ claRpc' = 0 /\ claRequests' = {} /\ claConsumed' = {} /\ claTimer' = FALSE
         /\ claStep' \in [C!Callers -> {"new", "opening", "ensuring", "have", "writing", "readying", "over"}]
         /\ claAdmission' \in [ClaudeSubs -> {"pending", "submitted", "stopped", "failed", "ambiguous"}]
         /\ claSettlement' \in [ClaudeSubs -> {"open", "completion", "failed", "stopped"}]
<1> USE DEF ClaudeInv, ClaudeTypes, C!CloseTransport, C!Settle
<1>1. ASSUME NEW s \in ClaudeSubs PROVE Fate(s) /\ claStep'[s] \in {claStep[s], "over"}
  <2>1. s \in C!Callers
    BY DEF C!Callers
  <2>2. CASE s \in claRequests
    BY <2>1, <2>2 DEF Fate, Ends
  <2>3. CASE s \notin claRequests
    BY <2>1, <2>3 DEF Fate, Stays
  <2> QED BY <2>2, <2>3
<1> QED BY <1>1

\* A session that is stopped, by whom and whatever had become of it.
LEMMA StopSessionEnds ==
  ASSUME ClaudeInv, NEW n \in 0 .. Sessions, NEW ks \in SUBSET C!Tasks, C!StopSession(n, ks),
         C!SessionsAssumption
  PROVE  /\ \A s \in ClaudeSubs : Fate(s) /\ claStep'[s] \in {claStep[s], "over"}
         /\ claStopReq \subseteq claStopReq' /\ claStopReq' \subseteq C!Numbers
         /\ n # 0 => n \in claStopReq'
         /\ claKill' \in [C!Numbers -> {"no", "running", "failed", "done"}]
         /\ \A m \in C!Numbers : claKill'[m] # "no" => m \in claStopReq'
         /\ claOn' \in [C!Tasks -> 0 .. Sessions] /\ claVerdict' \in [C!Tasks -> {"none", "gone", "kept"}]
         /\ \A k \in C!Tasks : claOn'[k] # 0 => claOn'[k] \in claStopReq'
         /\ claStep' \in [C!Callers -> {"new", "opening", "ensuring", "have", "writing", "readying", "over"}]
         /\ claAdmission' \in [ClaudeSubs -> {"pending", "submitted", "stopped", "failed", "ambiguous"}]
         /\ claSettlement' \in [ClaudeSubs -> {"open", "completion", "failed", "stopped"}]
         /\ claRequests' \subseteq ClaudeSubs /\ claConsumed' \subseteq ClaudeSubs
         /\ claTimer' \in BOOLEAN /\ (claTimer' <=> claRequests' # {})
         /\ claRpc' \in {0, claRpc} /\ (claRpc' # 0 => claRpc \notin claStopReq') /\ (claRpc = n => claRpc' = 0)
         /\ claRequests' # {} => claRequests' = claRequests /\ claRpc' # 0
<1> USE DEF ClaudeInv
<1>1. /\ claStopReq' = IF n = 0 THEN claStopReq ELSE claStopReq \union {n}
      /\ claOn' = [k \in C!Tasks |-> IF k \in ks THEN n ELSE claOn[k]]
      /\ claVerdict' = [k \in C!Tasks |-> IF k \notin ks THEN claVerdict[k]
                        ELSE IF n # 0 /\ (claKill[n] = "running" \/ (claKill[n] \in {"no", "failed"} /\ claChild[n] # "unborn"))
                             THEN "none" ELSE "gone"]
  BY DEF C!StopSession
<1>2. \/ claKill' = claKill /\ ~(n # 0 /\ claKill[n] \in {"no", "failed"}) /\ C!KeepTransport
      \/ /\ n # 0 /\ claKill' = [claKill EXCEPT ![n] = IF claChild[n] = "unborn" THEN "done" ELSE "running"]
         /\ IF claRpc = n THEN C!CloseTransport("stopped") ELSE C!KeepTransport
  BY DEF C!StopSession
<1>3. n # 0 => n \in C!Numbers
  BY DEF C!Numbers, C!SessionsAssumption
<1>4. /\ claStopReq \subseteq claStopReq' /\ claStopReq' \subseteq C!Numbers /\ (n # 0 => n \in claStopReq')
      /\ claOn' \in [C!Tasks -> 0 .. Sessions] /\ claVerdict' \in [C!Tasks -> {"none", "gone", "kept"}]
  BY <1>1, <1>3 DEF ClaudeTypes
<1>5. \A k \in C!Tasks : claOn'[k] # 0 => claOn'[k] \in claStopReq'
  BY <1>1, <1>4 DEF ClaudeStopInv
<1>6. /\ claKill' \in [C!Numbers -> {"no", "running", "failed", "done"}]
      /\ \A m \in C!Numbers : claKill'[m] # "no" => m \in claStopReq'
  <2>1. CASE claKill' = claKill
    BY <1>4, <2>1 DEF ClaudeTypes, ClaudeStopInv
  <2>2. CASE n # 0 /\ claKill' = [claKill EXCEPT ![n] = IF claChild[n] = "unborn" THEN "done" ELSE "running"]
    BY <1>3, <1>4, <2>2 DEF ClaudeTypes, ClaudeStopInv
  <2> QED BY <1>2, <2>1, <2>2
<1>7. CASE n # 0 /\ claRpc = n /\ C!CloseTransport("stopped")
  BY <1>4, <1>5, <1>6, <1>7, CloseEnds
<1>8. CASE C!KeepTransport /\ ~(n # 0 /\ claRpc = n)
  <2>1. \A s \in ClaudeSubs : Stays(s) /\ claStep'[s] = claStep[s]
    BY <1>8 DEF C!KeepTransport, C!transport, Stays
  <2>2. claRpc' = claRpc /\ claRequests' = claRequests /\ claConsumed' = claConsumed /\ claTimer' = claTimer
        /\ UNCHANGED <<claStep, claAdmission, claSettlement>>
    BY <1>8 DEF C!KeepTransport, C!transport
  <2>3. claRpc # 0 => claRpc \notin claStopReq'
    BY <1>1, <1>8 DEF ClaudeTransportInv
  <2> QED BY <1>4, <1>5, <1>6, <1>8, <2>1, <2>2, <2>3 DEF ClaudeTransportInv, ClaudeTypes, Fate
<1> QED
  <2>1. CASE n # 0 /\ claRpc = n
    <3>1. claKill[n] = "no"
      BY <1>3, <2>1 DEF ClaudeStopInv, ClaudeTransportInv
    <3> QED BY <1>2, <1>7, <2>1, <3>1
  <2>2. CASE ~(n # 0 /\ claRpc = n)
    BY <1>2, <1>8, <2>2
  <2> QED BY <2>1, <2>2

\* A step that keeps what the session promises.
ClaudeSound ==
  /\ ClaudeTypes' /\ ClaudeTransportInv' /\ ClaudeStopInv' /\ \A s \in ClaudeSubs : Fate(s)
  /\ claPc["stop"] = "over" => claPc'["stop"] = "over"
  /\ claPc'["stop"] = "over" /\ claPc["stop"] # "over" => \A s \in ClaudeSubs : claStep'[s] \in {"new", "over"}

\* What touches neither a submission nor the transport.
LEMMA AsideSound ==
  ASSUME C!SessionsAssumption, ClaudeInv,
         \/ C!Start \/ C!StartEnds \/ C!Launch \/ C!Interrupt \/ C!InterruptAnswered \/ C!ExitHandled
         \/ C!FenceTorn \/ C!StopTorn \/ C!StopEnds \/ \E n \in C!Numbers : C!KillEnds(n)
  PROVE  ClaudeSound
<1> USE DEF ClaudeInv
<1>1. /\ UNCHANGED <<claStopped, claFenced, claMade, claBound, claStopReq, claExitErr, claRpc, claRequests, claConsumed, claTimer,
                     claTarget, claAdmission, claSettlement, claOn>>
      /\ \A s \in ClaudeSubs : claStep'[s] = claStep[s]
      /\ claStep' \in [C!Callers -> {"new", "opening", "ensuring", "have", "writing", "readying", "over"}]
  <2>1. CASE C!Start \/ C!StartEnds
    <3>1. /\ UNCHANGED <<C!runtime, C!children, C!transport, claTarget, claAdmission, claSettlement, C!waits>>
          /\ \E v \in {"opening", "readying", "over"} : claStep' = [claStep EXCEPT !["start"] = v]
      BY <2>1 DEF C!Start, C!StartEnds
    <3> QED BY <3>1 DEF C!runtime, C!children, C!transport, C!waits, ClaudeTypes, C!SessionsAssumption, C!Callers
  <2>2. CASE C!Launch \/ C!Interrupt \/ C!InterruptAnswered
    BY <2>2 DEF C!Launch, C!Interrupt, C!InterruptAnswered, C!runtime, C!children, C!transport, C!callers, C!waits,
           ClaudeTypes
  <2>3. CASE C!ExitHandled \/ C!FenceTorn \/ C!StopTorn
    BY <2>3 DEF C!ExitHandled, C!FenceTorn, C!StopTorn, C!children, C!transport, C!callers, ClaudeTypes
  <2>4. CASE C!StopEnds
    BY <2>4 DEF C!StopEnds, C!runtime, C!children, C!transport, C!callers, ClaudeTypes
  <2>5. CASE \E n \in C!Numbers : C!KillEnds(n)
    BY <2>5 DEF C!KillEnds, C!runtime, C!transport, C!callers, ClaudeTypes
  <2> QED BY <2>1, <2>2, <2>3, <2>4, <2>5
<1>2. /\ claPc' \in [C!Tasks -> {"idle", "waiting", "closing", "draining", "stuck", "over"}]
      /\ claVerdict' \in [C!Tasks -> {"none", "gone", "kept"}]
      /\ claKill' \in [C!Numbers -> {"no", "running", "failed", "done"}]
      /\ \A n \in C!Numbers : claKill'[n] # "no" => claKill[n] # "no"
      /\ claPc["stop"] = "over" => claPc'["stop"] = "over"
      /\ claPc'["stop"] # "idle" => claPc["stop"] # "idle"
      /\ claPc'["stop"] = "over" /\ claPc["stop"] # "over" => \A s \in ClaudeSubs : claStep[s] \in {"new", "over"}
  <2>1. CASE C!Start \/ C!StartEnds \/ C!Launch \/ C!Interrupt \/ C!InterruptAnswered
    BY <2>1 DEF C!Start, C!StartEnds, C!Launch, C!Interrupt, C!InterruptAnswered, C!runtime, C!children, C!transport,
           C!callers, C!waits, ClaudeTypes
  <2>2. CASE C!ExitHandled \/ C!FenceTorn \/ C!StopTorn \/ C!StopEnds
    BY <2>2 DEF C!ExitHandled, C!FenceTorn, C!StopTorn, C!StopEnds, C!children, ClaudeTypes, C!Tasks
  <2>3. ASSUME NEW n \in C!Numbers, C!KillEnds(n)
        PROVE  /\ claPc' = claPc /\ claVerdict' \in [C!Tasks -> {"none", "gone", "kept"}]
               /\ claKill' \in [C!Numbers -> {"no", "running", "failed", "done"}]
               /\ \A m \in C!Numbers : claKill'[m] # "no" => claKill[m] # "no"
    BY <2>3 DEF C!KillEnds, ClaudeTypes
  <2> QED BY <2>1, <2>2, <2>3 DEF ClaudeTypes
<1>3. \/ claSession' = claSession
      \/ claSession' = 0 /\ \E k \in C!Tasks : claSession = claOn[k]
  BY DEF C!Start, C!StartEnds, C!Launch, C!Interrupt, C!InterruptAnswered, C!ExitHandled, C!FenceTorn, C!StopTorn,
         C!StopEnds, C!KillEnds, C!runtime, C!Dropped, C!Tasks
<1>4. claCreating' \in ClaudeCreations => claCreating \in ClaudeCreations
  BY DEF C!Start, C!StartEnds, C!Launch, C!Interrupt, C!InterruptAnswered, C!ExitHandled, C!FenceTorn, C!StopTorn,
         C!StopEnds, C!KillEnds, ClaudeCreations
<1>5. claCreating' = "clearing" => claCreating = "clearing"
  BY DEF C!Start, C!StartEnds, C!Launch, C!Interrupt, C!InterruptAnswered, C!ExitHandled, C!FenceTorn, C!StopTorn,
         C!StopEnds, C!KillEnds
<1>6. ClaudeTypes'
  BY <1>1, <1>2, <1>3 DEF ClaudeTypes, C!SessionsAssumption
<1>7. claSession' # claSession => claSession' = 0 /\ (claSession = 0 \/ claSession \in claStopReq)
  BY <1>3 DEF ClaudeStopInv
<1>8. ClaudeTransportInv'
  BY <1>1, <1>5, <1>7 DEF ClaudeTransportInv
<1>9. ClaudeStopInv'
  BY <1>1, <1>2, <1>4, <1>7 DEF ClaudeStopInv
<1>10. \A s \in ClaudeSubs : Fate(s)
  BY <1>1 DEF Fate, Stays
<1> QED BY <1>1, <1>2, <1>6, <1>8, <1>9, <1>10 DEF ClaudeSound


\* Who waits for a creation goes on with its session, or is refused.
LEMMA EnsuredEnds ==
  ASSUME ClaudeInv, NEW n \in 0 .. Sessions, C!Ensured(n), UNCHANGED <<claRequests, claConsumed, claSettlement>>
  PROVE  /\ \A s \in ClaudeSubs : Fate(s) /\ (claStep'[s] = "have" => claTarget'[s] # 0)
         /\ claStep' \in [C!Callers -> {"new", "opening", "ensuring", "have", "writing", "readying", "over"}]
         /\ claAdmission' \in [ClaudeSubs -> {"pending", "submitted", "stopped", "failed", "ambiguous"}]
         /\ claTarget' \in [C!Callers -> 0 .. Sessions]
<1> USE DEF ClaudeInv, ClaudeTypes, C!Ensured
<1>1. ASSUME NEW s \in ClaudeSubs PROVE Fate(s) /\ (claStep'[s] = "have" => claTarget'[s] # 0)
  <2>1. s \in C!Callers
    BY DEF C!Callers
  <2>2. CASE claStep[s] # "ensuring"
    BY <2>1, <2>2 DEF Fate, Stays, ClaudeTransportInv
  <2>3. CASE claStep[s] = "ensuring" /\ n = 0
    BY <2>1, <2>3 DEF Fate, Refuses
  <2>4. CASE claStep[s] = "ensuring" /\ n # 0
    BY <2>1, <2>4 DEF Fate, Advances, ClaudeCallerInv
  <2> QED BY <2>2, <2>3, <2>4
<1> QED BY <1>1

\* A stop, the fence, or the end of a creation stops a session.
LEMMA StopsSound ==
  ASSUME C!SessionsAssumption, ClaudeInv, C!Abort \/ C!StopBegins \/ C!FenceCloses \/ C!StopFenced \/ C!StopAgain
  PROVE  ClaudeSound
<1> USE DEF ClaudeInv
<1>0. 0 \in 0 .. Sessions
  BY DEF C!SessionsAssumption
<1>1. CASE C!Abort /\ claStopped
  <2>1. /\ UNCHANGED <<claStopped, claFenced, claSession, claMade, claBound, claStopReq, claExitErr, claKill, claRpc, claRequests,
                       claConsumed, claTimer, claSettlement, claPc, claOn, claVerdict>>
        /\ claCreating' = "no" /\ C!Ensured(0)
    BY <1>1 DEF C!Abort, C!CreationFails, C!runtime, C!transport, C!waits
  <2>2. ClaudeTransportInv' /\ ClaudeTypes' /\ \A s \in ClaudeSubs : Fate(s)
    BY <1>0, <2>1, EnsuredEnds DEF ClaudeTransportInv, ClaudeTypes
  <2>3. ClaudeStopInv'
    BY <2>1 DEF ClaudeStopInv, ClaudeCreations
  <2> QED BY <2>1, <2>2, <2>3 DEF ClaudeSound
<1>2. CASE \/ (C!Abort /\ ~claStopped) \/ C!StopBegins \/ C!FenceCloses \/ C!StopFenced \/ C!StopAgain
  <2>1. /\ UNCHANGED <<claSession, claMade, claBound, claExitErr, claTarget, claCreating>>
        /\ claStopped' \in BOOLEAN /\ claFenced' \in BOOLEAN /\ (claStopped => claStopped')
        /\ (claFenced' => claStopped')
        /\ claPc' \in [C!Tasks -> {"idle", "waiting", "closing", "draining", "stuck", "over"}]
        /\ (claPc'["stop"] # "idle" => claStopped')
        /\ (claPc["stop"] # "over" /\ claPc'["stop"] # "over") \/ claPc'["stop"] = claPc["stop"]
    <3>1. CASE C!Abort /\ ~claStopped
      BY <3>1 DEF C!Abort, C!runtime, ClaudeTypes, ClaudeStopInv, C!Tasks
    <3>2. CASE C!StopBegins
      BY <3>2 DEF C!StopBegins, ClaudeTypes, ClaudeStopInv, C!Tasks
    <3>3. CASE C!FenceCloses
      BY <3>3 DEF C!FenceCloses, ClaudeTypes, ClaudeStopInv, C!Tasks
    <3>4. CASE C!StopFenced
      BY <3>4 DEF C!StopFenced, C!runtime, ClaudeTypes, ClaudeStopInv, C!Tasks
    <3>5. CASE C!StopAgain
      BY <3>5 DEF C!StopAgain, C!runtime, ClaudeTypes, ClaudeStopInv, C!Tasks
    <3> QED BY <1>2, <3>1, <3>2, <3>3, <3>4, <3>5
  <2>2. \/ C!KeepTransport /\ UNCHANGED <<claStopReq, claKill, claOn, claVerdict, claStopped>>
        \/ \E n \in 0 .. Sessions, ks \in SUBSET C!Tasks :
             C!StopSession(n, ks) /\ (n = claSession \/ claStopped' = claStopped)
    <3>1. claSession \in 0 .. Sessions /\ claMade \in 0 .. Sessions
      BY DEF ClaudeTypes
    <3>2. {"create"} \in SUBSET C!Tasks /\ {"stop"} \in SUBSET C!Tasks /\ {"fence"} \in SUBSET C!Tasks
      BY DEF C!Tasks
    <3>3. CASE C!Abort /\ ~claStopped
      BY <3>1, <3>2, <3>3 DEF C!Abort, C!runtime
    <3>4. CASE C!StopBegins
      BY <3>1, <3>2, <3>4 DEF C!StopBegins
    <3>5. CASE C!FenceCloses
      BY <3>1, <3>2, <3>5 DEF C!FenceCloses
    <3>6. CASE C!StopFenced
      BY <3>1, <3>2, <3>6 DEF C!StopFenced, C!runtime
    <3>7. CASE C!StopAgain
      BY <3>1, <3>2, <3>7 DEF C!StopAgain, C!runtime
    <3> QED BY <1>2, <3>3, <3>4, <3>5, <3>6, <3>7
  <2>3. CASE C!KeepTransport /\ UNCHANGED <<claStopReq, claKill, claOn, claVerdict, claStopped>>
    <3>1. /\ UNCHANGED <<claRpc, claRequests, claConsumed, claTimer, claStep, claAdmission, claSettlement>>
          /\ UNCHANGED <<claStopReq, claKill, claOn, claVerdict, claStopped>>
      BY <2>3 DEF C!KeepTransport, C!transport
    <3>2. ClaudeTypes' /\ ClaudeTransportInv'
      BY <2>1, <3>1 DEF ClaudeTypes, ClaudeTransportInv
    <3>3. ClaudeStopInv'
      BY <2>1, <3>1 DEF ClaudeStopInv
    <3>4. \A s \in ClaudeSubs : Fate(s)
      BY <3>1 DEF Fate, Stays
    <3> QED BY <2>1, <3>2, <3>3, <3>4 DEF ClaudeSound
  <2>4. ASSUME NEW n \in 0 .. Sessions, NEW ks \in SUBSET C!Tasks, C!StopSession(n, ks),
               n = claSession \/ claStopped' = claStopped
        PROVE  ClaudeSound
    <3>1. /\ \A s \in ClaudeSubs : Fate(s) /\ claStep'[s] \in {claStep[s], "over"}
          /\ claStopReq \subseteq claStopReq' /\ claStopReq' \subseteq C!Numbers
          /\ n # 0 => n \in claStopReq'
          /\ claKill' \in [C!Numbers -> {"no", "running", "failed", "done"}]
          /\ \A m \in C!Numbers : claKill'[m] # "no" => m \in claStopReq'
          /\ claOn' \in [C!Tasks -> 0 .. Sessions] /\ claVerdict' \in [C!Tasks -> {"none", "gone", "kept"}]
          /\ \A k \in C!Tasks : claOn'[k] # 0 => claOn'[k] \in claStopReq'
          /\ claStep' \in [C!Callers -> {"new", "opening", "ensuring", "have", "writing", "readying", "over"}]
          /\ claAdmission' \in [ClaudeSubs -> {"pending", "submitted", "stopped", "failed", "ambiguous"}]
          /\ claSettlement' \in [ClaudeSubs -> {"open", "completion", "failed", "stopped"}]
          /\ claRequests' \subseteq ClaudeSubs /\ claConsumed' \subseteq ClaudeSubs
          /\ claTimer' \in BOOLEAN /\ (claTimer' <=> claRequests' # {})
          /\ claRpc' \in {0, claRpc} /\ (claRpc' # 0 => claRpc \notin claStopReq') /\ (claRpc = n => claRpc' = 0)
          /\ claRequests' # {} => claRequests' = claRequests /\ claRpc' # 0
      BY <2>4, StopSessionEnds
    <3>2. ClaudeTypes'
      BY <2>1, <3>1 DEF ClaudeTypes, C!SessionsAssumption
    <3>3. ClaudeTransportInv'
      <4>1. claRpc' # 0 => claRpc' = claRpc /\ n # claSession
        BY <3>1 DEF ClaudeTransportInv
      <4>2. claRpc' # 0 => claStopped' = claStopped
        BY <2>4, <4>1
      <4>3. \A s \in ClaudeSubs : claStep'[s] = "have" => claTarget'[s] # 0
        BY <2>1, <3>1 DEF ClaudeTransportInv
      <4> QED BY <2>1, <3>1, <4>1, <4>2, <4>3 DEF ClaudeTransportInv
    <3>4. ClaudeStopInv'
      BY <2>1, <2>4, <3>1 DEF ClaudeStopInv
    <3> QED BY <2>1, <3>1, <3>2, <3>3, <3>4 DEF ClaudeSound
  <2> QED BY <2>2, <2>3, <2>4
<1> QED BY <1>1, <1>2

\* A session is asked for, and one is made.
LEMMA CreationSound ==
  ASSUME C!SessionsAssumption, ClaudeInv,
         (\E c \in C!Callers : C!Ensure(c)) \/ C!Cleared \/ C!Spawned \/ C!Published \/ C!Aborted
  PROVE  ClaudeSound
<1> USE DEF ClaudeInv
<1>0. 0 \in 0 .. Sessions
  BY DEF C!SessionsAssumption
<1>1. CASE C!Spawned
  <2>1. /\ UNCHANGED <<claStopped, claFenced, claSession, claMade, claStopReq, claExitErr, claKill, claRequests, claConsumed,
                       claTimer, claStep, claTarget, claAdmission, claSettlement, claPc, claOn, claVerdict>>
        /\ claMade # 0 /\ claMade \in 0 .. Sessions /\ claBound' = claBound \union {claMade}
        /\ claRpc' = claRpc \/ (claRpc' = claMade /\ claMade \notin claStopReq)
        /\ claCreating' \in ClaudeCreations /\ claCreating' # "clearing"
    BY <1>1 DEF C!Spawned, C!runtime, C!callers, C!waits, ClaudeStopInv, ClaudeCreations, ClaudeTypes
  <2>2. claRpc' = claMade /\ claMade \notin claStopReq => claMade = claSession /\ ~claStopped
    BY <1>1, <2>1 DEF C!Spawned, ClaudeStopInv, ClaudeCreations
  <2>3. claRequests # {} => claRpc' \notin claExitErr
    BY <2>1, <2>2 DEF ClaudeTransportInv
  <2>4. ClaudeTypes'
    BY <2>1 DEF ClaudeTypes
  <2>5. ClaudeTransportInv'
    BY <2>1, <2>2, <2>3 DEF ClaudeTransportInv
  <2>6. ClaudeStopInv'
    BY <1>1, <2>1 DEF ClaudeStopInv, C!Spawned, ClaudeCreations
  <2>7. \A s \in ClaudeSubs : Fate(s)
    BY <2>1 DEF Fate, Stays
  <2> QED BY <2>1, <2>4, <2>5, <2>6, <2>7 DEF ClaudeSound
<1>2. CASE C!Published \/ C!Aborted \/ C!Cleared
  <2>1. /\ UNCHANGED <<claStopped, claFenced, claBound, claStopReq, claExitErr, claKill, claRpc, claRequests, claConsumed, claTimer,
                       claSettlement, claOn, claVerdict>>
        /\ claPc' \in [C!Tasks -> {"idle", "waiting", "closing", "draining", "stuck", "over"}]
        /\ claPc'["stop"] = claPc["stop"]
        /\ claMade' \in 0 .. Sessions /\ claSession' \in 0 .. Sessions
        /\ \/ UNCHANGED <<claStep, claTarget, claAdmission>>
           \/ \E n \in 0 .. Sessions : C!Ensured(n)
    <3>1. CASE C!Published
      BY <1>0, <3>1 DEF C!Published, C!runtime, C!children, C!transport, C!waits, ClaudeTypes
    <3>2. CASE C!Aborted
      BY <1>0, <3>2 DEF C!Aborted, C!CreationFails, C!Dropped, C!children, C!transport, ClaudeTypes, C!Tasks
    <3>3. CASE C!Cleared
      BY <1>0, <3>3 DEF C!Cleared, C!NewSession, C!CreationFails, C!children, C!transport, C!waits, ClaudeTypes,
             C!SessionsAssumption
    <3> QED BY <1>2, <3>1, <3>2, <3>3
  <2>2. /\ \A s \in ClaudeSubs : Fate(s) /\ (claStep'[s] = "have" => claTarget'[s] # 0)
        /\ claStep' \in [C!Callers -> {"new", "opening", "ensuring", "have", "writing", "readying", "over"}]
        /\ claAdmission' \in [ClaudeSubs -> {"pending", "submitted", "stopped", "failed", "ambiguous"}]
        /\ claTarget' \in [C!Callers -> 0 .. Sessions]
    <3>1. CASE UNCHANGED <<claStep, claTarget, claAdmission>>
      BY <2>1, <3>1 DEF Fate, Stays, ClaudeTransportInv, ClaudeTypes
    <3>2. CASE \E n \in 0 .. Sessions : C!Ensured(n)
      BY <2>1, <3>2, EnsuredEnds
    <3> QED BY <2>1, <3>1, <3>2
  <2>3. ClaudeTypes'
    BY <2>1, <2>2 DEF ClaudeTypes
  <2>4. /\ claCreating' # "clearing"
        /\ claSession' = claSession \/ (claRpc = 0 /\ ~claStopped) \/ (claSession' = 0 /\ claSession \in claStopReq)
        /\ claCreating' \in ClaudeCreations => claMade' # 0 /\ (claSession' = claMade' \/ claMade' \in claStopReq)
    <3>1. CASE C!Published
      BY <3>1 DEF C!Published, C!runtime, ClaudeCreations, ClaudeStopInv
    <3>2. CASE C!Aborted
      BY <3>2 DEF C!Aborted, C!CreationFails, C!Dropped, ClaudeCreations, ClaudeStopInv, C!Tasks
    <3>3. CASE C!Cleared
      <4>1. claRpc = 0
        BY <3>3 DEF C!Cleared, ClaudeTransportInv
      <4>2. claMade + 1 # 0
        BY DEF ClaudeTypes, C!SessionsAssumption
      <4> QED BY <3>3, <4>1, <4>2 DEF C!Cleared, C!NewSession, C!CreationFails, ClaudeStopInv, ClaudeCreations, C!Tasks
    <3> QED BY <1>2, <3>1, <3>2, <3>3
  <2>5. ClaudeTransportInv'
    BY <2>1, <2>2, <2>4 DEF ClaudeTransportInv
  <2>6. ClaudeStopInv'
    BY <2>1, <2>4 DEF ClaudeStopInv
  <2> QED BY <2>1, <2>2, <2>3, <2>5, <2>6 DEF ClaudeSound
<1>3. ASSUME NEW c \in C!Callers, C!Ensure(c) PROVE ClaudeSound
  <2>1. UNCHANGED <<claStopped, claFenced, claChild, claBound, claExitErr, claRequests, claConsumed, claTimer, claSettlement, claPc>>
    BY <1>3 DEF C!Ensure
  <2>2. /\ claStep[c] \in {"new", "opening"} /\ (c \in ClaudeSubs => claStep[c] = "new")
        /\ \/ /\ claStopped /\ claStep' = [claStep EXCEPT ![c] = "over"] /\ UNCHANGED claTarget
              /\ claAdmission' = [s \in ClaudeSubs |-> IF s = c THEN "stopped" ELSE claAdmission[s]]
           \/ /\ ~claStopped /\ claSession # 0 /\ claStep' = [claStep EXCEPT ![c] = "have"]
              /\ claTarget' = [claTarget EXCEPT ![c] = claSession] /\ UNCHANGED claAdmission
           \/ /\ ~claStopped /\ claStep' = [claStep EXCEPT ![c] = "ensuring"]
              /\ UNCHANGED <<claTarget, claAdmission>>
    BY <1>3 DEF C!Ensure, C!SessionsAssumption
  <2>3. /\ claStep' \in [C!Callers -> {"new", "opening", "ensuring", "have", "writing", "readying", "over"}]
        /\ claAdmission' \in [ClaudeSubs -> {"pending", "submitted", "stopped", "failed", "ambiguous"}]
        /\ claTarget' \in [C!Callers -> 0 .. Sessions]
    BY <2>2 DEF ClaudeTypes
  <2>4. ASSUME NEW s \in ClaudeSubs PROVE Fate(s) /\ (claStep'[s] = "have" => claTarget'[s] # 0)
    <3>1. s \in C!Callers
      BY DEF C!Callers
    <3>2. CASE s # c
      BY <2>1, <2>2, <3>1, <3>2 DEF ClaudeTypes, Fate, Stays, ClaudeTransportInv
    <3>3. CASE s = c
      <4>1. /\ claStep[s] = "new" /\ claAdmission'[s] = IF claStopped THEN "stopped" ELSE claAdmission[s]
            /\ claStep'[s] \in IF claStopped THEN {"over"} ELSE {"have", "ensuring"}
            /\ claStep'[s] = "have" => claTarget'[s] # 0
        BY <2>2, <3>1, <3>3 DEF ClaudeTypes
      <4> QED BY <2>1, <4>1 DEF Fate, Refuses, Advances, ClaudeCallerInv
    <3> QED BY <3>2, <3>3
  <2>5. CASE UNCHANGED <<claSession, claMade, claRpc, claStopReq, claKill, claOn, claVerdict, claCreating>>
    <3>1. ClaudeTypes'
      BY <2>1, <2>3, <2>5 DEF ClaudeTypes
    <3>2. ClaudeTransportInv'
      BY <2>1, <2>4, <2>5 DEF ClaudeTransportInv
    <3>3. ClaudeStopInv'
      BY <2>1, <2>5 DEF ClaudeStopInv
    <3> QED BY <2>1, <2>4, <3>1, <3>2, <3>3 DEF ClaudeSound
  <2>6. CASE ~claStopped /\ claSession = 0 /\ C!NewSession /\ UNCHANGED <<claRpc, claStopReq, claKill, claOn, claVerdict>>
    <3>1. claMade' \in 0 .. Sessions /\ claSession' = claMade' /\ claMade' # 0 /\ claCreating' = "opening"
      BY <2>6 DEF C!NewSession, ClaudeTypes, C!SessionsAssumption
    <3>2. ClaudeTypes'
      BY <2>1, <2>3, <2>6, <3>1 DEF ClaudeTypes
    <3>3. ClaudeTransportInv'
      BY <2>1, <2>4, <2>6, <3>1 DEF ClaudeTransportInv
    <3>4. ClaudeStopInv'
      BY <2>1, <2>6, <3>1 DEF ClaudeStopInv
    <3> QED BY <2>1, <2>4, <3>2, <3>3, <3>4 DEF ClaudeSound
  <2>7. CASE ~claStopped /\ claSession # 0 /\ ~C!IsAlive(claSession) /\ C!BeginCreation
    <3>1. /\ claCreating' = "clearing" /\ UNCHANGED <<claSession, claMade>>
          /\ claRpc' = IF claRpc = claSession THEN 0 ELSE claRpc
          /\ claStopReq' = claStopReq \union {claSession}
          /\ claKill' = [claKill EXCEPT ![claSession] = IF @ \in {"no", "failed"} THEN "running" ELSE @]
          /\ claOn' = [claOn EXCEPT !["create"] = claSession]
          /\ claVerdict' = [claVerdict EXCEPT !["create"] = IF claKill[claSession] = "done" THEN "gone" ELSE "none"]
      BY <2>7 DEF C!BeginCreation
    <3>2. claSession \in C!Numbers
      BY <2>7 DEF ClaudeTypes, C!Numbers, C!SessionsAssumption
    <3>3. /\ claKill' \in [C!Numbers -> {"no", "running", "failed", "done"}]
          /\ \A n \in C!Numbers : claKill'[n] # "no" => n \in claStopReq'
      BY <3>1, <3>2 DEF ClaudeTypes, ClaudeStopInv
    <3>4. claRpc' = 0 /\ claRequests = {}
      BY <2>7, <3>1 DEF ClaudeTransportInv, C!IsAlive
    <3>5. /\ claOn' \in [C!Tasks -> 0 .. Sessions] /\ claVerdict' \in [C!Tasks -> {"none", "gone", "kept"}]
          /\ \A k \in C!Tasks : claOn'[k] # 0 => claOn'[k] \in claStopReq'
      BY <3>1 DEF ClaudeTypes, ClaudeStopInv
    <3>6. ClaudeTypes'
      BY <1>0, <2>1, <2>3, <3>1, <3>2, <3>3, <3>4, <3>5 DEF ClaudeTypes
    <3>7. ClaudeTransportInv'
      BY <2>1, <2>4, <3>4 DEF ClaudeTransportInv
    <3>8. ClaudeStopInv'
      BY <2>1, <2>7, <3>1, <3>3, <3>5 DEF ClaudeStopInv, ClaudeCreations
    <3> QED BY <2>1, <2>4, <3>6, <3>7, <3>8 DEF ClaudeSound
  <2> QED BY <1>3, <2>5, <2>6, <2>7 DEF C!Ensure, C!BeginCreation
<1> QED BY <1>1, <1>2, <1>3

\* A step of the transport answers no more than it was asked.
Answering ==
  /\ UNCHANGED <<claStopped, claFenced, claSession, claMade, claBound, claStopReq, claExitErr, claKill, claRpc, claTarget, claPc,
                 claOn, claVerdict, claCreating>>
  /\ claStep' \in [C!Callers -> {"new", "opening", "ensuring", "have", "writing", "readying", "over"}]
  /\ claAdmission' \in [ClaudeSubs -> {"pending", "submitted", "stopped", "failed", "ambiguous"}]
  /\ claSettlement' \in [ClaudeSubs -> {"open", "completion", "failed", "stopped"}]
  /\ claRequests' \subseteq ClaudeSubs /\ claConsumed' \subseteq ClaudeSubs
  /\ claTimer' \in BOOLEAN /\ (claTimer' <=> claRequests' # {})
  /\ claRequests' # {} => claRpc # 0 /\ claRpc \notin claExitErr
  /\ \A s \in ClaudeSubs : Fate(s) /\ (claStep'[s] = "have" => claStep[s] = "have")

LEMMA AnsweringSound == ASSUME ClaudeInv, Answering PROVE ClaudeSound
<1> USE DEF ClaudeInv, Answering
<1>1. ClaudeTypes'
  BY DEF ClaudeTypes
<1>2. ClaudeTransportInv'
  BY DEF ClaudeTransportInv
<1>3. ClaudeStopInv'
  BY DEF ClaudeStopInv
<1> QED BY <1>1, <1>2, <1>3 DEF ClaudeSound

\* Requests that end, and nothing else of the transport but what the turn consumed.
LEMMA SettleAnswers ==
  ASSUME ClaudeInv, NEW ended \in SUBSET claRequests, NEW outcome \in {"ambiguous", "submitted"},
         NEW how \in {"completion", "failed", "stopped"}, C!Settle(ended, outcome, how),
         claRequests' = claRequests \ ended, claConsumed' \subseteq claConsumed
  PROVE  /\ claStep' \in [C!Callers -> {"new", "opening", "ensuring", "have", "writing", "readying", "over"}]
         /\ claAdmission' \in [ClaudeSubs -> {"pending", "submitted", "stopped", "failed", "ambiguous"}]
         /\ claSettlement' \in [ClaudeSubs -> {"open", "completion", "failed", "stopped"}]
         /\ \A s \in ClaudeSubs : Fate(s) /\ (claStep'[s] = "have" => claStep[s] = "have")
<1> USE DEF ClaudeInv, ClaudeTypes, C!Settle
<1>1. ASSUME NEW s \in ClaudeSubs PROVE Fate(s) /\ (claStep'[s] = "have" => claStep[s] = "have")
  <2>1. s \in C!Callers
    BY DEF C!Callers
  <2>2. CASE s \in ended
    BY <2>1, <2>2 DEF Fate, Ends
  <2>3. CASE s \notin ended
    BY <2>1, <2>3 DEF Fate, Stays
  <2> QED BY <2>2, <2>3
<1> QED BY <1>1

\* One request is taken for written.
LEMMA AcceptedAnswers ==
  ASSUME ClaudeInv, NEW s \in claRequests, claAdmission' = C!Accepted(s),
         claStep' = [claStep EXCEPT ![s] = "over"] \/ (s \in claConsumed /\ claStep' = claStep),
         UNCHANGED <<claRequests, claSettlement>>, claConsumed' \subseteq claConsumed \union {s}
  PROVE  /\ claStep' \in [C!Callers -> {"new", "opening", "ensuring", "have", "writing", "readying", "over"}]
         /\ claAdmission' \in [ClaudeSubs -> {"pending", "submitted", "stopped", "failed", "ambiguous"}]
         /\ \A t \in ClaudeSubs : Fate(t) /\ (claStep'[t] = "have" => claStep[t] = "have")
<1> USE DEF ClaudeInv, ClaudeTypes, C!Accepted
<1>1. s \in ClaudeSubs /\ s \in C!Callers
  BY DEF C!Callers
<1>2. ASSUME NEW t \in ClaudeSubs PROVE Fate(t) /\ (claStep'[t] = "have" => claStep[t] = "have")
  <2>1. t \in C!Callers
    BY DEF C!Callers
  <2>2. CASE t = s
    BY <1>1, <2>1, <2>2 DEF Fate, Accepts, ClaudeCallerInv
  <2>3. CASE t # s
    BY <1>1, <2>1, <2>3 DEF Fate, Stays
  <2> QED BY <2>2, <2>3
<1> QED BY <1>1, <1>2

\* A submission is written, accepted, and answered.
LEMMA RequestsSound ==
  ASSUME C!SessionsAssumption, ClaudeInv,
         \/ \E s \in ClaudeSubs : C!Write(s) \/ C!WriteAcked(s) \/ C!WriteFailed(s) \/ C!CommandStarted(s)
         \/ \E s \in ClaudeSubs, how \in {"cancelled", "refused"} : C!CommandEnded(s, how)
         \/ \E named \in {{}} \union {{s} : s \in ClaudeSubs}, b \in BOOLEAN : C!Result(named, b)
  PROVE  ClaudeSound
<1> USE DEF ClaudeInv
<1>1. ASSUME NEW s \in ClaudeSubs, C!Write(s) PROVE Answering
  <2>1. /\ UNCHANGED <<claStopped, claFenced, claSession, claMade, claBound, claStopReq, claExitErr, claKill, claRpc, claTarget, claPc,
                       claOn, claVerdict, claCreating>>
        /\ UNCHANGED <<claConsumed, claSettlement>> /\ claStep[s] = "have" /\ s \in C!Callers
    BY <1>1 DEF C!Write, C!runtime, C!children, C!waits, C!Callers
  <2>2. CASE \E why \in {"stopped", "failed"} : C!Refused(s, why) /\ UNCHANGED <<claRequests, claTimer>>
    <3>1. \A t \in ClaudeSubs : Fate(t) /\ (claStep'[t] = "have" => claStep[t] = "have")
      <4> TAKE t \in ClaudeSubs
      <4>1. CASE t = s
        BY <2>1, <2>2, <4>1 DEF C!Refused, ClaudeTypes, Fate, Refuses
      <4>2. CASE t # s
        <5>1. t \in C!Callers
          BY DEF C!Callers
        <5> QED BY <2>1, <2>2, <4>2, <5>1 DEF C!Refused, ClaudeTypes, Fate, Stays
      <4> QED BY <4>1, <4>2
    <3> QED BY <2>1, <2>2, <3>1 DEF Answering, C!Refused, ClaudeTypes, ClaudeTransportInv
  <2>3. CASE /\ claTarget[s] \notin claExitErr /\ claRpc = claTarget[s]
             /\ claRequests' = claRequests \union {s} /\ claTimer' = TRUE
             /\ claStep' = [claStep EXCEPT ![s] = "writing"] /\ UNCHANGED claAdmission
    <3>1. \A t \in ClaudeSubs : Fate(t) /\ (claStep'[t] = "have" => claStep[t] = "have")
      <4> TAKE t \in ClaudeSubs
      <4>1. CASE t = s
        BY <2>1, <2>3, <4>1 DEF ClaudeTypes, Fate, Advances
      <4>2. CASE t # s
        <5>1. t \in C!Callers
          BY DEF C!Callers
        <5> QED BY <2>1, <2>3, <4>2, <5>1 DEF ClaudeTypes, Fate, Stays
      <4> QED BY <4>1, <4>2
    <3> QED BY <2>1, <2>3, <3>1 DEF Answering, ClaudeTypes, ClaudeTransportInv
  <2> QED BY <1>1, <2>2, <2>3 DEF C!Write
<1>2. ASSUME NEW s \in ClaudeSubs, C!WriteAcked(s) \/ C!CommandStarted(s) PROVE Answering
  <2>1. /\ UNCHANGED <<claStopped, claFenced, claSession, claMade, claBound, claStopReq, claExitErr, claKill, claRpc, claTarget, claPc,
                       claOn, claVerdict, claCreating>>
        /\ UNCHANGED <<claRequests, claSettlement>> /\ s \in claRequests /\ claAdmission' = C!Accepted(s)
        /\ claStep' = [claStep EXCEPT ![s] = "over"] /\ claConsumed' \subseteq claConsumed \union {s}
    BY <1>2 DEF C!WriteAcked, C!CommandStarted, C!runtime, C!children, C!transport, C!waits
  <2>2. claTimer' \in BOOLEAN /\ (claTimer' <=> claRequests # {})
    <3>1. CASE claTimer' = claTimer
      BY <3>1 DEF ClaudeTransportInv
    <3>2. CASE claTimer' = (claRequests # {})
      BY <3>2
    <3> QED BY <1>2, <3>1, <3>2 DEF C!WriteAcked, C!CommandStarted, C!transport
  <2>3. claConsumed' \subseteq ClaudeSubs
    BY <2>1 DEF ClaudeTypes
  <2>4. claRequests # {} => claRpc # 0 /\ claRpc \notin claExitErr
    BY DEF ClaudeTransportInv
  <2>5. \A t \in ClaudeSubs : Fate(t) /\ (claStep'[t] = "have" => claStep[t] = "have")
    BY <2>1, AcceptedAnswers
  <2>6. /\ claStep' \in [C!Callers -> {"new", "opening", "ensuring", "have", "writing", "readying", "over"}]
        /\ claAdmission' \in [ClaudeSubs -> {"pending", "submitted", "stopped", "failed", "ambiguous"}]
    BY <2>1, AcceptedAnswers
  <2> QED BY <2>1, <2>2, <2>3, <2>4, <2>5, <2>6 DEF Answering, ClaudeTypes
<1>3. ASSUME NEW s \in ClaudeSubs, C!WriteFailed(s) PROVE Answering
  <2>1. /\ UNCHANGED <<claStopped, claFenced, claSession, claMade, claBound, claStopReq, claExitErr, claKill, claRpc, claTarget, claPc,
                       claOn, claVerdict, claCreating>>
        /\ s \in claRequests /\ claRequests' = claRequests \ {s} /\ claConsumed' \subseteq claConsumed
        /\ C!Settle({s}, "ambiguous", "failed") /\ claTimer' = (claTimer /\ claRequests' # {})
    BY <1>3 DEF C!WriteFailed, C!runtime, C!children, C!waits
  <2> QED BY <2>1, SettleAnswers DEF Answering, ClaudeTypes, ClaudeTransportInv
<1>4. ASSUME NEW s \in ClaudeSubs, NEW how \in {"cancelled", "refused"}, C!CommandEnded(s, how) PROVE Answering
  <2>1. /\ UNCHANGED <<claStopped, claFenced, claSession, claMade, claBound, claStopReq, claExitErr, claKill, claRpc, claTarget, claPc,
                       claOn, claVerdict, claCreating>>
        /\ s \in claRequests /\ claConsumed' = claConsumed
    BY <1>4 DEF C!CommandEnded, C!runtime, C!children, C!waits
  <2>2. CASE /\ s \in claConsumed /\ claTimer' = (claRequests # {}) /\ claAdmission' = C!Accepted(s)
             /\ UNCHANGED <<claRequests, claSettlement, claStep>>
    BY <2>1, <2>2, AcceptedAnswers DEF Answering, ClaudeTypes, ClaudeTransportInv
  <2>3. CASE /\ claRequests' = claRequests \ {s} /\ claTimer' = (claRequests' # {})
             /\ C!Settle({s}, "submitted", "failed")
    BY <2>1, <2>3, SettleAnswers DEF Answering, ClaudeTypes, ClaudeTransportInv
  <2> QED BY <1>4, <2>2, <2>3 DEF C!CommandEnded
<1>5. ASSUME NEW named, NEW b \in BOOLEAN, C!Result(named, b) PROVE Answering
  <2> DEFINE answered == claRequests \intersect (claConsumed \union named)
             how == IF b THEN "stopped" ELSE "completion"
  <2>1. /\ UNCHANGED <<claStopped, claFenced, claSession, claMade, claBound, claStopReq, claExitErr, claKill, claRpc, claTarget, claPc,
                       claOn, claVerdict, claCreating>>
        /\ claRequests' = claRequests \ answered /\ claConsumed' = {} /\ claTimer' = (claRequests' # {})
        /\ C!Settle(answered, "submitted", how)
    BY <1>5 DEF C!Result, C!runtime, C!children, C!waits
  <2>2. answered \in SUBSET claRequests /\ how \in {"completion", "failed", "stopped"}
    OBVIOUS
  <2> HIDE DEF answered, how
  <2> QED BY <2>1, <2>2, SettleAnswers DEF Answering, ClaudeTypes, ClaudeTransportInv
<1> QED BY <1>1, <1>2, <1>3, <1>4, <1>5, AnsweringSound

\* The child is lost, or silent for too long.
LEMMA LossSound ==
  ASSUME C!SessionsAssumption, ClaudeInv, (\E n \in C!Numbers : C!ChildExits(n)) \/ C!IdleTimerFires
  PROVE  ClaudeSound
<1> USE DEF ClaudeInv
<1>1. /\ UNCHANGED <<claStopped, claFenced, claSession, claMade, claBound, claTarget, claCreating>>
      /\ \/ UNCHANGED <<claStopReq, claExitErr, claKill, C!waits>> /\ C!KeepTransport
         \/ \E n \in C!Numbers, also \in BOOLEAN : C!ChildLost(n, also)
  <2>1. CASE \E n \in C!Numbers : C!ChildExits(n)
    BY <2>1 DEF C!ChildExits, C!runtime
  <2>2. CASE C!IdleTimerFires
    <3>1. claRpc \in C!Numbers
      BY <2>2 DEF C!IdleTimerFires, ClaudeTransportInv, ClaudeTypes, C!Numbers, C!SessionsAssumption
    <3> QED BY <2>2, <3>1 DEF C!IdleTimerFires, C!runtime
  <2> QED BY <2>1, <2>2
<1>2. CASE UNCHANGED <<claStopReq, claExitErr, claKill, C!waits>> /\ C!KeepTransport
  <2>1. UNCHANGED <<claStopReq, claExitErr, claKill, claPc, claOn, claVerdict, claRpc, claRequests, claConsumed, claTimer, claStep,
                    claAdmission, claSettlement>>
    BY <1>2 DEF C!waits, C!KeepTransport, C!transport
  <2> QED BY <1>1, <2>1 DEF ClaudeSound, ClaudeTypes, ClaudeTransportInv, ClaudeStopInv, Fate, Stays
<1>3. ASSUME NEW n \in C!Numbers, NEW also \in BOOLEAN, C!ChildLost(n, also) PROVE ClaudeSound
  <2>1. /\ claExitErr' = claExitErr \union {n} /\ (IF claRpc = n THEN C!CloseTransport("failed") ELSE C!KeepTransport)
        /\ claStopReq' = claStopReq \/ claStopReq' = claStopReq \union {n}
        /\ n \in 0 .. Sessions /\ n # 0
    BY <1>3 DEF C!ChildLost, C!Numbers, C!SessionsAssumption
  <2>2. /\ claKill' \in [C!Numbers -> {"no", "running", "failed", "done"}]
        /\ \A m \in C!Numbers : claKill'[m] # "no" => m \in claStopReq'
        /\ claPc' \in [C!Tasks -> {"idle", "waiting", "closing", "draining", "stuck", "over"}]
        /\ claPc'["stop"] = claPc["stop"]
        /\ claOn' \in [C!Tasks -> 0 .. Sessions] /\ claVerdict' \in [C!Tasks -> {"none", "gone", "kept"}]
        /\ \A k \in C!Tasks : claOn'[k] # 0 => claOn'[k] \in claStopReq'
    BY <1>3, <2>1 DEF C!ChildLost, C!waits, ClaudeTypes, ClaudeStopInv, C!Tasks
  <2>3. /\ \A s \in ClaudeSubs : Fate(s) /\ claStep'[s] \in {claStep[s], "over"}
        /\ claStep' \in [C!Callers -> {"new", "opening", "ensuring", "have", "writing", "readying", "over"}]
        /\ claAdmission' \in [ClaudeSubs -> {"pending", "submitted", "stopped", "failed", "ambiguous"}]
        /\ claSettlement' \in [ClaudeSubs -> {"open", "completion", "failed", "stopped"}]
        /\ claRequests' \subseteq ClaudeSubs /\ claConsumed' \subseteq ClaudeSubs
        /\ claTimer' \in BOOLEAN /\ (claTimer' <=> claRequests' # {})
        /\ claRpc' = (IF claRpc = n THEN 0 ELSE claRpc)
        /\ claRequests' # {} => claRequests' = claRequests /\ claRpc # n
    <3>1. CASE claRpc = n /\ C!CloseTransport("failed")
      BY <3>1, CloseEnds
    <3>2. CASE claRpc # n /\ C!KeepTransport
      BY <3>2 DEF C!KeepTransport, C!transport, ClaudeTypes, ClaudeTransportInv, Fate, Stays
    <3> QED BY <2>1, <3>1, <3>2
  <2>4. ClaudeTypes'
    <3>1. claRpc' \in 0 .. Sessions
      BY <2>3 DEF ClaudeTypes, C!SessionsAssumption
    <3>2. claStopReq' \subseteq C!Numbers
      <4>1. claStopReq \subseteq C!Numbers /\ n \in C!Numbers
        BY DEF ClaudeTypes
      <4> QED BY <2>1, <4>1
    <3> QED BY <1>1, <2>2, <2>3, <3>1, <3>2 DEF ClaudeTypes
  <2>5. ClaudeTransportInv'
    BY <1>1, <2>1, <2>3 DEF ClaudeTransportInv
  <2>6. ClaudeStopInv'
    BY <1>1, <2>1, <2>2 DEF ClaudeStopInv
  <2> QED BY <1>1, <2>2, <2>3, <2>4, <2>5, <2>6 DEF ClaudeSound
<1> QED BY <1>1, <1>2, <1>3

\* The session keeps what it promises, and the contract with it.
LEMMA ClaudeKeeps ==
  ASSUME C!SessionsAssumption, ClaudeInv, [C!Next]_(C!vars)
  PROVE  ClaudeInv' /\ [C!Contract!Step]_(C!Contract!vars)
<1> USE DEF ClaudeInv
<1>1. ClaudeSound
  <2>1. CASE UNCHANGED C!vars
    <3>1. UNCHANGED <<claStopped, claFenced, claSession, claMade, claBound, claStopReq, claExitErr, claKill, claRpc, claRequests, claConsumed,
                      claTimer, claStep, claTarget, claAdmission, claSettlement, claPc, claOn, claVerdict, claCreating>>
      BY <2>1 DEF C!vars, C!runtime, C!children, C!transport, C!callers, C!waits
    <3> QED BY <3>1 DEF ClaudeSound, ClaudeTypes, ClaudeTransportInv, ClaudeStopInv, Fate, Stays
  <2>2. CASE C!Next
    BY <2>2, AsideSound, StopsSound, CreationSound, RequestsSound, LossSound DEF C!Next, C!Creation
  <2> QED BY <2>1, <2>2
<1>2. /\ ClaudeCallerInv'
      /\ \A s \in ClaudeSubs : C!Promised(s)' # C!Promised(s) => <<C!Promised(s), C!Promised(s)'>> \in C!Contract!Moves
      /\ claPc["stop"] = "over" => \A s \in ClaudeSubs : claStep'[s] \in {"new", "over"}
  BY <1>1, FateKeeps DEF ClaudeSound
<1>3. ClaudeEndInv'
  BY <1>1, <1>2 DEF ClaudeEndInv, ClaudeSound
<1>4. ASSUME claPc'["stop"] = "over", NEW s \in ClaudeSubs
      PROVE  C!Promised(s)' \notin {"asked", "accepted"}
  <2>1. claStopped' /\ claRpc' = 0 /\ claRequests' = {} /\ claStep'[s] \in {"new", "over"}
    BY <1>1, <1>3, <1>4 DEF ClaudeSound, ClaudeStopInv, ClaudeTransportInv, ClaudeEndInv
  <2>2. /\ claStep'[s] = "over" <=> claAdmission'[s] # "pending"
        /\ claAdmission'[s] = "submitted" => claSettlement'[s] # "open"
    BY <1>2, <2>1 DEF ClaudeCallerInv
  <2> QED BY <2>1, <2>2 DEF C!Promised
<1>5. C!Contract!Step
  BY <1>1, <1>2, <1>4 DEF C!Contract!Step, C!Contract!Settled, ClaudeSound
<1> QED BY <1>1, <1>2, <1>3, <1>5 DEF ClaudeSound

\* A submission that Core was told is accepted is settled, or its deadline runs.
LEMMA ClaudeDeadline == ClaudeInv => C!NoWorkWithoutDeadline
  BY DEF ClaudeInv, ClaudeCallerInv, ClaudeTransportInv, C!NoWorkWithoutDeadline

LEMMA AlwaysClaudeInv == RuntimesSpec => []ClaudeInv
<1>1. C!Init => ClaudeInv
  BY ClaudeStarts, SubmissionsAssumption
<1>2. ClaudeInv /\ [C!Next]_(C!vars) => ClaudeInv'
  BY ClaudeKeeps, SubmissionsAssumption
<1> QED BY <1>1, <1>2, PTL DEF RuntimesSpec, C!Spec

\* So is the session of Claude Code.
LEMMA ClaudeKeepsContract == RuntimesSpec => C!KeepsContract
<1>1. C!Init => C!Contract!Init
  BY DEF C!Init, C!Contract!Init, C!Promised, C!Callers, C!Tasks
<1>2. ClaudeInv /\ [C!Next]_(C!vars) => [C!Contract!Step]_(C!Contract!vars)
  BY ClaudeKeeps, SubmissionsAssumption
<1> QED BY <1>1, <1>2, AlwaysClaudeInv, PTL DEF RuntimesSpec, C!Spec, C!KeepsContract, C!Contract!Spec

----------------------------------------
(* The children of Claude Code                                             *)

\* The child of a session is named by the runtime's reference as long as it lives, and whoever
\* was told that a session is gone was told so of one whose child is not alive.
ClaudeChildTypes ==
  /\ claChild \in [C!Numbers -> {"unborn", "alive", "dead"}]
  /\ claBound \subseteq C!Numbers /\ claExitErr \subseteq C!Numbers
  /\ claAsk \in BOOLEAN /\ claAsked \in BOOLEAN
  /\ claCreating \in {"no", "clearing", "opening", "launching", "publishing", "aborting"}

ClaudeLiveInv ==
  /\ \A n \in C!Numbers : claChild[n] = "alive" => claSession = n
  /\ \A n \in C!Numbers : claKill[n] = "done" => claChild[n] # "alive"
  /\ \A k \in C!Tasks : claVerdict[k] = "gone" /\ claOn[k] # 0 => claChild[claOn[k]] # "alive"

\* What waits for a session to go has the one at hand in view.
ClaudeHeldInv ==
  /\ claCreating = "clearing" => claSession \in {0, claOn["create"]}
  /\ claPc["stop"] = "closing" => claSession \in {0, claOn["stop"]}
  /\ claPc["fence"] = "waiting" => claSession \in {0, claOn["fence"]}
  /\ claPc["fence"] # "idle" => claStopped

\* Behind a teardown that got through no child is left.
NoChildLeft == \A n \in C!Numbers : claChild[n] # "alive"
ClaudeGoneInv == claPc["fence"] = "over" \/ claPc["stop"] \in {"draining", "over"} => NoChildLeft

\* An interrupt that waits was asked of the transport that is open, whose child is not lost.
ClaudeAskInv == claAsk => claAsked /\ claRpc # 0 /\ claRpc \notin claExitErr

ClaudeChildInv == ClaudeChildTypes /\ ClaudeLiveInv /\ ClaudeHeldInv /\ ClaudeGoneInv /\ ClaudeAskInv

LEMMA ChildStarts == C!SessionsAssumption /\ C!Init => ClaudeChildInv
<1> SUFFICES ASSUME C!Init PROVE ClaudeChildInv
  OBVIOUS
<1>1. /\ claChild = [n \in C!Numbers |-> "unborn"] /\ claBound = {} /\ claExitErr = {} /\ claStopped = FALSE
      /\ claKill = [n \in C!Numbers |-> "no"] /\ claAsk = FALSE /\ claAsked = FALSE /\ claCreating = "no"
  BY DEF C!Init
<1>2. claPc["stop"] = "idle" /\ claPc["fence"] = "idle" /\ \A k \in C!Tasks : claVerdict[k] = "none"
  BY DEF C!Init, C!Tasks
<1>3. ClaudeChildTypes /\ ClaudeAskInv
  BY <1>1 DEF ClaudeChildTypes, ClaudeAskInv
<1>4. ClaudeLiveInv
  BY <1>1, <1>2 DEF ClaudeLiveInv
<1>5. ClaudeHeldInv /\ ClaudeGoneInv
  BY <1>1, <1>2 DEF ClaudeHeldInv, ClaudeGoneInv
<1> QED BY <1>3, <1>4, <1>5 DEF ClaudeChildInv

\* Submissions, and interrupts, which only the open transport of a session that is not lost takes.
LEMMA ChildCalls ==
  ASSUME ClaudeInv, ClaudeChildInv,
         \/ C!Start \/ C!StartEnds \/ C!Interrupt \/ C!InterruptAnswered
         \/ \E s \in ClaudeSubs : C!Write(s) \/ C!WriteAcked(s) \/ C!WriteFailed(s) \/ C!CommandStarted(s)
         \/ \E s \in ClaudeSubs, how \in {"cancelled", "refused"} : C!CommandEnded(s, how)
         \/ \E named \in {{}} \union {{s} : s \in ClaudeSubs}, b \in BOOLEAN : C!Result(named, b)
  PROVE  ClaudeChildInv'
<1> USE DEF ClaudeInv, ClaudeChildInv, C!runtime, C!children, C!transport, C!callers, C!waits
<1>1. /\ UNCHANGED <<claStopped, claSession, claMade, claChild, claBound, claExitErr, claKill, claOn, claVerdict,
                     claPc, claCreating, claRpc>>
      /\ claAsk' \in BOOLEAN /\ claAsked' \in BOOLEAN
      /\ claAsk' => claAsked' /\ claRpc # 0 /\ claRpc \notin claExitErr
  <2>1. CASE C!Start \/ C!StartEnds
    BY <2>1 DEF C!Start, C!StartEnds, ClaudeAskInv, ClaudeChildTypes
  <2>2. CASE C!Interrupt \/ C!InterruptAnswered
    BY <2>2 DEF C!Interrupt, C!InterruptAnswered, C!IsAlive, ClaudeAskInv, ClaudeChildTypes
  <2>3. ASSUME NEW s \in ClaudeSubs, C!Write(s) \/ C!WriteAcked(s) \/ C!WriteFailed(s) \/ C!CommandStarted(s)
        PROVE  UNCHANGED <<claStopped, claSession, claMade, claChild, claBound, claExitErr, claKill, claOn, claVerdict,
                           claPc, claCreating, claRpc, claAsk, claAsked>>
    BY <2>3 DEF C!Write, C!WriteAcked, C!WriteFailed, C!CommandStarted
  <2>4. ASSUME NEW s \in ClaudeSubs, NEW how, C!CommandEnded(s, how)
        PROVE  UNCHANGED <<claStopped, claSession, claMade, claChild, claBound, claExitErr, claKill, claOn, claVerdict,
                           claPc, claCreating, claRpc, claAsk, claAsked>>
    BY <2>4 DEF C!CommandEnded
  <2>5. ASSUME NEW named, NEW b, C!Result(named, b)
        PROVE  /\ UNCHANGED <<claStopped, claSession, claMade, claChild, claBound, claExitErr, claKill, claOn, claVerdict,
                              claPc, claCreating, claRpc>>
               /\ claAsk' = (claAsk /\ ~claAsked) /\ claAsked' = FALSE
    BY <2>5 DEF C!Result
  <2> QED BY <2>1, <2>2, <2>3, <2>4, <2>5 DEF ClaudeAskInv, ClaudeChildTypes
<1>2. ClaudeChildTypes' /\ ClaudeAskInv'
  BY <1>1 DEF ClaudeChildTypes, ClaudeAskInv
<1>3. ClaudeLiveInv' /\ ClaudeHeldInv' /\ ClaudeGoneInv'
  BY <1>1 DEF ClaudeLiveInv, ClaudeHeldInv, ClaudeGoneInv, NoChildLeft
<1> QED BY <1>2, <1>3

\* A session that is stopped: its child may still have to be killed.
LEMMA ChildStops ==
  ASSUME C!SessionsAssumption, ClaudeInv, ClaudeChildInv, NEW n \in 0 .. Sessions, NEW ks \in SUBSET C!Tasks,
         C!StopSession(n, ks), UNCHANGED <<claChild, claExitErr, claSession>>
  PROVE  /\ ClaudeLiveInv' /\ ClaudeAskInv' /\ claAsk' \in BOOLEAN /\ claAsked' \in BOOLEAN
         /\ \A k \in C!Tasks : claOn'[k] = IF k \in ks THEN n ELSE claOn[k]
<1> USE DEF ClaudeInv, ClaudeChildInv
<1>1. /\ claOn' = [k \in C!Tasks |-> IF k \in ks THEN n ELSE claOn[k]]
      /\ claVerdict' = [k \in C!Tasks |-> IF k \notin ks THEN claVerdict[k]
                        ELSE IF n # 0 /\ (claKill[n] = "running" \/ (claKill[n] \in {"no", "failed"} /\ claChild[n] # "unborn"))
                             THEN "none" ELSE "gone"]
  BY DEF C!StopSession
<1>2. \/ claKill' = claKill /\ C!KeepTransport
      \/ /\ n # 0 /\ claKill' = [claKill EXCEPT ![n] = IF claChild[n] = "unborn" THEN "done" ELSE "running"]
         /\ IF claRpc = n THEN C!CloseTransport("stopped") ELSE C!KeepTransport
  BY DEF C!StopSession
<1>3. n # 0 => n \in C!Numbers
  BY DEF C!Numbers, C!SessionsAssumption
<1>4. \A m \in C!Numbers : claKill'[m] = "done" => claChild[m] # "alive"
  BY <1>2, <1>3 DEF ClaudeLiveInv, ClaudeTypes
<1>5. \A k \in C!Tasks : claVerdict'[k] = "gone" /\ claOn'[k] # 0 => claChild[claOn'[k]] # "alive"
  <2> SUFFICES ASSUME NEW k \in C!Tasks, claVerdict'[k] = "gone", claOn'[k] # 0
               PROVE  claChild[claOn'[k]] # "alive"
    OBVIOUS
  <2>1. CASE k \notin ks
    BY <1>1, <2>1 DEF ClaudeLiveInv
  <2>2. CASE k \in ks
    <3>1. claOn'[k] = n /\ n # 0 /\ claKill[n] # "running" /\ (claKill[n] \in {"no", "failed"} => claChild[n] = "unborn")
      BY <1>1, <2>2
    <3>2. claKill[n] \in {"no", "running", "failed", "done"}
      BY <1>3, <3>1 DEF ClaudeTypes
    <3> QED BY <1>3, <3>1, <3>2 DEF ClaudeLiveInv
  <2> QED BY <2>1, <2>2
<1>6. ClaudeLiveInv'
  BY <1>4, <1>5 DEF ClaudeLiveInv
<1>7. ClaudeAskInv' /\ claAsk' \in BOOLEAN /\ claAsked' \in BOOLEAN
  BY <1>2 DEF C!KeepTransport, C!transport, C!CloseTransport, ClaudeAskInv, ClaudeChildTypes
<1> QED BY <1>1, <1>6, <1>7

\* A stop, the fence, and the end of a creation that failed.
LEMMA ChildTeardowns ==
  ASSUME C!SessionsAssumption, ClaudeInv, ClaudeChildInv,
         C!Abort \/ C!StopBegins \/ C!FenceCloses \/ C!StopFenced \/ C!StopAgain
  PROVE  ClaudeChildInv'
<1> USE DEF ClaudeInv, ClaudeChildInv
<1>0. claSession \in 0 .. Sessions /\ claMade \in 0 .. Sessions
  BY DEF ClaudeTypes
<1>1. UNCHANGED <<claSession, claMade, claChild, claBound, claExitErr>>
  BY DEF C!Abort, C!StopBegins, C!FenceCloses, C!StopFenced, C!StopAgain, C!runtime
<1>2. CASE C!Abort
  <2>1. claCreating' \in {claCreating, "no"} /\ claStopped' = claStopped
        /\ claPc'["stop"] = claPc["stop"] /\ claPc'["fence"] = claPc["fence"]
    BY <1>2 DEF C!Abort, C!CreationFails, C!runtime, C!waits, ClaudeTypes, C!Tasks
  <2>2. CASE claStopped
    <3>1. UNCHANGED <<claKill, claOn, claVerdict, claAsk, claAsked, claRpc>>
      BY <1>2, <2>2 DEF C!Abort, C!transport, C!waits
    <3>2. claCreating' = "no"
      BY <1>2, <2>2 DEF C!Abort, C!CreationFails
    <3> QED
      BY <1>1, <2>1, <3>1, <3>2 DEF ClaudeChildTypes, ClaudeLiveInv, ClaudeHeldInv, ClaudeGoneInv, NoChildLeft, ClaudeAskInv
  <2>3. CASE ~claStopped
    <3>1. C!StopSession(claMade, {"create"}) /\ {"create"} \in SUBSET C!Tasks /\ claCreating = "aborting" /\ claCreating' = claCreating
      BY <1>2, <2>3 DEF C!Abort, C!Tasks
    <3>2. ClaudeLiveInv' /\ ClaudeAskInv' /\ claAsk' \in BOOLEAN /\ claAsked' \in BOOLEAN
          /\ \A k \in C!Tasks : claOn'[k] = IF k \in {"create"} THEN claMade ELSE claOn[k]
      BY <1>0, <1>1, <3>1, ChildStops
    <3>3. claOn'["stop"] = claOn["stop"] /\ claOn'["fence"] = claOn["fence"]
      BY <3>2 DEF C!Tasks
    <3> QED BY <1>1, <2>1, <3>1, <3>2, <3>3 DEF ClaudeChildTypes, ClaudeHeldInv, ClaudeGoneInv, NoChildLeft
  <2> QED BY <2>2, <2>3
<1>3. CASE C!StopBegins
  <2>1. /\ C!StopSession(claSession, {"stop"}) /\ {"stop"} \in SUBSET C!Tasks /\ claCreating' = claCreating /\ claStopped'
        /\ claPc'["stop"] = "waiting" /\ claPc'["fence"] = claPc["fence"]
    BY <1>3 DEF C!StopBegins, C!Tasks, ClaudeTypes
  <2>2. ClaudeLiveInv' /\ ClaudeAskInv' /\ claAsk' \in BOOLEAN /\ claAsked' \in BOOLEAN
        /\ \A k \in C!Tasks : claOn'[k] = IF k \in {"stop"} THEN claSession ELSE claOn[k]
    BY <1>0, <1>1, <2>1, ChildStops
  <2>3. claOn'["create"] = claOn["create"] /\ claOn'["fence"] = claOn["fence"]
    BY <2>2 DEF C!Tasks
  <2> QED BY <1>1, <2>1, <2>2, <2>3 DEF ClaudeChildTypes, ClaudeHeldInv, ClaudeGoneInv, NoChildLeft
<1>4. CASE C!FenceCloses
  <2>1. /\ C!StopSession(claSession, {"fence"}) /\ {"fence"} \in SUBSET C!Tasks /\ claCreating' = claCreating /\ claStopped'
        /\ claPc'["fence"] = "waiting" /\ claPc'["stop"] = claPc["stop"]
    BY <1>4 DEF C!FenceCloses, C!Tasks, ClaudeTypes
  <2>2. ClaudeLiveInv' /\ ClaudeAskInv' /\ claAsk' \in BOOLEAN /\ claAsked' \in BOOLEAN
        /\ \A k \in C!Tasks : claOn'[k] = IF k \in {"fence"} THEN claSession ELSE claOn[k]
    BY <1>0, <1>1, <2>1, ChildStops
  <2>3. claOn'["create"] = claOn["create"] /\ claOn'["stop"] = claOn["stop"] /\ claOn'["fence"] = claSession
    BY <2>2 DEF C!Tasks
  <2> QED BY <1>1, <2>1, <2>2, <2>3 DEF ClaudeChildTypes, ClaudeHeldInv, ClaudeGoneInv, NoChildLeft
<1>5. CASE C!StopFenced
  <2>1. /\ claCreating' = claCreating /\ claStopped' = claStopped
        /\ claPc'["fence"] = claPc["fence"]
    BY <1>5 DEF C!StopFenced, C!runtime, C!Tasks, ClaudeTypes
  <2>2. CASE claPc["fence"] = "over" /\ claPc' = [claPc EXCEPT !["stop"] = "draining"]
             /\ UNCHANGED <<claStopReq, claKill, claOn, claVerdict>> /\ C!KeepTransport
    <3>1. claPc'["stop"] = "draining" /\ UNCHANGED <<claAsk, claAsked, claRpc>>
      BY <2>2 DEF C!KeepTransport, C!transport, ClaudeTypes, C!Tasks
    <3> QED
      BY <1>1, <2>1, <2>2, <3>1 DEF ClaudeChildTypes, ClaudeLiveInv, ClaudeHeldInv, ClaudeGoneInv, NoChildLeft, ClaudeAskInv
  <2>3. CASE claPc["fence"] = "stuck" /\ claPc' = [claPc EXCEPT !["stop"] = "closing"]
             /\ C!StopSession(claSession, {"stop"})
    <3>1. claPc'["stop"] = "closing" /\ {"stop"} \in SUBSET C!Tasks
      BY <2>3 DEF ClaudeTypes, C!Tasks
    <3>2. ClaudeLiveInv' /\ ClaudeAskInv' /\ claAsk' \in BOOLEAN /\ claAsked' \in BOOLEAN
          /\ \A k \in C!Tasks : claOn'[k] = IF k \in {"stop"} THEN claSession ELSE claOn[k]
      BY <1>0, <1>1, <2>3, <3>1, ChildStops
    <3>3. claOn'["create"] = claOn["create"] /\ claOn'["fence"] = claOn["fence"] /\ claOn'["stop"] = claSession
      BY <3>2 DEF C!Tasks
    <3> QED BY <1>1, <2>1, <2>3, <3>1, <3>2, <3>3 DEF ClaudeChildTypes, ClaudeHeldInv, ClaudeGoneInv, NoChildLeft
  <2> QED BY <1>5, <2>2, <2>3 DEF C!StopFenced
<1>6. CASE C!StopAgain
  <2>1. /\ claCreating' = claCreating /\ claStopped' = claStopped
        /\ claPc'["stop"] = "closing" /\ claPc'["fence"] = claPc["fence"]
    BY <1>6 DEF C!StopAgain, C!runtime, C!Tasks, ClaudeTypes
  <2>2. CASE claSession = claOn["stop"]
    <3>1. UNCHANGED <<claKill, claOn, claVerdict, claAsk, claAsked, claRpc>>
      BY <1>6, <2>2 DEF C!StopAgain, C!KeepTransport, C!transport
    <3> QED
      BY <1>1, <2>1, <2>2, <3>1 DEF ClaudeChildTypes, ClaudeLiveInv, ClaudeHeldInv, ClaudeGoneInv, NoChildLeft, ClaudeAskInv
  <2>3. CASE claSession # claOn["stop"]
    <3>1. C!StopSession(claSession, {"stop"}) /\ {"stop"} \in SUBSET C!Tasks
      BY <1>6, <2>3 DEF C!StopAgain, C!Tasks
    <3>2. ClaudeLiveInv' /\ ClaudeAskInv' /\ claAsk' \in BOOLEAN /\ claAsked' \in BOOLEAN
          /\ \A k \in C!Tasks : claOn'[k] = IF k \in {"stop"} THEN claSession ELSE claOn[k]
      BY <1>0, <1>1, <3>1, ChildStops
    <3>3. claOn'["create"] = claOn["create"] /\ claOn'["fence"] = claOn["fence"] /\ claOn'["stop"] = claSession
      BY <3>2 DEF C!Tasks
    <3> QED BY <1>1, <2>1, <3>1, <3>2, <3>3 DEF ClaudeChildTypes, ClaudeHeldInv, ClaudeGoneInv, NoChildLeft
  <2> QED BY <2>2, <2>3
<1> QED BY <1>2, <1>3, <1>4, <1>5, <1>6

\* Once no child may come, none does: a session at hand is being stopped before its child is born.
LEMMA ChildUnborn ==
  ASSUME ClaudeInv, claStopped, claCreating = "opening", claMade \notin claStopReq
  PROVE  FALSE
  BY DEF ClaudeInv, ClaudeStopInv, ClaudeCreations

\* A session is made when no child is left, and only while the runtime is not stopped.
LEMMA ChildMade ==
  ASSUME ClaudeInv, ClaudeChildInv, NoChildLeft, ~claStopped, UNCHANGED <<claStopped, claChild, claPc>>,
         claCreating' # "clearing",
         claKill' = claKill, claOn' = claOn, claVerdict' = claVerdict
  PROVE  ClaudeLiveInv' /\ ClaudeGoneInv' /\ (claPc["stop"] = "idle" /\ claPc["fence"] = "idle" => ClaudeHeldInv')
  BY DEF ClaudeInv, ClaudeChildInv, ClaudeLiveInv, ClaudeGoneInv, ClaudeHeldInv, NoChildLeft

\* A submission or a start that asks for a session.
LEMMA ChildEnsured ==
  ASSUME C!SessionsAssumption, ClaudeInv, ClaudeChildInv, NEW c \in C!Callers, C!Ensure(c)
  PROVE  ClaudeChildInv'
<1> USE DEF ClaudeInv, ClaudeChildInv
<1>1. /\ UNCHANGED <<claStopped, claChild, claBound, claExitErr, claPc, claAsk, claAsked>>
  BY DEF C!Ensure
<1>2. CASE UNCHANGED <<claSession, claRpc, claKill, claOn, claVerdict, claCreating>>
  BY <1>1, <1>2 DEF ClaudeChildTypes, ClaudeLiveInv, ClaudeHeldInv, ClaudeGoneInv, NoChildLeft, ClaudeAskInv
<1>3. CASE C!BeginCreation /\ ~claStopped /\ ~(claSession # 0 /\ C!IsAlive(claSession)) /\ claCreating = "no"
  <2>0. claPc["stop"] = "idle" /\ claPc["fence"] = "idle"
    BY <1>3 DEF ClaudeStopInv, ClaudeHeldInv
  <2>1. CASE claSession # 0
    <3>1. /\ claCreating' = "clearing" /\ claSession' = claSession /\ claRpc' \in {claRpc, 0}
          /\ claRpc' = IF claRpc = claSession THEN 0 ELSE claRpc
          /\ claKill' = [claKill EXCEPT ![claSession] = IF @ \in {"no", "failed"} THEN "running" ELSE @]
          /\ claOn' = [claOn EXCEPT !["create"] = claSession]
          /\ claVerdict' = [claVerdict EXCEPT !["create"] = IF claKill[claSession] = "done" THEN "gone" ELSE "none"]
      BY <1>3, <2>1 DEF C!BeginCreation
    <3>2. claSession \in C!Numbers /\ claOn'["create"] = claSession
      BY <2>1, <3>1 DEF ClaudeTypes, C!Numbers, C!SessionsAssumption, C!Tasks
    <3>3. ~claAsk
      BY <1>3, <2>1 DEF C!IsAlive, ClaudeAskInv, ClaudeTransportInv
    <3>4. \A n \in C!Numbers : claKill'[n] = "done" => claKill[n] = "done"
      BY <3>1, <3>2 DEF ClaudeTypes
    <3>5. \A k \in C!Tasks : claVerdict'[k] = "gone" /\ claOn'[k] # 0 => claChild[claOn'[k]] # "alive"
      <4> SUFFICES ASSUME NEW k \in C!Tasks, claVerdict'[k] = "gone", claOn'[k] # 0
                   PROVE  claChild[claOn'[k]] # "alive"
        OBVIOUS
      <4>1. CASE k = "create"
        BY <3>1, <3>2, <4>1 DEF ClaudeLiveInv, ClaudeTypes
      <4>2. CASE k # "create"
        BY <3>1, <4>2 DEF ClaudeLiveInv, ClaudeTypes
      <4> QED BY <4>1, <4>2
    <3>6. ClaudeLiveInv'
      BY <1>1, <3>1, <3>4, <3>5 DEF ClaudeLiveInv
    <3>7. ClaudeHeldInv'
      BY <1>1, <2>0, <3>1, <3>2 DEF ClaudeHeldInv
    <3> QED BY <1>1, <2>0, <3>1, <3>3, <3>6, <3>7 DEF ClaudeChildTypes, ClaudeGoneInv, ClaudeAskInv
  <2>2. CASE claSession = 0
    <3>1. claCreating' = "opening" /\ UNCHANGED <<claRpc, claKill, claOn, claVerdict>>
      BY <1>3, <2>2 DEF C!BeginCreation, C!NewSession
    <3>2. NoChildLeft
      BY <2>2 DEF NoChildLeft, ClaudeLiveInv, C!Numbers
    <3>3. ClaudeLiveInv' /\ ClaudeGoneInv' /\ ClaudeHeldInv'
      BY <1>1, <1>3, <2>0, <3>1, <3>2, ChildMade
    <3> QED BY <1>1, <3>1, <3>3 DEF ClaudeChildTypes, ClaudeAskInv
  <2> QED BY <2>1, <2>2
<1> QED BY <1>2, <1>3 DEF C!Ensure

\* A creation, from the end of the session before to its own.
LEMMA ChildCreated ==
  ASSUME C!SessionsAssumption, ClaudeInv, ClaudeChildInv,
         C!Cleared \/ C!Launch \/ C!Spawned \/ C!Published \/ C!Aborted
  PROVE  ClaudeChildInv'
<1> USE DEF ClaudeInv, ClaudeChildInv
<1>1. CASE C!Cleared
  <2>1. /\ UNCHANGED <<claStopped, claChild, claBound, claExitErr, claKill, claRpc, claAsk, claAsked, claPc, claOn, claVerdict>>
        /\ claCreating = "clearing" /\ claVerdict["create"] # "none"
    BY <1>1 DEF C!Cleared, C!children, C!transport, C!waits
  <2>2. CASE claVerdict["create"] = "gone" /\ ~claStopped
    <3>1. claCreating' = "opening"
      BY <1>1, <2>2 DEF C!Cleared, C!NewSession
    <3>2. NoChildLeft
      <4>1. claSession \in {0, claOn["create"]}
        BY <2>1 DEF ClaudeHeldInv
      <4>2. claOn["create"] # 0 => claChild[claOn["create"]] # "alive"
        BY <2>2 DEF ClaudeLiveInv, C!Tasks
      <4> QED BY <4>1, <4>2 DEF NoChildLeft, ClaudeLiveInv, C!Numbers
    <3>3. ClaudeLiveInv' /\ ClaudeGoneInv' /\ ClaudeHeldInv'
      BY <2>1, <2>2, <3>1, <3>2, ChildMade DEF ClaudeStopInv, ClaudeHeldInv
    <3> QED BY <2>1, <3>1, <3>3 DEF ClaudeChildTypes, ClaudeAskInv
  <2>3. CASE ~(claVerdict["create"] = "gone" /\ ~claStopped)
    <3>1. /\ claCreating' = "no"
          /\ claSession' = IF claVerdict["create"] = "gone" /\ claSession = claOn["create"] THEN 0 ELSE claSession
      BY <1>1, <2>3 DEF C!Cleared, C!CreationFails
    <3>2. claSession' = claSession \/ claSession' = 0
      BY <3>1
    <3>3. claSession' # claSession => NoChildLeft
      BY <3>1 DEF NoChildLeft, ClaudeLiveInv, C!Numbers, C!Tasks
    <3>4. ClaudeLiveInv'
      BY <2>1, <3>2, <3>3 DEF ClaudeLiveInv, NoChildLeft
    <3>5. ClaudeHeldInv' /\ ClaudeGoneInv'
      BY <2>1, <3>1, <3>2 DEF ClaudeHeldInv, ClaudeGoneInv, NoChildLeft
    <3> QED BY <2>1, <3>1, <3>4, <3>5 DEF ClaudeChildTypes, ClaudeAskInv
  <2> QED BY <2>2, <2>3
<1>2. CASE C!Launch
  <2>1. /\ UNCHANGED <<claStopped, claSession, claMade, claBound, claExitErr, claKill, claRpc, claAsk, claAsked, claPc,
                       claOn, claVerdict, claStopReq>>
        /\ claCreating = "opening" /\ claCreating' \in {"launching", "aborting"}
    BY <1>2 DEF C!Launch, C!runtime, C!transport, C!waits
  <2>2. CASE claChild' = claChild
    BY <2>1, <2>2 DEF ClaudeChildTypes, ClaudeLiveInv, ClaudeHeldInv, ClaudeGoneInv, NoChildLeft, ClaudeAskInv
  <2>3. CASE claMade \notin claStopReq /\ claChild' = [claChild EXCEPT ![claMade] = "alive"]
    <3>1. ~claStopped /\ claMade # 0 /\ claSession = claMade /\ claMade \in C!Numbers
      BY <2>1, <2>3, ChildUnborn DEF ClaudeStopInv, ClaudeCreations, ClaudeTypes, C!Numbers, C!SessionsAssumption
    <3>2. claPc["stop"] = "idle" /\ claPc["fence"] = "idle"
      BY <3>1 DEF ClaudeStopInv, ClaudeHeldInv
    <3>3. \A n \in C!Numbers : claChild'[n] = IF n = claMade THEN "alive" ELSE claChild[n]
      BY <2>3, <3>1 DEF ClaudeChildTypes
    <3>4. \A n \in C!Numbers : claChild'[n] = "alive" => claSession = n
      BY <3>1, <3>3 DEF ClaudeLiveInv
    <3>5. \A n \in C!Numbers : claKill[n] = "done" => claChild'[n] # "alive"
      BY <2>3, <3>3 DEF ClaudeLiveInv, ClaudeStopInv
    <3>6. \A k \in C!Tasks : claVerdict[k] = "gone" /\ claOn[k] # 0 => claChild'[claOn[k]] # "alive"
      BY <2>3, <3>3 DEF ClaudeLiveInv, ClaudeStopInv, ClaudeTypes
    <3>7. ClaudeLiveInv'
      BY <2>1, <3>4, <3>5, <3>6 DEF ClaudeLiveInv
    <3>8. ClaudeChildTypes'
      BY <2>1, <2>3 DEF ClaudeChildTypes
    <3> QED BY <2>1, <3>2, <3>7, <3>8 DEF ClaudeHeldInv, ClaudeGoneInv, ClaudeAskInv
  <2> QED BY <1>2, <2>2, <2>3 DEF C!Launch
<1>3. CASE C!Spawned
  <2>1. /\ UNCHANGED <<claStopped, claSession, claMade, claChild, claExitErr, claKill, claAsk, claAsked, claPc, claOn, claVerdict>>
        /\ claCreating = "launching" /\ claCreating' \in {"publishing", "aborting"}
        /\ claBound' = claBound \union {claMade}
        /\ \/ claRpc' = claRpc
           \/ claMade \notin claStopReq /\ claRpc' = claMade
    BY <1>3 DEF C!Spawned, C!runtime, C!waits
  <2>2. claMade \in C!Numbers
    BY <2>1 DEF ClaudeStopInv, ClaudeCreations, ClaudeTypes, C!Numbers, C!SessionsAssumption
  <2>3. claRpc # 0 => claRpc' = claRpc
    BY <2>1 DEF ClaudeStopInv, ClaudeCreations, ClaudeTransportInv
  <2>4. ClaudeLiveInv' /\ ClaudeHeldInv' /\ ClaudeGoneInv'
    BY <2>1 DEF ClaudeLiveInv, ClaudeHeldInv, ClaudeGoneInv, NoChildLeft
  <2> QED BY <2>1, <2>2, <2>3, <2>4 DEF ClaudeChildTypes, ClaudeAskInv
<1>4. CASE C!Published
  <2>1. /\ UNCHANGED <<claStopped, claSession, claMade, claChild, claBound, claExitErr, claKill, claRpc, claAsk, claAsked,
                       claPc, claOn, claVerdict>>
        /\ claCreating' \in {"aborting", "no"}
    BY <1>4 DEF C!Published, C!runtime, C!children, C!transport, C!waits
  <2> QED BY <2>1 DEF ClaudeChildTypes, ClaudeLiveInv, ClaudeHeldInv, ClaudeGoneInv, NoChildLeft, ClaudeAskInv
<1>5. CASE C!Aborted
  <2>1. /\ UNCHANGED <<claStopped, claMade, claChild, claBound, claExitErr, claKill, claRpc, claAsk, claAsked, claOn, claVerdict>>
        /\ claCreating' = "no" /\ C!Dropped("create")
        /\ claPc'["stop"] = claPc["stop"] /\ claPc'["fence"] = claPc["fence"]
    BY <1>5 DEF C!Aborted, C!CreationFails, C!children, C!transport, ClaudeTypes, C!Tasks
  <2>2. claSession' = claSession \/ claSession' = 0
    BY <2>1 DEF C!Dropped
  <2>3. claSession' # claSession => NoChildLeft
    BY <2>1 DEF C!Dropped, NoChildLeft, ClaudeLiveInv, C!Numbers, C!Tasks
  <2>4. ClaudeLiveInv'
    BY <2>1, <2>2, <2>3 DEF ClaudeLiveInv, NoChildLeft
  <2>5. ClaudeHeldInv' /\ ClaudeGoneInv'
    BY <2>1, <2>2 DEF ClaudeHeldInv, ClaudeGoneInv, NoChildLeft
  <2> QED BY <2>1, <2>4, <2>5 DEF ClaudeChildTypes, ClaudeAskInv
<1> QED BY <1>1, <1>2, <1>3, <1>4, <1>5

\* A child that is lost, and one that is killed.
LEMMA ChildEnds ==
  ASSUME C!SessionsAssumption, ClaudeInv, ClaudeChildInv,
         C!IdleTimerFires \/ \E n \in C!Numbers : C!ChildExits(n) \/ C!KillEnds(n)
  PROVE  ClaudeChildInv'
<1> USE DEF ClaudeInv, ClaudeChildInv
<1>1. ASSUME NEW n \in C!Numbers, NEW also, C!ChildLost(n, also), n \notin claStopReq,
             UNCHANGED <<claStopped, claSession, claMade, claBound, claCreating>>,
             claChild' = claChild \/ claChild' = [claChild EXCEPT ![n] = "dead"]
      PROVE  ClaudeChildInv'
  <2>1. /\ claExitErr' = claExitErr \union {n}
        /\ claKill' = claKill \/ claKill' = [claKill EXCEPT ![n] = "running"]
        /\ \/ claPc' = claPc /\ claOn' = claOn /\ claVerdict' = claVerdict
           \/ /\ claPc' = [claPc EXCEPT !["exit"] = "waiting"]
              /\ claOn' = [claOn EXCEPT !["exit"] = n]
              /\ claVerdict' = [claVerdict EXCEPT !["exit"] = "none"]
    BY <1>1 DEF C!ChildLost, C!waits
  <2>2. \A m \in C!Numbers : claChild'[m] = "alive" => claChild[m] = "alive"
    BY <1>1 DEF ClaudeChildTypes
  <2>3. \A m \in C!Numbers : claKill'[m] = "done" => claKill[m] = "done"
    BY <2>1 DEF ClaudeTypes
  <2>4. \A k \in C!Tasks : claVerdict'[k] = "gone" => claVerdict[k] = "gone" /\ claOn'[k] = claOn[k]
    BY <2>1 DEF ClaudeTypes
  <2>5. \A k \in C!Tasks : claOn[k] # 0 => claOn[k] \in C!Numbers
    BY DEF ClaudeStopInv, ClaudeTypes
  <2>6. ClaudeLiveInv'
    BY <1>1, <2>2, <2>3, <2>4, <2>5 DEF ClaudeLiveInv
  <2>7. /\ claPc'["stop"] = claPc["stop"] /\ claPc'["fence"] = claPc["fence"]
        /\ claOn'["stop"] = claOn["stop"] /\ claOn'["fence"] = claOn["fence"] /\ claOn'["create"] = claOn["create"]
    BY <2>1 DEF ClaudeTypes, C!Tasks
  <2>8. ClaudeHeldInv' /\ ClaudeGoneInv'
    BY <1>1, <2>2, <2>7 DEF ClaudeHeldInv, ClaudeGoneInv, NoChildLeft
  <2>9. /\ claAsk' \in BOOLEAN /\ claAsked' \in BOOLEAN
        /\ claAsk' => claAsk /\ claAsked' /\ claRpc' = claRpc /\ claRpc # n
    BY <1>1 DEF C!ChildLost, C!CloseTransport, C!KeepTransport, C!transport, ClaudeChildTypes, ClaudeAskInv
  <2> QED BY <1>1, <2>1, <2>6, <2>8, <2>9 DEF ClaudeChildTypes, ClaudeAskInv
<1>2. CASE C!IdleTimerFires
  <2>1. claTimer /\ claRpc \notin claStopReq /\ C!ChildLost(claRpc, TRUE)
        /\ UNCHANGED <<claStopped, claSession, claMade, claChild, claBound, claCreating>>
    BY <1>2 DEF C!IdleTimerFires, C!runtime
  <2>2. claRpc # 0
    BY <2>1, Zenon DEF ClaudeTransportInv
  <2>3. claRpc \in C!Numbers
    BY <2>2 DEF ClaudeTypes, C!Numbers, C!SessionsAssumption
  <2> QED BY <1>1, <2>1, <2>3
<1>3. ASSUME NEW n \in C!Numbers, C!ChildExits(n) PROVE ClaudeChildInv'
  <2>1. /\ claChild' = [claChild EXCEPT ![n] = "dead"]
        /\ UNCHANGED <<claStopped, claSession, claMade, claBound, claCreating>>
    BY <1>3 DEF C!ChildExits, C!runtime
  <2>2. CASE n \in claStopReq \union claExitErr
    <3>1. UNCHANGED <<claExitErr, claKill, claPc, claOn, claVerdict, claRpc, claAsk, claAsked>>
      BY <1>3, <2>2 DEF C!ChildExits, C!waits, C!KeepTransport, C!transport
    <3>2. \A m \in C!Numbers : claChild'[m] = "alive" => claChild[m] = "alive"
      BY <2>1 DEF ClaudeChildTypes
    <3>3. \A k \in C!Tasks : claOn[k] # 0 => claOn[k] \in C!Numbers
      BY DEF ClaudeStopInv, ClaudeTypes
    <3>4. ClaudeLiveInv'
      BY <2>1, <3>1, <3>2, <3>3 DEF ClaudeLiveInv
    <3>5. ClaudeHeldInv' /\ ClaudeGoneInv' /\ ClaudeAskInv' /\ ClaudeChildTypes'
      BY <2>1, <3>1, <3>2 DEF ClaudeHeldInv, ClaudeGoneInv, NoChildLeft, ClaudeAskInv, ClaudeChildTypes
    <3> QED BY <3>4, <3>5
  <2>3. CASE n \notin claStopReq \union claExitErr
    <3>1. C!ChildLost(n, FALSE) /\ n \notin claStopReq
      BY <1>3, <2>3 DEF C!ChildExits
    <3> QED BY <1>1, <2>1, <3>1
  <2> QED BY <2>2, <2>3
<1>4. ASSUME NEW n \in C!Numbers, C!KillEnds(n) PROVE ClaudeChildInv'
  <2>1. UNCHANGED <<claStopped, claSession, claMade, claBound, claExitErr, claRpc, claAsk, claAsked, claPc, claOn, claCreating>>
    BY <1>4 DEF C!KillEnds, C!runtime, C!transport
  <2>2. PICK gone \in BOOLEAN :
          /\ claChild' = [claChild EXCEPT ![n] = IF gone THEN "dead" ELSE @]
          /\ claKill' = [claKill EXCEPT ![n] = IF gone THEN "done" ELSE "failed"]
          /\ claVerdict' = [k \in C!Tasks |-> IF claOn[k] = n /\ claVerdict[k] = "none"
                                              THEN IF gone THEN "gone" ELSE "kept" ELSE claVerdict[k]]
    BY <1>4 DEF C!KillEnds
  <2>3. \A m \in C!Numbers : claChild'[m] = IF m = n /\ gone THEN "dead" ELSE claChild[m]
    BY <2>2 DEF ClaudeChildTypes
  <2>4. \A m \in C!Numbers : claKill'[m] = "done" => claKill[m] = "done" \/ (m = n /\ gone)
    BY <2>2 DEF ClaudeTypes
  <2>5. \A k \in C!Tasks : claVerdict'[k] = "gone" => claVerdict[k] = "gone" \/ (claOn[k] = n /\ gone)
    BY <2>2
  <2>6. \A k \in C!Tasks : claOn[k] # 0 => claOn[k] \in C!Numbers
    BY DEF ClaudeStopInv, ClaudeTypes
  <2>7. \A m \in C!Numbers : claChild'[m] = "alive" => claSession = m
    BY <2>3 DEF ClaudeLiveInv
  <2>8. \A m \in C!Numbers : claKill'[m] = "done" => claChild'[m] # "alive"
    BY <2>3, <2>4 DEF ClaudeLiveInv
  <2>9. \A k \in C!Tasks : claVerdict'[k] = "gone" /\ claOn[k] # 0 => claChild'[claOn[k]] # "alive"
    BY <2>3, <2>5, <2>6 DEF ClaudeLiveInv
  <2>10. ClaudeLiveInv'
    BY <2>1, <2>7, <2>8, <2>9 DEF ClaudeLiveInv
  <2>11. ClaudeChildTypes'
    BY <2>1, <2>2 DEF ClaudeChildTypes
  <2>12. ClaudeHeldInv' /\ ClaudeGoneInv' /\ ClaudeAskInv'
    BY <2>1, <2>3 DEF ClaudeHeldInv, ClaudeGoneInv, NoChildLeft, ClaudeAskInv
  <2> QED BY <2>10, <2>11, <2>12
<1> QED BY <1>2, <1>3, <1>4

\* What waited for a session to go learns whether it is gone, and a stop ends.
LEMMA ChildTold ==
  ASSUME C!SessionsAssumption, ClaudeInv, ClaudeChildInv,
         C!ExitHandled \/ C!FenceTorn \/ C!StopTorn \/ C!StopEnds
  PROVE  ClaudeChildInv'
<1> USE DEF ClaudeInv, ClaudeChildInv
<1>1. UNCHANGED <<claStopped, claMade, claChild, claBound, claExitErr, claKill, claRpc, claAsk, claAsked, claOn, claVerdict,
                  claCreating>>
  BY DEF C!ExitHandled, C!FenceTorn, C!StopTorn, C!StopEnds, C!runtime, C!children, C!transport
<1>2. \/ claSession' = claSession
      \/ claSession' = 0 /\ \E k \in C!Tasks : claVerdict[k] = "gone" /\ claSession = claOn[k]
  BY DEF C!ExitHandled, C!FenceTorn, C!StopTorn, C!StopEnds, C!runtime, C!Dropped, C!Tasks
<1>3. claSession' # claSession => claSession' = 0 /\ NoChildLeft
  BY <1>2 DEF NoChildLeft, ClaudeLiveInv, C!Numbers
<1>4. ClaudeLiveInv' /\ ClaudeChildTypes' /\ ClaudeAskInv'
  BY <1>1, <1>3 DEF ClaudeLiveInv, NoChildLeft, ClaudeChildTypes, ClaudeAskInv
<1>5. ASSUME NEW k \in C!Tasks, claVerdict[k] = "gone", claSession \in {0, claOn[k]} PROVE NoChildLeft
  BY <1>5 DEF NoChildLeft, ClaudeLiveInv, C!Numbers
<1>6. /\ claPc'["fence"] = "waiting" => claPc["fence"] = "waiting"
      /\ claPc'["fence"] # "idle" => claPc["fence"] # "idle"
      /\ claPc'["stop"] = "closing" => claPc["stop"] = "closing"
  BY DEF C!ExitHandled, C!FenceTorn, C!StopTorn, C!StopEnds, ClaudeTypes, C!Tasks
<1>7. ClaudeHeldInv'
  BY <1>1, <1>3, <1>6 DEF ClaudeHeldInv
<1>8. claPc'["fence"] = "over" => claPc["fence"] = "over" \/ (claPc["fence"] = "waiting" /\ claVerdict["fence"] = "gone")
  BY DEF C!ExitHandled, C!FenceTorn, C!StopTorn, C!StopEnds, ClaudeTypes, C!Tasks
<1>9. claPc'["stop"] \in {"draining", "over"} =>
        claPc["stop"] \in {"draining", "over"} \/ (claPc["stop"] = "closing" /\ claVerdict["stop"] = "gone")
  BY DEF C!ExitHandled, C!FenceTorn, C!StopTorn, C!StopEnds, ClaudeTypes, C!Tasks
<1>10. "fence" \in C!Tasks /\ "stop" \in C!Tasks
  BY DEF C!Tasks
<1>11. claPc'["fence"] = "over" \/ claPc'["stop"] \in {"draining", "over"} => NoChildLeft
  BY <1>5, <1>8, <1>9, <1>10 DEF ClaudeGoneInv, ClaudeHeldInv
<1>12. ClaudeGoneInv'
  BY <1>1, <1>11 DEF ClaudeGoneInv, NoChildLeft
<1> QED BY <1>4, <1>7, <1>12

LEMMA ChildStep ==
  ASSUME C!SessionsAssumption, ClaudeInv, ClaudeChildInv, [C!Next]_(C!vars)
  PROVE  ClaudeChildInv'
<1>1. CASE UNCHANGED C!vars
  BY <1>1 DEF C!vars, C!runtime, C!children, C!transport, C!callers, C!waits, ClaudeChildInv, ClaudeChildTypes, ClaudeLiveInv,
         ClaudeHeldInv, ClaudeGoneInv, NoChildLeft, ClaudeAskInv
<1>2. CASE C!Next
  <2>1. \/ \/ C!Start \/ C!StartEnds \/ C!Interrupt \/ C!InterruptAnswered
           \/ \E s \in ClaudeSubs : C!Write(s) \/ C!WriteAcked(s) \/ C!WriteFailed(s) \/ C!CommandStarted(s)
           \/ \E s \in ClaudeSubs, how \in {"cancelled", "refused"} : C!CommandEnded(s, how)
           \/ \E named \in {{}} \union {{s} : s \in ClaudeSubs}, b \in BOOLEAN : C!Result(named, b)
        \/ \E c \in C!Callers : C!Ensure(c)
        \/ C!Cleared \/ C!Launch \/ C!Spawned \/ C!Published \/ C!Aborted
        \/ C!Abort \/ C!StopBegins \/ C!FenceCloses \/ C!StopFenced \/ C!StopAgain
        \/ C!IdleTimerFires \/ \E n \in C!Numbers : C!ChildExits(n) \/ C!KillEnds(n)
        \/ C!ExitHandled \/ C!FenceTorn \/ C!StopTorn \/ C!StopEnds
    BY <1>2 DEF C!Next, C!Creation
  <2> QED BY <2>1, ChildCalls, ChildEnsured, ChildCreated, ChildTeardowns, ChildEnds, ChildTold
<1> QED BY <1>1, <1>2

\* A stop that has resolved left no child and no interrupt unanswered.
LEMMA ClaudeLeavesNothing == ClaudeInv /\ ClaudeChildInv => C!StopLeavesNothing /\ C!TypeOK
<1> SUFFICES ASSUME ClaudeInv, ClaudeChildInv PROVE C!StopLeavesNothing /\ C!TypeOK
  OBVIOUS
<1> USE DEF ClaudeInv, ClaudeChildInv
<1>1. C!StopLeavesNothing
  BY DEF C!StopLeavesNothing, ClaudeGoneInv, NoChildLeft, ClaudeAskInv, ClaudeTransportInv, ClaudeStopInv
<1>2. C!TypeOK
  <2>1. UNION {claBound, claStopReq, claExitErr} \subseteq C!Numbers
    BY DEF ClaudeTypes, ClaudeChildTypes
  <2>2. {claTimer, claAsk, claAsked} \subseteq BOOLEAN /\ {claSession, claMade, claRpc} \subseteq 0 .. Sessions
    BY DEF ClaudeTypes, ClaudeTransportInv, ClaudeChildTypes
  <2> QED BY <2>1, <2>2 DEF C!TypeOK, ClaudeTypes, ClaudeChildTypes
<1> QED BY <1>1, <1>2

LEMMA AlwaysClaudeChildInv == RuntimesSpec => [](ClaudeInv /\ ClaudeChildInv)
<1>1. C!Init => ClaudeInv /\ ClaudeChildInv
  BY ClaudeStarts, ChildStarts, SubmissionsAssumption
<1>2. ClaudeInv /\ ClaudeChildInv /\ [C!Next]_(C!vars) => ClaudeInv' /\ ClaudeChildInv'
  BY ClaudeKeeps, ChildStep, SubmissionsAssumption
<1> QED BY <1>1, <1>2, PTL DEF RuntimesSpec, C!Spec

----------------------------------------
(* The Codex runtime                                                       *)
\* The groups of its variables.
USE DEF record, flags, parts, world

StarterLabels == {"idle", "opening", "creating", "preparing", "binding", "aborting", "talking",
                  "losing", "naming", "readying", "failed", "degrading", "settled", "tearing",
                  "torn", "kept", "rejected", "done"}
Teardowns == {"tearing", "torn", "kept"}
Writers == Tasks \union {"degraded", "stopping"}
Reaps == {"no", "running", "failed", "done"}

\* Where the tasks stand.
TaskTypes ==
  /\ pc \in [Tasks -> StarterLabels \union {"closing", "over", "stuck"}]
  /\ pc["start"] \in StarterLabels /\ pc["restart"] \in StarterLabels \ {"done", "rejected"}
  /\ pc["stop"] \in Teardowns \union {"idle", "closing", "done"}
  /\ pc["fence"] \in Teardowns \union {"idle", "over", "stuck"}
  /\ mine \in [Tasks -> 0 .. Attempts]
  /\ gen \in [Starters -> Nat] /\ generation \in Nat
  /\ candidate \in [Starters -> 0 .. (Resumes + Attempts)]
FlagTypes ==
  /\ status \in {"declared", "starting", "ready", "degraded", "stopping", "stopped"}
  /\ stopping \in BOOLEAN /\ restarting \in BOOLEAN /\ timer \in BOOLEAN /\ fenced \in BOOLEAN
  /\ cleared \in BOOLEAN /\ joined \in BOOLEAN /\ wasStopping \in BOOLEAN /\ lost \in BOOLEAN
  /\ writes \in Seq(Writers)
PartTypes ==
  /\ process \in 0 .. Attempts /\ client \in 0 .. Attempts /\ manager \in 0 .. Attempts
  /\ thread \in 0 .. (Resumes + Attempts) /\ known \in 0 .. (Resumes + Attempts)
  /\ child \in [Numbers -> {"unborn", "alive", "dead"}]
  /\ reap \in [Numbers -> Reaps]
  /\ open \subseteq Numbers /\ used \in 0 .. Attempts

Busy(k) == pc[k] \notin {"idle", "done", "rejected"}

\* A restart comes after the start is over; a task that was overtaken is being stopped.
StarterInv ==
  /\ Busy("restart") => pc["start"] \in {"done", "rejected"}
  /\ \A k \in Starters : Busy(k) /\ gen[k] # generation => stopping \/ fenced
  /\ pc["start"] \in Teardowns => stopping

\* The runtime is stopped for good, and not by a start that cleans up after itself only.
Ended == fenced \/ (stopping /\ (pc["start"] \in Teardowns => wasStopping))

\* The session Core knows is the runtime's while it lives; who names another was told the loss.
KnownInv ==
  /\ known # thread => Ended
  /\ \A k \in Starters : pc[k] = "naming" => candidate[k] = known \/ known = 0 \/ lost

\* Of the attempts made, the one at hand alone may have a child.
AttemptInv ==
  /\ process <= used /\ \A k \in Tasks : mine[k] <= used
  /\ \A p \in Numbers : p > used => child[p] = "unborn" /\ reap[p] = "no"
  /\ \A p \in Numbers : p <= used => p = process \/ reap[p] = "done"
  /\ \A p \in Numbers : reap[p] = "done" => child[p] # "alive"
  /\ \A k \in Starters :
       pc[k] \in {"preparing", "binding", "aborting", "talking", "losing", "naming", "readying"} => mine[k] # 0
  /\ \A k \in Tasks : pc[k] = "torn" /\ mine[k] # 0 => reap[mine[k]] = "done"

\* A start that cleans up has left nothing that would call for a restart.
Swept ==
  /\ pc["restart"] = "idle" /\ pc["start"] \in Teardowns \union {"rejected"} /\ ~timer
  /\ (process # 0 => reap[process] # "no") /\ client \notin open

\* Once a stop or the fence takes down the process, no other is made.
DownInv ==
  /\ pc["stop"] # "idle" => Ended \/ Swept
  /\ pc["fence"] # "idle" => fenced
  /\ \A k \in {"stop", "fence"} : pc[k] \in Teardowns => process \in {0, mine[k]}
  /\ pc["stop"] \in {"closing", "done"} \/ pc["fence"] = "over" => process = 0

RuntimeInv ==
  /\ TaskTypes /\ FlagTypes /\ PartTypes /\ StarterInv /\ KnownInv /\ AttemptInv /\ DownInv

LEMMA RuntimeStarts == Init => RuntimeInv
<1> SUFFICES ASSUME Init PROVE RuntimeInv
  OBVIOUS
<1>1. /\ 0 \in 0 .. Attempts /\ 0 \in 0 .. (Resumes + Attempts) /\ Resumes \in 0 .. (Resumes + Attempts)
      /\ 0 \in Nat /\ \A p \in Numbers : p > 0
  BY RuntimeAssumption DEF Numbers
<1>2. TaskTypes
  BY <1>1 DEF Init, TaskTypes, Tasks, Starters, StarterLabels, Teardowns
<1>3. FlagTypes
  <2>1. writes \in Seq(Writers)
    BY DEF Init
  <2> QED BY <2>1 DEF Init, FlagTypes
<1>4. PartTypes
  BY <1>1 DEF Init, PartTypes, Reaps
<1>5. StarterInv /\ KnownInv /\ DownInv
  BY DEF Init, StarterInv, KnownInv, DownInv, Busy, Tasks, Starters, Teardowns
<1>6. AttemptInv
  BY <1>1, RuntimeAssumption DEF Init, AttemptInv, Tasks, Starters, Numbers
<1> QED BY <1>2, <1>3, <1>4, <1>5, <1>6 DEF RuntimeInv

\* The reaping of the process at hand.
LEMMA ReapingFacts ==
  ASSUME PartTypes, AttemptInv
  PROVE  /\ Reaping \in [Numbers -> Reaps]
         /\ \A p \in Numbers : /\ Reaping[p] = "done" => child[p] # "alive"
                               /\ reap[p] = "done" => Reaping[p] = "done"
                               /\ reap[p] # "no" => Reaping[p] # "no"
                               /\ p # process => Reaping[p] = reap[p]
         /\ process # 0 => process \in Numbers /\ Reaping[process] \in {"running", "done"}
<1>1. process # 0 => process \in Numbers
  BY RuntimeAssumption DEF PartTypes, Numbers
<1> QED BY <1>1 DEF Reaping, PartTypes, AttemptInv, Reaps

\* What a closing of the fence does, the task k going on at next.
FencedBy(k, next) ==
  /\ fenced' = TRUE /\ stopping' \in BOOLEAN /\ timer' \in BOOLEAN /\ generation' \in Nat
  /\ stopping => stopping'
  /\ (timer' => timer)
  /\ pc' \in [Tasks -> StarterLabels \union {"closing", "over", "stuck"}]
  /\ k \in Tasks => pc'[k] = next
  /\ \A j \in Tasks : j # k /\ j # "fence" => pc'[j] = pc[j]
  /\ \A j \in Tasks : j # "fence" => mine'[j] = mine[j]
  /\ mine' \in [Tasks -> 0 .. Attempts] /\ mine'["fence"] \in {process, mine["fence"]}
  /\ \/ fenced /\ pc'["fence"] = pc["fence"] /\ mine'["fence"] = mine["fence"]
     \/ mine'["fence"] = process /\ pc'["fence"] \in {"tearing", "torn"}
        /\ (pc'["fence"] = "torn" /\ process # 0 => reap'[process] = "done")
  /\ reap' \in [Numbers -> Reaps] /\ open' \subseteq open
  /\ \A p \in Numbers : /\ reap'[p] = "done" => child[p] # "alive"
                        /\ reap[p] = "done" => reap'[p] = "done"
                        /\ reap[p] # "no" => reap'[p] # "no"
                        /\ p # process => reap'[p] = reap[p]

LEMMA FenceFacts ==
  ASSUME RuntimeInv, NEW k \in Tasks \union {"nobody"}, NEW next \in {"failed", "settled", "done", "idle"},
         CloseFence(k, next), k # "fence", UNCHANGED <<process, client, child, used>>
  PROVE  FencedBy(k, next)
<1> USE DEF RuntimeInv
<1>1. CASE fenced
  <2>1. pc' = [pc EXCEPT ![k] = next] /\ UNCHANGED <<stopping, generation, timer, fenced, reap, open, mine>>
    BY <1>1 DEF CloseFence
  <2>2. /\ pc' \in [Tasks -> StarterLabels \union {"closing", "over", "stuck"}]
        /\ k \in Tasks => pc'[k] = next
        /\ \A j \in Tasks : j # k => pc'[j] = pc[j]
    BY <2>1 DEF TaskTypes, StarterLabels
  <2>3. pc'["fence"] = pc["fence"]
    BY <2>2 DEF Tasks
  <2>4. /\ fenced' = TRUE /\ stopping' \in BOOLEAN /\ timer' \in BOOLEAN /\ generation' \in Nat
        /\ (stopping => stopping') /\ (timer' => timer)
    BY <1>1, <2>1 DEF TaskTypes, FlagTypes
  <2>5. /\ mine' \in [Tasks -> 0 .. Attempts] /\ mine' = mine
        /\ reap' \in [Numbers -> Reaps] /\ open' = open /\ reap' = reap
    BY <2>1 DEF TaskTypes, PartTypes
  <2> QED BY <1>1, <2>2, <2>3, <2>4, <2>5 DEF AttemptInv, FencedBy
<1>2. CASE ~fenced
  <2> DEFINE pcs == Torn({"fence"}, process)
  <2>1. /\ fenced' = TRUE /\ stopping' = TRUE /\ generation' = generation + 1 /\ timer' = FALSE
        /\ reap' = Reaping /\ open' = open \ {client} /\ mine' = [mine EXCEPT !["fence"] = process]
        /\ pc' = [pcs EXCEPT ![k] = next]
    BY <1>2 DEF CloseFence
  <2>2. /\ pcs \in [Tasks -> StarterLabels \union {"closing", "over", "stuck"}]
        /\ pcs["fence"] = IF process # 0 /\ Reaping[process] = "running" THEN "tearing" ELSE "torn"
        /\ \A j \in Tasks : j # "fence" => pcs[j] = pc[j]
    BY DEF Torn, TaskTypes, Tasks, StarterLabels
  <2> HIDE DEF pcs
  <2>3. /\ pc' \in [Tasks -> StarterLabels \union {"closing", "over", "stuck"}]
        /\ k \in Tasks => pc'[k] = next
        /\ \A j \in Tasks : j # k => pc'[j] = pcs[j]
    BY <2>1, <2>2 DEF StarterLabels
  <2>4. /\ mine' \in [Tasks -> 0 .. Attempts] /\ mine'["fence"] = process
        /\ \A j \in Tasks : j # "fence" => mine'[j] = mine[j]
    BY <2>1 DEF TaskTypes, PartTypes, Tasks
  <2>5. pc'["fence"] = pcs["fence"]
    BY <2>3 DEF Tasks
  <2>6. process # 0 => process \in Numbers /\ reap'[process] \in {"running", "done"}
    BY <2>1, ReapingFacts
  <2>7. /\ reap' \in [Numbers -> Reaps]
        /\ \A p \in Numbers : /\ reap'[p] = "done" => child[p] # "alive"
                              /\ reap[p] = "done" => reap'[p] = "done"
                              /\ reap[p] # "no" => reap'[p] # "no"
                              /\ p # process => reap'[p] = reap[p]
    BY <2>1, ReapingFacts
  <2>8. pc'["fence"] \in {"tearing", "torn"} /\ (pc'["fence"] = "torn" /\ process # 0 => reap'[process] = "done")
    BY <2>1, <2>2, <2>5, <2>6
  <2>9. fenced' = TRUE /\ stopping' \in BOOLEAN /\ timer' \in BOOLEAN /\ stopping' /\ ~timer'
    BY <2>1
  <2>11. generation' \in Nat /\ open' \subseteq open
    BY <2>1 DEF TaskTypes
  <2>10. \A j \in Tasks : j # k /\ j # "fence" => pc'[j] = pc[j]
    BY <2>2, <2>3
  <2> QED BY <2>3, <2>4, <2>7, <2>8, <2>9, <2>10, <2>11 DEF FencedBy
<1> QED BY <1>1, <1>2

\* What a teardown by one task does.
TakenDown(k) ==
  /\ pc' \in [Tasks -> StarterLabels \union {"closing", "over", "stuck"}]
  /\ pc'[k] \in {"tearing", "torn"} /\ \A j \in Tasks : j # k => pc'[j] = pc[j]
  /\ mine' \in [Tasks -> 0 .. Attempts] /\ mine'[k] = process
  /\ \A j \in Tasks : j # k => mine'[j] = mine[j]
  /\ (pc'[k] = "torn" /\ process # 0 => reap'[process] = "done")
  /\ process # 0 => process \in Numbers /\ reap'[process] # "no"
  /\ reap' \in [Numbers -> Reaps] /\ open' \subseteq open /\ client \notin open'
  /\ \A p \in Numbers : /\ reap'[p] = "done" => child[p] # "alive"
                        /\ reap[p] = "done" => reap'[p] = "done"
                        /\ reap[p] # "no" => reap'[p] # "no"
                        /\ p # process => reap'[p] = reap[p]

LEMMA TeardownFacts ==
  ASSUME RuntimeInv, NEW k \in Tasks, Teardown({k})
  PROVE  TakenDown(k)
<1> USE DEF RuntimeInv
<1>1. /\ reap' = Reaping /\ open' = open \ {client} /\ pc' = Torn({k}, process)
      /\ mine' = [j \in Tasks |-> IF j \in {k} THEN process ELSE mine[j]]
  BY DEF Teardown
<1>2. /\ pc' \in [Tasks -> StarterLabels \union {"closing", "over", "stuck"}]
      /\ pc'[k] = IF process # 0 /\ Reaping[process] = "running" THEN "tearing" ELSE "torn"
      /\ \A j \in Tasks : j # k => pc'[j] = pc[j]
  BY <1>1 DEF Torn, TaskTypes, StarterLabels
<1>3. /\ mine' \in [Tasks -> 0 .. Attempts] /\ mine'[k] = process
      /\ \A j \in Tasks : j # k => mine'[j] = mine[j]
  BY <1>1 DEF TaskTypes, PartTypes
<1>4. process # 0 => process \in Numbers /\ reap'[process] \in {"running", "done"}
  BY <1>1, ReapingFacts
<1>5. /\ reap' \in [Numbers -> Reaps]
      /\ \A p \in Numbers : /\ reap'[p] = "done" => child[p] # "alive"
                            /\ reap[p] = "done" => reap'[p] = "done"
                            /\ reap[p] # "no" => reap'[p] # "no"
                            /\ p # process => reap'[p] = reap[p]
  BY <1>1, ReapingFacts
<1> QED BY <1>1, <1>2, <1>3, <1>4, <1>5 DEF TakenDown

\* The writes on their way stay writes.
LEMMA WritesStay ==
  ASSUME writes \in Seq(Writers)
  PROVE  /\ \A w \in Writers : Append(writes, w) \in Seq(Writers)
         /\ writes # <<>> => /\ Tail(writes) \in Seq(Writers)
                             /\ \A w \in Writers : Append(Tail(writes), w) \in Seq(Writers)
<1>1. writes # <<>> => Tail(writes) \in Seq(Writers)
  OBVIOUS
<1> QED BY <1>1

\* A teardown leaves the children as they are accounted for.
LEMMA TakenDownKeeps ==
  ASSUME TaskTypes, PartTypes, AttemptInv, NEW k \in Tasks, TakenDown(k), UNCHANGED <<process, used, child>>
  PROVE  AttemptInv'
<1>1. process \in 0 .. Attempts /\ process <= used
  BY DEF PartTypes, AttemptInv
<1>2. \A j \in Tasks : mine'[j] <= used
  BY <1>1 DEF TakenDown, AttemptInv
<1>3. \A j \in Starters : pc'[j] \in {"preparing", "binding", "aborting", "talking", "losing", "naming", "readying"}
         => j # k /\ mine'[j] # 0
  BY DEF TakenDown, AttemptInv, Starters, Tasks
<1>4. ASSUME NEW j \in Tasks, pc'[j] = "torn", mine'[j] # 0 PROVE reap'[mine'[j]] = "done"
  <2>1. CASE j = k
    BY <1>4, <2>1 DEF TakenDown
  <2>2. CASE j # k
    <3>1. pc[j] = "torn" /\ mine'[j] = mine[j] /\ mine[j] \in 1 .. Attempts /\ reap[mine[j]] = "done"
      BY <1>4, <2>2, RuntimeAssumption DEF TakenDown, AttemptInv, TaskTypes
    <3> QED BY <3>1 DEF TakenDown, Numbers
  <2> QED BY <2>1, <2>2
<1>5. \A p \in Numbers : /\ p > used => child[p] = "unborn" /\ reap'[p] = "no"
                         /\ p <= used => p = process \/ reap'[p] = "done"
  BY <1>1 DEF AttemptInv, TakenDown, Numbers, PartTypes
<1> QED BY <1>1, <1>2, <1>3, <1>4, <1>5 DEF AttemptInv, TakenDown

\* What the end of a teardown lets go of is down.
LEMMA ClearFacts ==
  ASSUME TaskTypes, PartTypes, AttemptInv, NEW k \in Tasks, Clear(k)
  PROVE  /\ process' \in {0, process} /\ client' \in {0, client} /\ manager' \in {0, manager}
         /\ process' # process => pc[k] = "torn" /\ process \in Numbers /\ reap[process] = "done"
         /\ pc[k] = "torn" /\ process = mine[k] => process' = 0
<1>1. process # 0 => process \in Numbers
  BY RuntimeAssumption DEF PartTypes, Numbers
<1> QED BY <1>1 DEF Clear, ClearedBy, AttemptInv

\* A closing of the fence keeps the invariant.
LEMMA FencedKeeps ==
  ASSUME RuntimeInv, NEW k \in Tasks \union {"nobody"}, k # "fence",
         NEW next \in {"failed", "settled", "done", "idle"}, FencedBy(k, next),
         k \in Starters => next \in {"failed", "settled"} /\ Busy(k) /\ pc[k] \notin Teardowns,
         k = "stop" => next = "done" /\ pc[k] = "closing",
         UNCHANGED <<status, restarting, parts, gen, candidate, flags, used, child, record>>
  PROVE  TaskTypes' /\ PartTypes' /\ StarterInv' /\ KnownInv' /\ AttemptInv' /\ DownInv'
<1> USE DEF RuntimeInv
<1>1. /\ \A j \in Starters \union {"stop"} : pc'[j] = pc[j] \/ (k = j /\ pc'[j] = next)
      /\ pc'["fence"] = pc["fence"] \/ pc'["fence"] \in {"tearing", "torn"}
  BY DEF FencedBy, Tasks, Starters
<1>2. TaskTypes'
  BY <1>1 DEF TaskTypes, FencedBy, Starters, StarterLabels, Teardowns
<1>3. PartTypes'
  BY DEF PartTypes, FencedBy
<1>4. fenced' = TRUE /\ stopping' \in BOOLEAN /\ (stopping => stopping')
  BY DEF FencedBy
<1>5. \A j \in Starters : Busy(j)' => Busy(j)
  BY <1>1 DEF Busy
<1>6. \A j \in Starters : pc[j] \in {"done", "rejected"} => pc'[j] = pc[j]
  BY <1>1 DEF Busy
<1>7. \A j \in Starters : pc'[j] \notin {"failed", "settled"} => pc'[j] = pc[j]
  BY <1>1
<1>8. StarterInv'
  BY <1>4, <1>5, <1>6, <1>7 DEF StarterInv, Teardowns, Starters
<1>9. KnownInv'
  BY <1>4, <1>7 DEF KnownInv, Ended
<1>10. AttemptInv'
  <2>1. process' = process /\ used' = used /\ child' = child /\ process \in 0 .. Attempts
    BY DEF PartTypes
  <2>2. \A j \in Tasks : mine'[j] <= used
    BY <2>1 DEF AttemptInv, FencedBy
  <2>3. ASSUME NEW j \in Starters,
               pc'[j] \in {"preparing", "binding", "aborting", "talking", "losing", "naming", "readying"}
        PROVE  mine'[j] # 0
    BY <1>7, <2>3 DEF AttemptInv, FencedBy, Starters, Tasks
  <2>4. ASSUME NEW j \in Tasks, pc'[j] = "torn", mine'[j] # 0 PROVE reap'[mine'[j]] = "done"
    <3>1. CASE pc[j] = "torn" /\ mine'[j] = mine[j]
      <4>1. mine[j] \in Numbers /\ reap[mine[j]] = "done"
        BY <2>4, <3>1, RuntimeAssumption DEF TaskTypes, AttemptInv, Numbers
      <4> QED BY <3>1, <4>1 DEF FencedBy
    <3>2. CASE ~(pc[j] = "torn" /\ mine'[j] = mine[j])
      <4>1. j = "fence"
        BY <1>1, <2>4, <3>2 DEF FencedBy, Tasks
      <4> QED BY <2>4, <3>2, <4>1 DEF FencedBy
    <3> QED BY <3>1, <3>2
  <2>5. \A p \in Numbers : /\ p > used => child[p] = "unborn" /\ reap'[p] = "no"
                           /\ p <= used => p = process \/ reap'[p] = "done"
    BY <2>1 DEF AttemptInv, FencedBy, Numbers, PartTypes
  <2> QED BY <2>1, <2>2, <2>3, <2>4, <2>5 DEF AttemptInv, FencedBy
<1>11. DownInv'
  <2>1. \A j \in {"stop", "fence"} : pc'[j] \in Teardowns => process \in {0, mine'[j]}
    BY <1>1 DEF DownInv, FencedBy, Teardowns, Tasks
  <2>2. pc'["stop"] \in {"closing", "done"} \/ pc'["fence"] = "over" => process = 0
    BY <1>1 DEF DownInv
  <2> QED BY <1>4, <2>1, <2>2 DEF DownInv, Ended
<1> QED BY <1>2, <1>3, <1>8, <1>9, <1>10, <1>11

\* The steps of a start or a restart.
LEMMA StarterKeeps ==
  ASSUME RuntimeInv
  PROVE  /\ \A k \in Starters : Opened(k) => RuntimeInv'
         /\ \A k \in Starters : Create(k) => RuntimeInv'
         /\ \A k \in Starters : Launch(k) => RuntimeInv'
         /\ \A k \in Starters : Bound(k) => RuntimeInv'
         /\ \A k \in Starters : Aborted(k) => RuntimeInv'
         /\ \A k \in Starters : Talked(k) => RuntimeInv'
         /\ \A k \in Starters : LossTold(k) => RuntimeInv'
         /\ \A k \in Starters : Named(k) => RuntimeInv'
         /\ \A k \in Starters : Readied(k) => RuntimeInv'
         /\ \A k \in Starters : Settled(k) => RuntimeInv'
<1> USE DEF RuntimeInv
<1>1. ASSUME NEW k \in Starters, Opened(k) PROVE RuntimeInv'
  <2>1. pc[k] = "opening" /\ writes # <<>> /\ writes' = Tail(writes) /\ UNCHANGED <<own, parts, gen, candidate, flags, used, child, record>>
    BY <1>1 DEF Opened, Lands, Landed
  <2>2. \/ k = "start" /\ pc' = [pc EXCEPT ![k] = "creating"] /\ UNCHANGED <<reap, open, mine>>
        \/ k = "restart" /\ TakenDown(k)
    <3>1. CASE k = "start"
      <4>1. Goto(k, "creating") /\ UNCHANGED <<reap, open, mine>>
        BY <1>1, <3>1 DEF Opened
      <4> QED BY <4>1, <3>1 DEF Goto
    <3>2. CASE k = "restart"
      <4>1. Teardown({k}) /\ k \in Tasks
        BY <1>1, <3>2 DEF Opened, Tasks
      <4> QED BY <4>1, <3>2, TeardownFacts
    <3> QED BY <3>1, <3>2 DEF Starters
  <2>3. TaskTypes'
    BY RuntimeAssumption, <2>1, <2>2 DEF own, TakenDown, TaskTypes, PartTypes, Session,
       StarterLabels, Teardowns, Tasks, Starters
  <2>4. FlagTypes'
    <3>1. writes' \in Seq(Writers)
      BY <2>1, <2>2, WritesStay DEF own, TakenDown, FlagTypes, Writers, Tasks, Starters
    <3> QED BY <2>1, <2>2, <3>1 DEF own, TakenDown, FlagTypes
  <2>5. PartTypes'
    BY RuntimeAssumption, <2>1, <2>2 DEF own, TakenDown, PartTypes, TaskTypes, Reaps, Session,
       Starters, Tasks, Numbers
  <2>6. StarterInv'
    BY <2>1, <2>2 DEF own, TakenDown, StarterInv, Alive, Busy, Teardowns, Starters, Tasks,
       StarterLabels, TaskTypes, FlagTypes
  <2>7. KnownInv'
    <3>1. Ended' <=> Ended
      BY <2>1, <2>2 DEF own, Ended, TakenDown, Teardowns, TaskTypes, Tasks, Starters
    <3>2. \A j \in Starters : pc'[j] = "naming" => pc[j] = "naming"
      BY <2>1, <2>2 DEF TakenDown, TaskTypes, Tasks, Starters
    <3> QED BY <2>1, <3>1, <3>2 DEF KnownInv
  <2>8. AttemptInv'
    <3>1. CASE k = "start"
      BY <2>1, <2>2, <3>1 DEF AttemptInv, TaskTypes, Tasks, Starters
    <3>2. CASE k = "restart"
      BY <2>1, <2>2, <3>2, TakenDownKeeps DEF Tasks
    <3> QED BY <3>1, <3>2 DEF Starters
  <2>9. DownInv'
    BY <2>1, <2>2 DEF own, TakenDown, DownInv, Swept, StarterInv, Busy, Ended, Alive, Teardowns,
       Starters, Tasks, TaskTypes, PartTypes, FlagTypes
  <2> QED BY <2>3, <2>4, <2>5, <2>6, <2>7, <2>8, <2>9 DEF RuntimeInv
<1>2. ASSUME NEW k \in Starters, Create(k) PROVE RuntimeInv'
  <2>1. TaskTypes'
    BY <1>2, RuntimeAssumption DEF Create, Goto, own, TaskTypes, PartTypes, Session, StarterLabels,
       Teardowns, Tasks, Starters
  <2>2. FlagTypes'
    BY <1>2 DEF Create, Goto, own, FlagTypes
  <2>3. PartTypes'
    BY <1>2, RuntimeAssumption DEF Create, Goto, own, PartTypes, TaskTypes, Reaps, Session,
       Starters, Tasks, Numbers
  <2>4. StarterInv'
    BY <1>2 DEF Create, Goto, own, StarterInv, Alive, Busy, Teardowns, Starters, Tasks,
       StarterLabels, TaskTypes, FlagTypes
  <2>5. KnownInv'
    BY <1>2 DEF Create, Goto, own, KnownInv, StarterInv, Busy, Ended, Alive, Teardowns, Starters,
       Tasks, DownInv, TaskTypes, PartTypes, FlagTypes
  <2>6. AttemptInv'
    <3>1. CASE Alive(k) /\ process = 0
      <4>1. /\ used' = used + 1 /\ process' = used + 1 /\ used + 1 \in Numbers /\ used \in Nat
            /\ mine'[k] = used + 1 /\ pc'[k] = "preparing" /\ UNCHANGED <<child, reap>>
            /\ \A j \in Tasks : j # k => mine'[j] = mine[j] /\ pc'[j] = pc[j]
        BY <1>2, <3>1, RuntimeAssumption DEF Create, Goto, TaskTypes, PartTypes, Numbers, Tasks
      <4>2. \A p \in Numbers : p <= used => reap[p] = "done"
        BY <3>1, RuntimeAssumption DEF AttemptInv, Numbers
      <4>3. \A p \in Numbers : p <= used + 1 => p <= used \/ p = used + 1
        BY <4>1 DEF Numbers
      <4>7. \A p \in Numbers : p > used + 1 => child[p] = "unborn" /\ reap[p] = "no"
        BY <4>1 DEF AttemptInv, Numbers
      <4>4. \A j \in Tasks : mine'[j] <= used + 1
        BY <4>1 DEF AttemptInv, TaskTypes
      <4>5. \A j \in Starters : pc'[j] \in {"preparing", "binding", "aborting", "talking", "losing", "naming", "readying"}
              => mine'[j] # 0
        BY <4>1 DEF AttemptInv, Tasks, Numbers
      <4>6. \A j \in Tasks : pc'[j] = "torn" /\ mine'[j] # 0 => reap'[mine'[j]] = "done"
        BY <4>1 DEF AttemptInv
      <4> QED BY <4>1, <4>2, <4>3, <4>4, <4>5, <4>6, <4>7 DEF AttemptInv
    <3>2. CASE ~(Alive(k) /\ process = 0)
      BY <1>2, <3>2 DEF Create, Goto, AttemptInv, TaskTypes, Tasks
    <3> QED BY <3>1, <3>2
  <2>7. DownInv'
    <3>1. CASE Alive(k) /\ process = 0
      <4>1. pc["stop"] = "idle" /\ pc["fence"] = "idle"
        BY <1>2, <3>1 DEF Create, Alive, DownInv, Ended, Swept, Teardowns, TaskTypes, FlagTypes, Starters
      <4>2. pc'["stop"] = "idle" /\ pc'["fence"] = "idle"
        BY <1>2, <4>1 DEF Create, Goto, TaskTypes, Starters, Tasks
      <4> QED BY <4>2 DEF DownInv, Teardowns
    <3>2. CASE ~(Alive(k) /\ process = 0)
      <4>1. pc'["stop"] = pc["stop"] /\ pc'["fence"] = pc["fence"] /\ UNCHANGED <<process, client, open, own, flags, reap>>
        BY <1>2, <3>2 DEF Create, Goto, TaskTypes, Starters, Tasks
      <4>2. mine' = mine /\ pc'[k] = "failed" /\ \A j \in Starters : j # k => pc'[j] = pc[j]
        BY <1>2, <3>2 DEF Create, Goto, TaskTypes, Tasks
      <4>3. Ended \/ Swept => (Ended \/ Swept)'
        BY <1>2, <4>1, <4>2 DEF Create, Ended, Swept, own, Starters, Teardowns
      <4> QED BY <4>1, <4>2, <4>3 DEF DownInv, own
    <3> QED BY <3>1, <3>2
  <2> QED BY <2>1, <2>2, <2>3, <2>4, <2>5, <2>6, <2>7 DEF RuntimeInv
<1>3. ASSUME NEW k \in Starters, Launch(k) PROVE RuntimeInv'
  <2>1. TaskTypes'
    BY <1>3, RuntimeAssumption DEF Launch, Goto, own, TaskTypes, PartTypes, Session, StarterLabels,
       Teardowns, Tasks, Starters
  <2>2. FlagTypes'
    BY <1>3 DEF Launch, Goto, own, FlagTypes
  <2>3. PartTypes'
    BY <1>3, RuntimeAssumption DEF Launch, Goto, own, PartTypes, TaskTypes, Reaps, Session,
       Starters, Tasks, Numbers
  <2>4. StarterInv'
    BY <1>3 DEF Launch, Goto, own, StarterInv, Alive, Busy, Teardowns, Starters, Tasks,
       StarterLabels, TaskTypes, FlagTypes
  <2>5. KnownInv'
    BY <1>3 DEF Launch, Goto, own, KnownInv, StarterInv, Busy, Ended, Alive, Teardowns, Starters,
       Tasks, DownInv, TaskTypes, PartTypes, FlagTypes
  <2>6. AttemptInv'
    BY <1>3, RuntimeAssumption DEF Launch, Goto, own, AttemptInv, Numbers, Starters, Tasks,
       TaskTypes, PartTypes
  <2>7. DownInv'
    BY <1>3 DEF Launch, Goto, own, DownInv, Swept, StarterInv, Busy, Ended, Alive, Teardowns,
       Starters, Tasks, TaskTypes, PartTypes, FlagTypes
  <2> QED BY <2>1, <2>2, <2>3, <2>4, <2>5, <2>6, <2>7 DEF RuntimeInv
<1>4. ASSUME NEW k \in Starters, Bound(k) PROVE RuntimeInv'
  <2>1. TaskTypes'
    BY <1>4, RuntimeAssumption DEF Bound, Goto, own, TaskTypes, PartTypes, Session, StarterLabels,
       Teardowns, Tasks, Starters
  <2>2. FlagTypes'
    BY <1>4 DEF Bound, Goto, own, FlagTypes
  <2>3. PartTypes'
    <3>1. mine[k] \in Numbers
      BY <1>4, RuntimeAssumption DEF Bound, TaskTypes, AttemptInv, Numbers, Tasks
    <3>3. \/ UNCHANGED <<client, open>>
          \/ client' = mine[k] /\ open' = open \union {mine[k]}
      BY <1>4 DEF Bound
    <3>2. client' \in 0 .. Attempts /\ open' \subseteq Numbers
      <4>1. client \in 0 .. Attempts /\ open \subseteq Numbers /\ mine[k] \in 0 .. Attempts
        BY <3>1 DEF PartTypes, Numbers
      <4>2. CASE UNCHANGED <<client, open>>
        BY <4>1, <4>2
      <4>3. CASE client' = mine[k] /\ open' = open \union {mine[k]}
        BY <3>1, <4>1, <4>3
      <4> QED BY <3>3, <4>2, <4>3
    <3> QED BY <1>4, <3>2 DEF Bound, own, PartTypes
  <2>4. StarterInv'
    BY <1>4 DEF Bound, Goto, own, StarterInv, Alive, Busy, Teardowns, Starters, Tasks,
       StarterLabels, TaskTypes, FlagTypes
  <2>5. KnownInv'
    BY <1>4 DEF Bound, Goto, own, KnownInv, StarterInv, Busy, Ended, Alive, Teardowns, Starters,
       Tasks, DownInv, TaskTypes, PartTypes, FlagTypes
  <2>6. AttemptInv'
    BY <1>4, RuntimeAssumption DEF Bound, Goto, own, AttemptInv, Numbers, Starters, Tasks,
       TaskTypes, PartTypes
  <2>7. DownInv'
    BY <1>4 DEF Bound, Goto, own, DownInv, Swept, StarterInv, Busy, Ended, Alive, Teardowns,
       Starters, Tasks, TaskTypes, PartTypes, FlagTypes
  <2> QED BY <2>1, <2>2, <2>3, <2>4, <2>5, <2>6, <2>7 DEF RuntimeInv
<1>5. ASSUME NEW k \in Starters, Aborted(k) PROVE RuntimeInv'
  <2>1. TaskTypes'
    BY <1>5, RuntimeAssumption DEF Aborted, Goto, own, TaskTypes, PartTypes, Session, StarterLabels,
       Teardowns, Tasks, Starters
  <2>2. FlagTypes'
    BY <1>5 DEF Aborted, Goto, own, FlagTypes
  <2>3. PartTypes'
    BY <1>5, RuntimeAssumption DEF Aborted, Goto, own, PartTypes, TaskTypes, Reaps, Session,
       Starters, Tasks, Numbers
  <2>4. StarterInv'
    BY <1>5 DEF Aborted, Goto, own, StarterInv, Alive, Busy, Teardowns, Starters, Tasks,
       StarterLabels, TaskTypes, FlagTypes
  <2>5. KnownInv'
    BY <1>5 DEF Aborted, Goto, own, KnownInv, StarterInv, Busy, Ended, Alive, Teardowns, Starters,
       Tasks, DownInv, TaskTypes, PartTypes, FlagTypes
  <2>6. AttemptInv'
    BY <1>5, RuntimeAssumption DEF Aborted, Goto, own, AttemptInv, Numbers, Starters, Tasks,
       TaskTypes, PartTypes
  <2>7. DownInv'
    BY <1>5 DEF Aborted, Goto, own, DownInv, Swept, StarterInv, Busy, Ended, Alive, Teardowns,
       Starters, Tasks, TaskTypes, PartTypes, FlagTypes
  <2> QED BY <2>1, <2>2, <2>3, <2>4, <2>5, <2>6, <2>7 DEF RuntimeInv
<1>6. ASSUME NEW k \in Starters, Talked(k) PROVE RuntimeInv'
  <2>1. TaskTypes'
    BY <1>6, RuntimeAssumption DEF Talked, Goto, Publish, own, TaskTypes, PartTypes, Session,
       StarterLabels, Teardowns, Tasks, Starters
  <2>2. FlagTypes'
    <3>1. writes' \in Seq(Writers)
      BY <1>6, WritesStay DEF Talked, Goto, Publish, own, FlagTypes, Writers, Tasks, Starters
    <3> QED BY <1>6, <3>1 DEF Talked, Goto, Publish, own, FlagTypes
  <2>3. PartTypes'
    BY <1>6, RuntimeAssumption DEF Talked, Goto, Publish, own, PartTypes, TaskTypes, Reaps, Session,
       Starters, Tasks, Numbers
  <2>4. StarterInv'
    BY <1>6 DEF Talked, Goto, Publish, own, StarterInv, Alive, Busy, Teardowns, Starters, Tasks,
       StarterLabels, TaskTypes, FlagTypes
  <2>5. KnownInv'
    BY <1>6 DEF Talked, Goto, Publish, own, KnownInv, StarterInv, Busy, Ended, Alive, Teardowns,
       Starters, Tasks, DownInv, TaskTypes, PartTypes, FlagTypes
  <2>6. AttemptInv'
    BY <1>6, RuntimeAssumption DEF Talked, Goto, Publish, own, AttemptInv, Numbers, Starters, Tasks,
       TaskTypes, PartTypes
  <2>7. DownInv'
    BY <1>6 DEF Talked, Goto, Publish, own, DownInv, Swept, StarterInv, Busy, Ended, Alive,
       Teardowns, Starters, Tasks, TaskTypes, PartTypes, FlagTypes
  <2> QED BY <2>1, <2>2, <2>3, <2>4, <2>5, <2>6, <2>7 DEF RuntimeInv
<1>7. ASSUME NEW k \in Starters, LossTold(k) PROVE RuntimeInv'
  <2>1. TaskTypes'
    BY <1>7, RuntimeAssumption DEF LossTold, Goto, Landed, Lands, LandsNext, own, TaskTypes,
       PartTypes, Session, StarterLabels, Teardowns, Tasks, Starters
  <2>2. FlagTypes'
    <3>1. writes' \in Seq(Writers)
      BY <1>7, WritesStay DEF LossTold, Goto, Landed, Lands, LandsNext, own, FlagTypes, Writers,
         Tasks, Starters
    <3> QED
      BY <1>7, <3>1 DEF LossTold, Goto, Landed, Lands, LandsNext, own, FlagTypes
  <2>3. PartTypes'
    BY <1>7, RuntimeAssumption DEF LossTold, Goto, Landed, Lands, LandsNext, own, PartTypes,
       TaskTypes, Reaps, Session, Starters, Tasks, Numbers
  <2>4. StarterInv'
    BY <1>7 DEF LossTold, Goto, Landed, Lands, LandsNext, own, StarterInv, Alive, Busy, Teardowns,
       Starters, Tasks, StarterLabels, TaskTypes, FlagTypes
  <2>5. KnownInv'
    BY <1>7 DEF LossTold, Goto, Landed, Lands, LandsNext, own, KnownInv, StarterInv, Busy, Ended,
       Alive, Teardowns, Starters, Tasks, DownInv, TaskTypes, PartTypes, FlagTypes
  <2>6. AttemptInv'
    BY <1>7, RuntimeAssumption DEF LossTold, Goto, Landed, Lands, LandsNext, own, AttemptInv,
       Numbers, Starters, Tasks, TaskTypes, PartTypes
  <2>7. DownInv'
    BY <1>7 DEF LossTold, Goto, Landed, Lands, LandsNext, own, DownInv, Swept, StarterInv, Busy,
       Ended, Alive, Teardowns, Starters, Tasks, TaskTypes, PartTypes, FlagTypes
  <2> QED BY <2>1, <2>2, <2>3, <2>4, <2>5, <2>6, <2>7 DEF RuntimeInv
<1>8. ASSUME NEW k \in Starters, Named(k) PROVE RuntimeInv'
  <2>1. TaskTypes'
    BY <1>8, RuntimeAssumption DEF Named, Goto, Landed, Lands, LandsNext, SetStatus, TaskTypes,
       PartTypes, Session, StarterLabels, Teardowns, Tasks, Starters
  <2>2. FlagTypes'
    <3>1. writes' \in Seq(Writers)
      BY <1>8, WritesStay DEF Named, Goto, Landed, Lands, LandsNext, SetStatus, FlagTypes, Writers,
         Tasks, Starters
    <3> QED BY <1>8, <3>1 DEF Named, Goto, Landed, Lands, LandsNext, SetStatus, FlagTypes
  <2>3. PartTypes'
    BY <1>8, RuntimeAssumption DEF Named, Goto, Landed, Lands, LandsNext, SetStatus, PartTypes,
       TaskTypes, Reaps, Session, Starters, Tasks, Numbers
  <2>4. StarterInv'
    BY <1>8 DEF Named, Goto, Landed, Lands, LandsNext, SetStatus, StarterInv, Alive, Busy,
       Teardowns, Starters, Tasks, StarterLabels, TaskTypes, FlagTypes
  <2>5. KnownInv'
    <3>1. UNCHANGED <<stopping, fenced, flags>> /\ \A j \in Starters : j # k => pc'[j] = pc[j]
      BY <1>8 DEF Named, Goto, TaskTypes, Tasks
    <3>2. pc[k] = "naming" /\ pc'[k] \in {"readying", "failed"}
      BY <1>8 DEF Named, Goto, TaskTypes, Tasks
    <3>3. Ended' <=> Ended
      BY <3>1, <3>2 DEF Ended, Teardowns, Starters
    <3>4. \A j \in Starters : pc'[j] # "naming"
      BY <3>1, <3>2 DEF StarterInv, Busy, Starters
    <3>5. known' # thread' => Ended
      <4>1. ~Alive(k) => stopping \/ fenced
        BY <3>2 DEF Alive, StarterInv, Busy
      <4>2. stopping \/ fenced => Ended
        BY <3>2 DEF Ended, StarterInv, Busy, Teardowns, Starters
      <4> QED BY <1>8, <4>1, <4>2 DEF Named
    <3> QED BY <3>3, <3>4, <3>5 DEF KnownInv
  <2>6. AttemptInv'
    <3>1. /\ UNCHANGED <<process, used, child, reap, mine>> /\ pc[k] = "naming"
          /\ pc'[k] \in {"readying", "failed"} /\ \A j \in Tasks : j # k => pc'[j] = pc[j]
      BY <1>8 DEF Named, Goto, TaskTypes, Tasks
    <3> QED BY <3>1 DEF AttemptInv, Tasks
  <2>7. DownInv'
    BY <1>8 DEF Named, Goto, Landed, Lands, LandsNext, SetStatus, DownInv, Swept, StarterInv, Busy,
       Ended, Alive, Teardowns, Starters, Tasks, TaskTypes, PartTypes, FlagTypes
  <2> QED BY <2>1, <2>2, <2>3, <2>4, <2>5, <2>6, <2>7 DEF RuntimeInv
<1>9. ASSUME NEW k \in Starters, Readied(k) PROVE RuntimeInv'
  <2>1. TaskTypes'
    BY <1>9, RuntimeAssumption DEF Readied, Goto, Landed, Lands, TaskTypes, PartTypes, Session,
       StarterLabels, Teardowns, Tasks, Starters
  <2>2. FlagTypes'
    <3>1. writes' \in Seq(Writers)
      BY <1>9, WritesStay DEF Readied, Goto, Landed, Lands, FlagTypes, Writers, Tasks, Starters
    <3> QED BY <1>9, <3>1 DEF Readied, Goto, Landed, Lands, FlagTypes
  <2>3. PartTypes'
    BY <1>9, RuntimeAssumption DEF Readied, Goto, Landed, Lands, PartTypes, TaskTypes, Reaps,
       Session, Starters, Tasks, Numbers
  <2>4. StarterInv'
    BY <1>9 DEF Readied, Goto, Landed, Lands, StarterInv, Alive, Busy, Teardowns, Starters, Tasks,
       StarterLabels, TaskTypes, FlagTypes
  <2>5. KnownInv'
    BY <1>9 DEF Readied, Goto, Landed, Lands, KnownInv, StarterInv, Busy, Ended, Alive, Teardowns,
       Starters, Tasks, DownInv, TaskTypes, PartTypes, FlagTypes
  <2>6. AttemptInv'
    BY <1>9, RuntimeAssumption DEF Readied, Goto, Landed, Lands, AttemptInv, Numbers, Starters,
       Tasks, TaskTypes, PartTypes
  <2>7. DownInv'
    BY <1>9 DEF Readied, Goto, Landed, Lands, DownInv, Swept, StarterInv, Busy, Ended, Alive,
       Teardowns, Starters, Tasks, TaskTypes, PartTypes, FlagTypes
  <2> QED BY <2>1, <2>2, <2>3, <2>4, <2>5, <2>6, <2>7 DEF RuntimeInv
<1>10. ASSUME NEW k \in Starters, Settled(k) PROVE RuntimeInv'
  <2>1. TaskTypes'
    BY <1>10, RuntimeAssumption DEF Settled, Goto, Landed, Lands, own, TaskTypes, PartTypes,
       Session, StarterLabels, Teardowns, Tasks, Starters
  <2>2. FlagTypes'
    <3>1. writes' \in Seq(Writers)
      BY <1>10, WritesStay DEF Settled, Goto, Landed, Lands, own, FlagTypes, Writers, Tasks,
         Starters
    <3> QED BY <1>10, <3>1 DEF Settled, Goto, Landed, Lands, own, FlagTypes
  <2>3. PartTypes'
    BY <1>10, RuntimeAssumption DEF Settled, Goto, Landed, Lands, own, PartTypes, TaskTypes, Reaps,
       Session, Starters, Tasks, Numbers
  <2>4. StarterInv'
    BY <1>10 DEF Settled, Goto, Landed, Lands, own, StarterInv, Alive, Busy, Teardowns, Starters,
       Tasks, StarterLabels, TaskTypes, FlagTypes
  <2>5. KnownInv'
    BY <1>10 DEF Settled, Goto, Landed, Lands, own, KnownInv, StarterInv, Busy, Ended, Alive,
       Teardowns, Starters, Tasks, DownInv, TaskTypes, PartTypes, FlagTypes
  <2>6. AttemptInv'
    BY <1>10, RuntimeAssumption DEF Settled, Goto, Landed, Lands, own, AttemptInv, Numbers,
       Starters, Tasks, TaskTypes, PartTypes
  <2>7. DownInv'
    BY <1>10 DEF Settled, Goto, Landed, Lands, own, DownInv, Swept, StarterInv, Busy, Ended, Alive,
       Teardowns, Starters, Tasks, TaskTypes, PartTypes, FlagTypes
  <2> QED BY <2>1, <2>2, <2>3, <2>4, <2>5, <2>6, <2>7 DEF RuntimeInv
<1> QED BY <1>1, <1>2, <1>3, <1>4, <1>5, <1>6, <1>7, <1>8, <1>9, <1>10

\* Where they begin, fail and end.
LEMMA BeginningsKeep ==
  ASSUME RuntimeInv
  PROVE  /\ Start => RuntimeInv'
         /\ TimerFires => RuntimeInv'
         /\ StartFails => RuntimeInv'
         /\ CleanUp => RuntimeInv'
         /\ CleanedUp => RuntimeInv'
         /\ RestartCleared => RuntimeInv'
         /\ RestartFails => RuntimeInv'
         /\ RestartTorn => RuntimeInv'
         /\ RestartAgain => RuntimeInv'
<1> USE DEF RuntimeInv
<1>1. ASSUME Start PROVE RuntimeInv'
  <2>1. TaskTypes'
    BY <1>1, RuntimeAssumption DEF Start, Goto, Publish, SetStatus, TaskTypes, PartTypes, Session,
       StarterLabels, Teardowns, Tasks, Starters
  <2>2. FlagTypes'
    <3>1. writes' \in Seq(Writers)
      BY <1>1, WritesStay DEF Start, Goto, Publish, SetStatus, FlagTypes, Writers, Tasks, Starters
    <3> QED BY <1>1, <3>1 DEF Start, Goto, Publish, SetStatus, FlagTypes
  <2>3. PartTypes'
    BY <1>1, RuntimeAssumption DEF Start, Goto, Publish, SetStatus, PartTypes, TaskTypes, Reaps,
       Session, Starters, Tasks, Numbers
  <2>4. StarterInv'
    BY <1>1 DEF Start, Goto, Publish, SetStatus, StarterInv, Alive, Busy, Teardowns, Starters,
       Tasks, StarterLabels, TaskTypes, FlagTypes
  <2>5. KnownInv'
    BY <1>1 DEF Start, Goto, Publish, SetStatus, KnownInv, StarterInv, Busy, Ended, Alive,
       Teardowns, Starters, Tasks, DownInv, TaskTypes, PartTypes, FlagTypes
  <2>6. AttemptInv'
    BY <1>1, RuntimeAssumption DEF Start, Goto, Publish, SetStatus, AttemptInv, Numbers, Starters,
       Tasks, TaskTypes, PartTypes
  <2>7. DownInv'
    BY <1>1 DEF Start, Goto, Publish, SetStatus, DownInv, Swept, StarterInv, Busy, Ended, Alive,
       Teardowns, Starters, Tasks, TaskTypes, PartTypes, FlagTypes
  <2> QED BY <2>1, <2>2, <2>3, <2>4, <2>5, <2>6, <2>7 DEF RuntimeInv
<1>2. ASSUME TimerFires PROVE RuntimeInv'
  <2>1. TaskTypes'
    BY <1>2, RuntimeAssumption DEF TimerFires, Goto, Publish, SetStatus, TaskTypes, PartTypes,
       Session, StarterLabels, Teardowns, Tasks, Starters
  <2>2. FlagTypes'
    <3>1. writes' \in Seq(Writers)
      BY <1>2, WritesStay DEF TimerFires, Goto, Publish, SetStatus, FlagTypes, Writers, Tasks,
         Starters
    <3> QED BY <1>2, <3>1 DEF TimerFires, Goto, Publish, SetStatus, FlagTypes
  <2>3. PartTypes'
    BY <1>2, RuntimeAssumption DEF TimerFires, Goto, Publish, SetStatus, PartTypes, TaskTypes,
       Reaps, Session, Starters, Tasks, Numbers
  <2>4. StarterInv'
    BY <1>2 DEF TimerFires, Goto, Publish, SetStatus, StarterInv, Alive, Busy, Teardowns, Starters,
       Tasks, StarterLabels, TaskTypes, FlagTypes
  <2>5. KnownInv'
    BY <1>2 DEF TimerFires, Goto, Publish, SetStatus, KnownInv, StarterInv, Busy, Ended, Alive,
       Teardowns, Starters, Tasks, DownInv, TaskTypes, PartTypes, FlagTypes
  <2>6. AttemptInv'
    BY <1>2, RuntimeAssumption DEF TimerFires, Goto, Publish, SetStatus, AttemptInv, Numbers,
       Starters, Tasks, TaskTypes, PartTypes
  <2>7. DownInv'
    BY <1>2 DEF TimerFires, Goto, Publish, SetStatus, DownInv, Swept, StarterInv, Busy, Ended,
       Alive, Teardowns, Starters, Tasks, TaskTypes, PartTypes, FlagTypes
  <2> QED BY <2>1, <2>2, <2>3, <2>4, <2>5, <2>6, <2>7 DEF RuntimeInv
<1>3. ASSUME StartFails PROVE RuntimeInv'
  <2>1. TaskTypes'
    BY <1>3, RuntimeAssumption DEF StartFails, Goto, Publish, SetStatus, TaskTypes, PartTypes,
       Session, StarterLabels, Teardowns, Tasks, Starters
  <2>2. FlagTypes'
    <3>1. writes' \in Seq(Writers)
      BY <1>3, WritesStay DEF StartFails, Goto, Publish, SetStatus, FlagTypes, Writers, Tasks,
         Starters
    <3> QED
      BY <1>3, <3>1 DEF StartFails, Goto, Publish, SetStatus, FlagTypes
  <2>3. PartTypes'
    BY <1>3, RuntimeAssumption DEF StartFails, Goto, Publish, SetStatus, PartTypes, TaskTypes,
       Reaps, Session, Starters, Tasks, Numbers
  <2>4. StarterInv'
    BY <1>3 DEF StartFails, Goto, Publish, SetStatus, StarterInv, Alive, Busy, Teardowns, Starters,
       Tasks, StarterLabels, TaskTypes, FlagTypes
  <2>5. KnownInv'
    BY <1>3 DEF StartFails, Goto, Publish, SetStatus, KnownInv, StarterInv, Busy, Ended, Alive,
       Teardowns, Starters, Tasks, DownInv, TaskTypes, PartTypes, FlagTypes
  <2>6. AttemptInv'
    BY <1>3, RuntimeAssumption DEF StartFails, Goto, Publish, SetStatus, AttemptInv, Numbers,
       Starters, Tasks, TaskTypes, PartTypes
  <2>7. DownInv'
    BY <1>3 DEF StartFails, Goto, Publish, SetStatus, DownInv, Swept, StarterInv, Busy, Ended,
       Alive, Teardowns, Starters, Tasks, TaskTypes, PartTypes, FlagTypes
  <2> QED BY <2>1, <2>2, <2>3, <2>4, <2>5, <2>6, <2>7 DEF RuntimeInv
<1>4. ASSUME CleanUp PROVE RuntimeInv'
  <2>1. TakenDown("start")
    BY <1>4, TeardownFacts DEF CleanUp, Tasks, Starters
  <2>2. TaskTypes'
    BY <1>4, RuntimeAssumption, <2>1 DEF CleanUp, TakenDown, TaskTypes, PartTypes, Session,
       StarterLabels, Teardowns, Tasks, Starters
  <2>3. FlagTypes'
    BY <1>4, <2>1 DEF CleanUp, TakenDown, FlagTypes
  <2>4. PartTypes'
    BY <1>4, RuntimeAssumption, <2>1 DEF CleanUp, TakenDown, PartTypes, TaskTypes, Reaps, Session,
       Starters, Tasks, Numbers
  <2>5. StarterInv'
    BY <1>4, <2>1 DEF CleanUp, TakenDown, StarterInv, Alive, Busy, Teardowns, Starters, Tasks,
       StarterLabels, TaskTypes, FlagTypes
  <2>6. KnownInv'
    BY <1>4, <2>1 DEF CleanUp, TakenDown, KnownInv, StarterInv, Busy, Ended, Alive, Teardowns,
       Starters, Tasks, DownInv, TaskTypes, PartTypes, FlagTypes
  <2>7. AttemptInv'
    BY <1>4, <2>1, TakenDownKeeps DEF CleanUp, Tasks, Starters
  <2>8. DownInv'
    BY <1>4, <2>1 DEF CleanUp, TakenDown, DownInv, Swept, StarterInv, Busy, Ended, Alive, Teardowns,
       Starters, Tasks, TaskTypes, PartTypes, FlagTypes
  <2> QED BY <2>2, <2>3, <2>4, <2>5, <2>6, <2>7, <2>8 DEF RuntimeInv
<1>5. ASSUME CleanedUp PROVE RuntimeInv'
  <2>1. TaskTypes'
    BY <1>5, RuntimeAssumption DEF CleanedUp, Clear, ClearedBy, Goto, Over, TaskTypes, PartTypes,
       Session, StarterLabels, Teardowns, Tasks, Starters
  <2>2. FlagTypes'
    BY <1>5 DEF CleanedUp, Clear, ClearedBy, Goto, Over, FlagTypes
  <2>3. PartTypes'
    BY <1>5, RuntimeAssumption DEF CleanedUp, Clear, ClearedBy, Goto, Over, PartTypes, TaskTypes,
       Reaps, Session, Starters, Tasks, Numbers
  <2>4. StarterInv'
    BY <1>5 DEF CleanedUp, Clear, ClearedBy, Goto, Over, StarterInv, Alive, Busy, Teardowns,
       Starters, Tasks, StarterLabels, TaskTypes, FlagTypes
  <2>5. KnownInv'
    BY <1>5 DEF CleanedUp, Clear, ClearedBy, Goto, Over, KnownInv, StarterInv, Busy, Ended, Alive,
       Teardowns, Starters, Tasks, DownInv, TaskTypes, PartTypes, FlagTypes
  <2>6. AttemptInv'
    BY <1>5, RuntimeAssumption DEF CleanedUp, Clear, ClearedBy, Goto, Over, AttemptInv, Numbers,
       Starters, Tasks, TaskTypes, PartTypes
  <2>7. DownInv'
    <3>1. process' \in {0, process} /\ client' \in {0, client}
      BY <1>5, ClearFacts DEF CleanedUp, Tasks, Starters
    <3>2. /\ pc["start"] \in {"torn", "kept"} /\ pc'["start"] = "rejected" /\ \A j \in Tasks : j # "start" => pc'[j] = pc[j]
          /\ UNCHANGED <<fenced, timer, mine, flags, world>>
      BY <1>5 DEF CleanedUp, Over, Goto, TaskTypes, Tasks, Starters
    <3>3. Ended => Ended'
      BY <1>5, <3>2 DEF CleanedUp, Ended, Teardowns
    <3>4. Swept => Swept'
      BY <3>1, <3>2, RuntimeAssumption DEF Swept, Teardowns, PartTypes, Numbers, Tasks, Starters
    <3> QED BY <3>1, <3>2, <3>3, <3>4 DEF DownInv, Tasks, Teardowns
  <2> QED BY <2>1, <2>2, <2>3, <2>4, <2>5, <2>6, <2>7 DEF RuntimeInv
<1>6. ASSUME RestartCleared PROVE RuntimeInv'
  <2>1. TaskTypes'
    BY <1>6, RuntimeAssumption DEF RestartCleared, Clear, ClearedBy, Goto, Over, own, TaskTypes,
       PartTypes, Session, StarterLabels, Teardowns, Tasks, Starters
  <2>2. FlagTypes'
    BY <1>6 DEF RestartCleared, Clear, ClearedBy, Goto, Over, own, FlagTypes
  <2>3. PartTypes'
    BY <1>6, RuntimeAssumption DEF RestartCleared, Clear, ClearedBy, Goto, Over, own, PartTypes,
       TaskTypes, Reaps, Session, Starters, Tasks, Numbers
  <2>4. StarterInv'
    BY <1>6 DEF RestartCleared, Clear, ClearedBy, Goto, Over, own, StarterInv, Alive, Busy,
       Teardowns, Starters, Tasks, StarterLabels, TaskTypes, FlagTypes
  <2>5. KnownInv'
    BY <1>6 DEF RestartCleared, Clear, ClearedBy, Goto, Over, own, KnownInv, StarterInv, Busy,
       Ended, Alive, Teardowns, Starters, Tasks, DownInv, TaskTypes, PartTypes, FlagTypes
  <2>6. AttemptInv'
    BY <1>6, RuntimeAssumption DEF RestartCleared, Clear, ClearedBy, Goto, Over, own, AttemptInv,
       Numbers, Starters, Tasks, TaskTypes, PartTypes
  <2>7. DownInv'
    BY <1>6 DEF RestartCleared, Clear, ClearedBy, Goto, Over, own, DownInv, Swept, StarterInv, Busy,
       Ended, Alive, Teardowns, Starters, Tasks, TaskTypes, PartTypes, FlagTypes
  <2> QED BY <2>1, <2>2, <2>3, <2>4, <2>5, <2>6, <2>7 DEF RuntimeInv
<1>7. ASSUME RestartFails PROVE RuntimeInv'
  <2>1. TakenDown("restart")
    BY <1>7, TeardownFacts DEF RestartFails, Tasks, Starters
  <2>2. TaskTypes'
    BY <1>7, RuntimeAssumption, <2>1 DEF RestartFails, own, TakenDown, TaskTypes, PartTypes,
       Session, StarterLabels, Teardowns, Tasks, Starters
  <2>3. FlagTypes'
    BY <1>7, <2>1 DEF RestartFails, own, TakenDown, FlagTypes
  <2>4. PartTypes'
    BY <1>7, RuntimeAssumption, <2>1 DEF RestartFails, own, TakenDown, PartTypes, TaskTypes, Reaps,
       Session, Starters, Tasks, Numbers
  <2>5. StarterInv'
    BY <1>7, <2>1 DEF RestartFails, own, TakenDown, StarterInv, Alive, Busy, Teardowns, Starters,
       Tasks, StarterLabels, TaskTypes, FlagTypes
  <2>6. KnownInv'
    BY <1>7, <2>1 DEF RestartFails, own, TakenDown, KnownInv, StarterInv, Busy, Ended, Alive,
       Teardowns, Starters, Tasks, DownInv, TaskTypes, PartTypes, FlagTypes
  <2>7. AttemptInv'
    BY <1>7, <2>1, TakenDownKeeps DEF RestartFails, Tasks, Starters
  <2>8. DownInv'
    BY <1>7, <2>1 DEF RestartFails, own, TakenDown, DownInv, Swept, StarterInv, Busy, Ended, Alive,
       Teardowns, Starters, Tasks, TaskTypes, PartTypes, FlagTypes
  <2> QED BY <2>2, <2>3, <2>4, <2>5, <2>6, <2>7, <2>8 DEF RuntimeInv
<1>8. ASSUME RestartTorn PROVE RuntimeInv'
  <2>1. TaskTypes'
    BY <1>8, RuntimeAssumption DEF RestartTorn, Clear, ClearedBy, Goto, Over, Publish, SetStatus,
       TaskTypes, PartTypes, Session, StarterLabels, Teardowns, Tasks, Starters
  <2>2. FlagTypes'
    <3>1. writes' \in Seq(Writers)
      BY <1>8, WritesStay DEF RestartTorn, Clear, ClearedBy, Goto, Over, Publish, SetStatus,
         FlagTypes, Writers, Tasks, Starters
    <3> QED
      BY <1>8, <3>1 DEF RestartTorn, Clear, ClearedBy, Goto, Over, Publish, SetStatus, FlagTypes
  <2>3. PartTypes'
    BY <1>8, RuntimeAssumption DEF RestartTorn, Clear, ClearedBy, Goto, Over, Publish, SetStatus,
       PartTypes, TaskTypes, Reaps, Session, Starters, Tasks, Numbers
  <2>4. StarterInv'
    BY <1>8 DEF RestartTorn, Clear, ClearedBy, Goto, Over, Publish, SetStatus, StarterInv, Alive,
       Busy, Teardowns, Starters, Tasks, StarterLabels, TaskTypes, FlagTypes
  <2>5. KnownInv'
    BY <1>8 DEF RestartTorn, Clear, ClearedBy, Goto, Over, Publish, SetStatus, KnownInv, StarterInv,
       Busy, Ended, Alive, Teardowns, Starters, Tasks, DownInv, TaskTypes, PartTypes, FlagTypes
  <2>6. AttemptInv'
    <3>1. /\ process' \in {0, process}
          /\ process' # process => process \in Numbers /\ reap[process] = "done"
      BY <1>8, ClearFacts DEF RestartTorn, Tasks, Starters
    <3>2. /\ pc'["restart"] \in {"idle", "degrading"} /\ \A j \in Tasks : j # "restart" => pc'[j] = pc[j]
          /\ UNCHANGED <<mine, used, child, reap>>
      BY <1>8 DEF RestartTorn, Goto, TaskTypes, Tasks, Starters
    <3>3. 0 <= used
      BY DEF PartTypes
    <3> QED BY <3>1, <3>2, <3>3 DEF AttemptInv, Tasks, Starters
  <2>7. DownInv'
    BY <1>8 DEF RestartTorn, Clear, ClearedBy, Goto, Over, Publish, SetStatus, DownInv, Swept,
       StarterInv, Busy, Ended, Alive, Teardowns, Starters, Tasks, TaskTypes, PartTypes, FlagTypes
  <2> QED BY <2>1, <2>2, <2>3, <2>4, <2>5, <2>6, <2>7 DEF RuntimeInv
<1>9. ASSUME RestartAgain PROVE RuntimeInv'
  <2>1. TaskTypes'
    BY <1>9, RuntimeAssumption DEF RestartAgain, Goto, Publish, SetStatus, TaskTypes, PartTypes,
       Session, StarterLabels, Teardowns, Tasks, Starters
  <2>2. FlagTypes'
    <3>1. writes' \in Seq(Writers)
      BY <1>9, WritesStay DEF RestartAgain, Goto, Publish, SetStatus, FlagTypes, Writers, Tasks,
         Starters
    <3> QED
      BY <1>9, <3>1 DEF RestartAgain, Goto, Publish, SetStatus, FlagTypes
  <2>3. PartTypes'
    BY <1>9, RuntimeAssumption DEF RestartAgain, Goto, Publish, SetStatus, PartTypes, TaskTypes,
       Reaps, Session, Starters, Tasks, Numbers
  <2>4. StarterInv'
    BY <1>9 DEF RestartAgain, Goto, Publish, SetStatus, StarterInv, Alive, Busy, Teardowns,
       Starters, Tasks, StarterLabels, TaskTypes, FlagTypes
  <2>5. KnownInv'
    BY <1>9 DEF RestartAgain, Goto, Publish, SetStatus, KnownInv, StarterInv, Busy, Ended, Alive,
       Teardowns, Starters, Tasks, DownInv, TaskTypes, PartTypes, FlagTypes
  <2>6. AttemptInv'
    BY <1>9, RuntimeAssumption DEF RestartAgain, Goto, Publish, SetStatus, AttemptInv, Numbers,
       Starters, Tasks, TaskTypes, PartTypes
  <2>7. DownInv'
    BY <1>9 DEF RestartAgain, Goto, Publish, SetStatus, DownInv, Swept, StarterInv, Busy, Ended,
       Alive, Teardowns, Starters, Tasks, TaskTypes, PartTypes, FlagTypes
  <2> QED BY <2>1, <2>2, <2>3, <2>4, <2>5, <2>6, <2>7 DEF RuntimeInv
<1> QED BY <1>1, <1>2, <1>3, <1>4, <1>5, <1>6, <1>7, <1>8, <1>9

\* The stop and the fence.
LEMMA StopKeeps ==
  ASSUME RuntimeInv
  PROVE  /\ \A k \in Tasks : WriteFails(k) => RuntimeInv'
         /\ \A w \in {"degraded", "stopping"} : BackgroundWrite(w) => RuntimeInv'
         /\ Stop => RuntimeInv'
         /\ StopFenced => RuntimeInv'
         /\ StopTorn => RuntimeInv'
         /\ Closed => RuntimeInv'
         /\ FenceTorn => RuntimeInv'
<1> USE DEF RuntimeInv
<1>1. ASSUME NEW k \in Tasks, WriteFails(k) PROVE RuntimeInv'
  <2>1. writes # <<>> /\ writes' = Tail(writes) /\ UNCHANGED <<status, restarting, parts, gen, candidate, flags, used, child, record>>
    BY <1>1 DEF WriteFails, Lands, Landed
  <2>2. k # "fence"
    BY <1>1 DEF WriteFails, TaskTypes, Teardowns
  <2>3. \E next \in {"failed", "settled", "done"} :
          /\ CloseFence(k, next)
          /\ k \in Starters => next \in {"failed", "settled"} /\ Busy(k) /\ pc[k] \notin Teardowns
          /\ k = "stop" => next = "done" /\ pc[k] = "closing"
    BY <1>1 DEF WriteFails, TaskTypes, Teardowns, StarterLabels, Busy, Starters
  <2>4. PICK next \in {"failed", "settled", "done"} :
          /\ CloseFence(k, next)
          /\ k \in Starters => next \in {"failed", "settled"} /\ Busy(k) /\ pc[k] \notin Teardowns
          /\ k = "stop" => next = "done" /\ pc[k] = "closing"
    BY <2>3
  <2>5. FencedBy(k, next)
    BY <2>1, <2>2, <2>4, FenceFacts
  <2>6. TaskTypes' /\ PartTypes' /\ StarterInv' /\ KnownInv' /\ AttemptInv' /\ DownInv'
    BY <2>1, <2>2, <2>4, <2>5, FencedKeeps
  <2>7. FlagTypes'
    <3>1. writes' \in Seq(Writers)
      BY <2>1, WritesStay DEF FlagTypes
    <3> QED BY <2>1, <2>5, <3>1 DEF FlagTypes, FencedBy
  <2> QED BY <2>6, <2>7 DEF RuntimeInv
<1>2. ASSUME NEW w \in {"degraded", "stopping"}, BackgroundWrite(w) PROVE RuntimeInv'
  <2>1. writes # <<>> /\ writes' = Tail(writes) /\ UNCHANGED <<status, restarting, parts, gen, candidate, flags, used, child, record>>
    BY <1>2 DEF BackgroundWrite, Lands, Landed
  <2>2. writes' \in Seq(Writers)
    BY <2>1, WritesStay DEF FlagTypes
  <2>3. CASE CloseFence("nobody", "idle")
    <3>1. FencedBy("nobody", "idle")
      BY <2>1, <2>3, FenceFacts
    <3>2. TaskTypes' /\ PartTypes' /\ StarterInv' /\ KnownInv' /\ AttemptInv' /\ DownInv'
      BY <2>1, <3>1, FencedKeeps DEF Tasks, Starters
    <3>3. FlagTypes'
      BY <2>1, <2>2, <3>1 DEF FlagTypes, FencedBy
    <3> QED BY <3>2, <3>3 DEF RuntimeInv
  <2>4. CASE UNCHANGED <<stopping, generation, timer, fenced, reap, open, mine, pc>>
    <3>1. TaskTypes' /\ FlagTypes' /\ PartTypes'
      BY <2>1, <2>2, <2>4 DEF TaskTypes, FlagTypes, PartTypes
    <3>2. StarterInv' /\ KnownInv'
      BY <2>1, <2>4 DEF StarterInv, KnownInv, Ended, Busy
    <3>3. AttemptInv' /\ DownInv'
      BY <2>1, <2>4 DEF AttemptInv, DownInv, Ended, Swept
    <3> QED BY <3>1, <3>2, <3>3 DEF RuntimeInv
  <2> QED BY <1>2, <2>3, <2>4 DEF BackgroundWrite
<1>3. ASSUME Stop PROVE RuntimeInv'
  <2>1. TakenDown("stop")
    BY <1>3, TeardownFacts DEF Stop, Tasks, Starters
  <2>2. TaskTypes'
    BY <1>3, RuntimeAssumption, <2>1 DEF Stop, Publish, SetStatus, TakenDown, TaskTypes, PartTypes,
       Session, StarterLabels, Teardowns, Tasks, Starters
  <2>3. FlagTypes'
    <3>1. writes' \in Seq(Writers)
      BY <1>3, <2>1, WritesStay DEF Stop, Publish, SetStatus, TakenDown, FlagTypes, Writers, Tasks,
         Starters
    <3> QED BY <1>3, <2>1, <3>1 DEF Stop, Publish, SetStatus, TakenDown, FlagTypes
  <2>4. PartTypes'
    BY <1>3, RuntimeAssumption, <2>1 DEF Stop, Publish, SetStatus, TakenDown, PartTypes, TaskTypes,
       Reaps, Session, Starters, Tasks, Numbers
  <2>5. StarterInv'
    BY <1>3, <2>1 DEF Stop, Publish, SetStatus, TakenDown, StarterInv, Alive, Busy, Teardowns,
       Starters, Tasks, StarterLabels, TaskTypes, FlagTypes
  <2>6. KnownInv'
    BY <1>3, <2>1 DEF Stop, Publish, SetStatus, TakenDown, KnownInv, StarterInv, Busy, Ended, Alive,
       Teardowns, Starters, Tasks, DownInv, TaskTypes, PartTypes, FlagTypes
  <2>7. AttemptInv'
    BY <1>3, <2>1, TakenDownKeeps DEF Stop, Tasks, Starters
  <2>8. DownInv'
    BY <1>3, <2>1 DEF Stop, Publish, SetStatus, TakenDown, DownInv, Swept, StarterInv, Busy, Ended,
       Alive, Teardowns, Starters, Tasks, TaskTypes, PartTypes, FlagTypes
  <2> QED BY <2>2, <2>3, <2>4, <2>5, <2>6, <2>7, <2>8 DEF RuntimeInv
<1>4. ASSUME StopFenced PROVE RuntimeInv'
  <2>1. pc["stop"] = "idle" /\ fenced /\ UNCHANGED <<stopping, restarting, generation, timer, fenced, parts, gen,
          candidate, cleared, wasStopping, writes, used, child, record>> /\ status' \in {status, "stopped"} /\ joined' \in {joined, TRUE}
    BY <1>4 DEF StopFenced
  <2>2. \/ pc["fence"] = "over" /\ pc' = [pc EXCEPT !["stop"] = "done"] /\ UNCHANGED <<reap, open, mine>>
        \/ TakenDown("stop")
    <3>1. Teardown({"stop"}) => TakenDown("stop")
      BY TeardownFacts DEF Tasks
    <3> QED BY <1>4, <3>1 DEF StopFenced, Goto
  <2>3. TaskTypes'
    BY RuntimeAssumption, <2>1, <2>2 DEF TakenDown, TaskTypes, PartTypes, Session, StarterLabels,
       Teardowns, Tasks, Starters
  <2>4. FlagTypes'
    BY <2>1, <2>2 DEF TakenDown, FlagTypes
  <2>5. PartTypes'
    BY RuntimeAssumption, <2>1, <2>2 DEF TakenDown, PartTypes, TaskTypes, Reaps, Session, Starters,
       Tasks, Numbers
  <2>6. StarterInv'
    BY <2>1, <2>2 DEF TakenDown, StarterInv, Alive, Busy, Teardowns, Starters, Tasks, StarterLabels,
       TaskTypes, FlagTypes
  <2>7. KnownInv'
    BY <2>1, <2>2 DEF TakenDown, KnownInv, StarterInv, Busy, Ended, Alive, Teardowns, Starters,
       Tasks, DownInv, TaskTypes, PartTypes, FlagTypes
  <2>8. AttemptInv'
    <3>1. CASE TakenDown("stop")
      BY <2>1, <3>1, TakenDownKeeps DEF Tasks
    <3>2. CASE pc' = [pc EXCEPT !["stop"] = "done"] /\ UNCHANGED <<reap, open, mine>>
      BY <2>1, <3>2 DEF AttemptInv, TaskTypes, Tasks, Starters
    <3> QED BY <2>2, <3>1, <3>2
  <2>9. DownInv'
    BY <2>1, <2>2 DEF TakenDown, DownInv, Swept, StarterInv, Busy, Ended, Alive, Teardowns,
       Starters, Tasks, TaskTypes, PartTypes, FlagTypes
  <2> QED BY <2>3, <2>4, <2>5, <2>6, <2>7, <2>8, <2>9 DEF RuntimeInv
<1>5. ASSUME StopTorn PROVE RuntimeInv'
  <2>1. TaskTypes'
    BY <1>5, RuntimeAssumption DEF StopTorn, Clear, ClearedBy, Goto, Over, Publish, TaskTypes,
       PartTypes, Session, StarterLabels, Teardowns, Tasks, Starters
  <2>2. FlagTypes'
    <3>1. writes' \in Seq(Writers)
      BY <1>5, WritesStay DEF StopTorn, Clear, ClearedBy, Goto, Over, Publish, FlagTypes, Writers,
         Tasks, Starters
    <3> QED
      BY <1>5, <3>1 DEF StopTorn, Clear, ClearedBy, Goto, Over, Publish, FlagTypes
  <2>3. PartTypes'
    BY <1>5, RuntimeAssumption DEF StopTorn, Clear, ClearedBy, Goto, Over, Publish, PartTypes,
       TaskTypes, Reaps, Session, Starters, Tasks, Numbers
  <2>4. StarterInv'
    BY <1>5 DEF StopTorn, Clear, ClearedBy, Goto, Over, Publish, StarterInv, Alive, Busy, Teardowns,
       Starters, Tasks, StarterLabels, TaskTypes, FlagTypes
  <2>5. KnownInv'
    BY <1>5 DEF StopTorn, Clear, ClearedBy, Goto, Over, Publish, KnownInv, StarterInv, Busy, Ended,
       Alive, Teardowns, Starters, Tasks, DownInv, TaskTypes, PartTypes, FlagTypes
  <2>6. AttemptInv'
    BY <1>5, RuntimeAssumption DEF StopTorn, Clear, ClearedBy, Goto, Over, Publish, AttemptInv,
       Numbers, Starters, Tasks, TaskTypes, PartTypes
  <2>7. DownInv'
    <3>1. process' \in {0, process} /\ client' \in {0, client}
      BY <1>5, ClearFacts DEF StopTorn, Tasks
    <3>2. pc'["stop"] \in {"closing", "done"} => process' = 0
      <4>1. pc'["stop"] \in {"closing", "done"} => pc["stop"] = "torn"
        BY <1>5 DEF StopTorn, Goto, TaskTypes, Tasks
      <4>2. pc["stop"] = "torn" => process' = 0
        BY <1>5, ClearFacts DEF StopTorn, DownInv, Teardowns, Tasks
      <4> QED BY <4>1, <4>2
    <3>3. /\ pc["stop"] \in {"torn", "kept"} /\ pc'["stop"] \in {"closing", "done", "idle"}
          /\ \A j \in Tasks : j # "stop" => pc'[j] = pc[j]
          /\ UNCHANGED <<fenced, stopping, timer, mine, flags, world>>
      BY <1>5 DEF StopTorn, Over, Goto, TaskTypes, Tasks
    <3>4. Ended' <=> Ended
      BY <3>3 DEF Ended, Tasks, Starters
    <3>5. Swept => Swept'
      BY <3>1, <3>3, RuntimeAssumption DEF Swept, PartTypes, Numbers, Tasks, Starters
    <3> QED BY <3>1, <3>2, <3>3, <3>4, <3>5 DEF DownInv, Tasks, Teardowns
  <2> QED BY <2>1, <2>2, <2>3, <2>4, <2>5, <2>6, <2>7 DEF RuntimeInv
<1>6. ASSUME Closed PROVE RuntimeInv'
  <2>1. TaskTypes'
    BY <1>6, RuntimeAssumption DEF Closed, Goto, Landed, Lands, SetStatus, TaskTypes, PartTypes,
       Session, StarterLabels, Teardowns, Tasks, Starters
  <2>2. FlagTypes'
    <3>1. writes' \in Seq(Writers)
      BY <1>6, WritesStay DEF Closed, Goto, Landed, Lands, SetStatus, FlagTypes, Writers, Tasks,
         Starters
    <3> QED
      BY <1>6, <3>1 DEF Closed, Goto, Landed, Lands, SetStatus, FlagTypes
  <2>3. PartTypes'
    BY <1>6, RuntimeAssumption DEF Closed, Goto, Landed, Lands, SetStatus, PartTypes, TaskTypes,
       Reaps, Session, Starters, Tasks, Numbers
  <2>4. StarterInv'
    BY <1>6 DEF Closed, Goto, Landed, Lands, SetStatus, StarterInv, Alive, Busy, Teardowns,
       Starters, Tasks, StarterLabels, TaskTypes, FlagTypes
  <2>5. KnownInv'
    BY <1>6 DEF Closed, Goto, Landed, Lands, SetStatus, KnownInv, StarterInv, Busy, Ended, Alive,
       Teardowns, Starters, Tasks, DownInv, TaskTypes, PartTypes, FlagTypes
  <2>6. AttemptInv'
    BY <1>6, RuntimeAssumption DEF Closed, Goto, Landed, Lands, SetStatus, AttemptInv, Numbers,
       Starters, Tasks, TaskTypes, PartTypes
  <2>7. DownInv'
    BY <1>6 DEF Closed, Goto, Landed, Lands, SetStatus, DownInv, Swept, StarterInv, Busy, Ended,
       Alive, Teardowns, Starters, Tasks, TaskTypes, PartTypes, FlagTypes
  <2> QED BY <2>1, <2>2, <2>3, <2>4, <2>5, <2>6, <2>7 DEF RuntimeInv
<1>7. ASSUME FenceTorn PROVE RuntimeInv'
  <2>1. TaskTypes'
    BY <1>7, RuntimeAssumption DEF FenceTorn, Clear, ClearedBy, Goto, Over, TaskTypes, PartTypes,
       Session, StarterLabels, Teardowns, Tasks, Starters
  <2>2. FlagTypes'
    BY <1>7 DEF FenceTorn, Clear, ClearedBy, Goto, Over, FlagTypes
  <2>3. PartTypes'
    BY <1>7, RuntimeAssumption DEF FenceTorn, Clear, ClearedBy, Goto, Over, PartTypes, TaskTypes,
       Reaps, Session, Starters, Tasks, Numbers
  <2>4. StarterInv'
    BY <1>7 DEF FenceTorn, Clear, ClearedBy, Goto, Over, StarterInv, Alive, Busy, Teardowns,
       Starters, Tasks, StarterLabels, TaskTypes, FlagTypes
  <2>5. KnownInv'
    BY <1>7 DEF FenceTorn, Clear, ClearedBy, Goto, Over, KnownInv, StarterInv, Busy, Ended, Alive,
       Teardowns, Starters, Tasks, DownInv, TaskTypes, PartTypes, FlagTypes
  <2>6. AttemptInv'
    BY <1>7, RuntimeAssumption DEF FenceTorn, Clear, ClearedBy, Goto, Over, AttemptInv, Numbers,
       Starters, Tasks, TaskTypes, PartTypes
  <2>7. DownInv'
    BY <1>7 DEF FenceTorn, Clear, ClearedBy, Goto, Over, DownInv, Swept, StarterInv, Busy, Ended,
       Alive, Teardowns, Starters, Tasks, TaskTypes, PartTypes, FlagTypes
  <2> QED BY <2>1, <2>2, <2>3, <2>4, <2>5, <2>6, <2>7 DEF RuntimeInv
<1> QED BY <1>1, <1>2, <1>3, <1>4, <1>5, <1>6, <1>7

\* The child and its socket.
LEMMA WorldKeeps ==
  ASSUME RuntimeInv
  PROVE  /\ \A p \in Numbers : KillEnds(p) => RuntimeInv'
         /\ \A p \in Numbers : ChildExits(p) => RuntimeInv'
         /\ \A p \in Numbers : SocketLost(p) => RuntimeInv'
<1> USE DEF RuntimeInv
<1>1. ASSUME NEW p \in Numbers, KillEnds(p) PROVE RuntimeInv'
  <2>1. TaskTypes'
    BY <1>1, RuntimeAssumption DEF KillEnds, own, TaskTypes, PartTypes, Session, StarterLabels,
       Teardowns, Tasks, Starters
  <2>2. FlagTypes'
    BY <1>1 DEF KillEnds, own, FlagTypes
  <2>3. PartTypes'
    BY <1>1, RuntimeAssumption DEF KillEnds, own, PartTypes, TaskTypes, Reaps, Session, Starters,
       Tasks, Numbers
  <2>4. StarterInv'
    BY <1>1 DEF KillEnds, own, StarterInv, Alive, Busy, Teardowns, Starters, Tasks, StarterLabels,
       TaskTypes, FlagTypes
  <2>5. KnownInv'
    BY <1>1 DEF KillEnds, own, KnownInv, StarterInv, Busy, Ended, Alive, Teardowns, Starters, Tasks,
       DownInv, TaskTypes, PartTypes, FlagTypes
  <2>6. AttemptInv'
    <3>1. PICK gone \in BOOLEAN :
            /\ gone \/ child[p] = "alive"
            /\ child' = [child EXCEPT ![p] = IF gone THEN "dead" ELSE child[p]]
            /\ reap' = [reap EXCEPT ![p] = IF gone THEN "done" ELSE "failed"]
            /\ pc' = [k \in Tasks |-> IF pc[k] = "tearing" /\ mine[k] = p
                                      THEN IF gone THEN "torn" ELSE "kept" ELSE pc[k]]
      BY <1>1 DEF KillEnds
    <3>2. reap[p] = "running" /\ UNCHANGED <<process, mine, used>>
      BY <1>1 DEF KillEnds
    <3>3. /\ \A q \in Numbers : q # p => child'[q] = child[q] /\ reap'[q] = reap[q]
          /\ reap'[p] = "done" => gone /\ child'[p] = "dead"
          /\ child'[p] \in {"dead", child[p]}
      BY <3>1 DEF PartTypes
    <3>4. \A k \in Tasks : pc'[k] = pc[k] \/ pc'[k] \in {"torn", "kept"}
      BY <3>1
    <3>5. ASSUME NEW k \in Tasks, pc'[k] = "torn", mine[k] # 0 PROVE reap'[mine[k]] = "done"
      <4>1. mine[k] \in Numbers
        BY <3>5, RuntimeAssumption DEF TaskTypes, Numbers
      <4>2. CASE pc[k] = "torn"
        BY <3>2, <3>3, <3>5, <4>1, <4>2 DEF AttemptInv
      <4>3. CASE pc[k] # "torn"
        <5>1. mine[k] = p /\ gone
          BY <3>1, <3>5, <4>3
        <5> QED BY <3>1, <5>1 DEF PartTypes
      <4> QED BY <4>2, <4>3
    <3>6. \A q \in Numbers : q > used => child'[q] = "unborn" /\ reap'[q] = "no"
      <4>1. p <= used
        BY <3>2 DEF AttemptInv, Numbers, PartTypes
      <4> QED BY <3>3, <4>1 DEF AttemptInv, Numbers, PartTypes
    <3>7. \A q \in Numbers : q <= used => q = process \/ reap'[q] = "done"
      BY <3>2, <3>3 DEF AttemptInv
    <3>8. \A k \in Starters :
            pc'[k] \in {"preparing", "binding", "aborting", "talking", "losing", "naming", "readying"} => mine'[k] # 0
      BY <3>2, <3>4 DEF AttemptInv, Tasks
    <3>9. \A q \in Numbers : reap'[q] = "done" => child'[q] # "alive"
      BY <3>3 DEF AttemptInv
    <3> QED BY <3>2, <3>5, <3>6, <3>7, <3>8, <3>9 DEF AttemptInv
  <2>7. DownInv'
    BY <1>1 DEF KillEnds, own, DownInv, Swept, StarterInv, Busy, Ended, Alive, Teardowns, Starters,
       Tasks, TaskTypes, PartTypes, FlagTypes
  <2> QED BY <2>1, <2>2, <2>3, <2>4, <2>5, <2>6, <2>7 DEF RuntimeInv
<1>2. ASSUME NEW p \in Numbers, ChildExits(p) PROVE RuntimeInv'
  <2>1. TaskTypes'
    BY <1>2, RuntimeAssumption DEF ChildExits, Publish, ScheduleRestart, SetStatus, TaskTypes,
       PartTypes, Session, StarterLabels, Teardowns, Tasks, Starters
  <2>2. FlagTypes'
    <3>1. writes' \in Seq(Writers)
      BY <1>2, WritesStay DEF ChildExits, Publish, ScheduleRestart, SetStatus, FlagTypes, Writers,
         Tasks, Starters
    <3> QED
      BY <1>2, <3>1 DEF ChildExits, Publish, ScheduleRestart, SetStatus, FlagTypes
  <2>3. PartTypes'
    BY <1>2, RuntimeAssumption DEF ChildExits, Publish, ScheduleRestart, SetStatus, PartTypes,
       TaskTypes, Reaps, Session, Starters, Tasks, Numbers
  <2>4. StarterInv'
    BY <1>2 DEF ChildExits, Publish, ScheduleRestart, SetStatus, StarterInv, Alive, Busy, Teardowns,
       Starters, Tasks, StarterLabels, TaskTypes, FlagTypes
  <2>5. KnownInv'
    BY <1>2 DEF ChildExits, Publish, ScheduleRestart, SetStatus, KnownInv, StarterInv, Busy, Ended,
       Alive, Teardowns, Starters, Tasks, DownInv, TaskTypes, PartTypes, FlagTypes
  <2>6. AttemptInv'
    BY <1>2, RuntimeAssumption DEF ChildExits, Publish, ScheduleRestart, SetStatus, AttemptInv,
       Numbers, Starters, Tasks, TaskTypes, PartTypes
  <2>7. DownInv'
    <3>1. /\ timer' => timer \/ (reap[p] = "no" /\ process = p /\ ~stopping)
          /\ UNCHANGED <<stopping, fenced, process, client, open, reap, pc, mine, flags>>
      BY <1>2 DEF ChildExits, ScheduleRestart
    <3>2. Ended' <=> Ended
      BY <3>1 DEF Ended
    <3>3. Swept => Swept'
      BY <3>1, RuntimeAssumption DEF Swept, Numbers
    <3> QED BY <3>1, <3>2, <3>3 DEF DownInv
  <2> QED BY <2>1, <2>2, <2>3, <2>4, <2>5, <2>6, <2>7 DEF RuntimeInv
<1>3. ASSUME NEW p \in Numbers, SocketLost(p) PROVE RuntimeInv'
  <2>1. TaskTypes'
    BY <1>3, RuntimeAssumption DEF SocketLost, Publish, ScheduleRestart, SetStatus, TaskTypes,
       PartTypes, Session, StarterLabels, Teardowns, Tasks, Starters
  <2>2. FlagTypes'
    <3>1. writes' \in Seq(Writers)
      BY <1>3, WritesStay DEF SocketLost, Publish, ScheduleRestart, SetStatus, FlagTypes, Writers,
         Tasks, Starters
    <3> QED
      BY <1>3, <3>1 DEF SocketLost, Publish, ScheduleRestart, SetStatus, FlagTypes
  <2>3. PartTypes'
    BY <1>3, RuntimeAssumption DEF SocketLost, Publish, ScheduleRestart, SetStatus, PartTypes,
       TaskTypes, Reaps, Session, Starters, Tasks, Numbers
  <2>4. StarterInv'
    BY <1>3 DEF SocketLost, Publish, ScheduleRestart, SetStatus, StarterInv, Alive, Busy, Teardowns,
       Starters, Tasks, StarterLabels, TaskTypes, FlagTypes
  <2>5. KnownInv'
    BY <1>3 DEF SocketLost, Publish, ScheduleRestart, SetStatus, KnownInv, StarterInv, Busy, Ended,
       Alive, Teardowns, Starters, Tasks, DownInv, TaskTypes, PartTypes, FlagTypes
  <2>6. AttemptInv'
    BY <1>3, RuntimeAssumption DEF SocketLost, Publish, ScheduleRestart, SetStatus, AttemptInv,
       Numbers, Starters, Tasks, TaskTypes, PartTypes
  <2>7. DownInv'
    BY <1>3 DEF SocketLost, Publish, ScheduleRestart, SetStatus, DownInv, Swept, StarterInv, Busy,
       Ended, Alive, Teardowns, Starters, Tasks, TaskTypes, PartTypes, FlagTypes
  <2> QED BY <2>1, <2>2, <2>3, <2>4, <2>5, <2>6, <2>7 DEF RuntimeInv
<1> QED BY <1>1, <1>2, <1>3

LEMMA RuntimeKeeps == RuntimeInv /\ [Next]_vars => RuntimeInv'
<1> SUFFICES ASSUME RuntimeInv, [Next]_vars PROVE RuntimeInv'
  OBVIOUS
<1>1. CASE UNCHANGED vars
  <2>1. TaskTypes' /\ FlagTypes' /\ PartTypes'
    BY <1>1 DEF vars, own, tasks, RuntimeInv, TaskTypes, FlagTypes, PartTypes
  <2>2. StarterInv' /\ KnownInv' /\ AttemptInv' /\ DownInv'
    BY <1>1 DEF vars, own, tasks, RuntimeInv, StarterInv, KnownInv, AttemptInv, DownInv, Ended,
       Swept, Busy
  <2> QED BY <2>1, <2>2 DEF RuntimeInv
<1>2. ASSUME NEW k \in Starters, Starting(k) PROVE RuntimeInv'
  BY <1>2, StarterKeeps DEF Starting
<1> QED BY <1>1, <1>2, BeginningsKeep, StopKeeps, WorldKeeps DEF Next

\* Every child is accounted for: it is the process at hand.
LEMMA RuntimeAccounts == RuntimeInv => ChildIsAccounted
<1> SUFFICES ASSUME RuntimeInv PROVE ChildIsAccounted
  OBVIOUS
<1> USE DEF RuntimeInv
<1>1. ASSUME NEW p \in Numbers, child[p] = "alive" PROVE p = process
  BY <1>1 DEF AttemptInv, PartTypes, Numbers
<1>2. StopProvesNoChild
  BY <1>1 DEF StopProvesNoChild, DownInv, Numbers
<1>3. OneChildAtATime
  <2> DEFINE here == {p \in Numbers : child[p] = "alive"}
  <2>1. here \subseteq {process}
    BY <1>1
  <2>2. IsFiniteSet({process}) /\ Cardinality({process}) = 1
    BY FS_Singleton
  <2>3. IsFiniteSet(here) /\ Cardinality(here) <= Cardinality({process})
    BY <2>1, <2>2, FS_Subset
  <2> QED BY <2>2, <2>3 DEF OneChildAtATime
<1> QED BY <1>2, <1>3 DEF ChildIsAccounted

\* Core is told of the loss before its session is replaced.
LEMMA LossToldByStep == RuntimeInv /\ [Next]_vars => [known # 0 /\ known' # known => lost]_vars
<1> SUFFICES ASSUME RuntimeInv, [Next]_vars, known # 0, known' # known PROVE lost
  BY DEF vars
<1>1. ~UNCHANGED vars
  BY DEF vars
<1>2. ASSUME NEW k \in Starters, Starting(k) PROVE lost
  <2>1. Named(k)
    BY <1>2 DEF Starting, Opened, Create, Launch, Bound, Aborted, Talked, LossTold, Readied, Settled
  <2> QED BY <2>1 DEF Named, RuntimeInv, KnownInv
<1>3. ASSUME NEW k \in Tasks, WriteFails(k) PROVE FALSE
  BY <1>3 DEF WriteFails
<1>4. ASSUME Start \/ TimerFires \/ StartFails \/ CleanUp \/ CleanedUp \/ RestartCleared \/ RestartFails PROVE FALSE
  BY <1>4 DEF Start, TimerFires, StartFails, CleanUp, CleanedUp, RestartCleared, RestartFails
<1>5. ASSUME RestartTorn \/ RestartAgain \/ Stop \/ StopFenced \/ StopTorn \/ Closed \/ FenceTorn PROVE FALSE
  BY <1>5 DEF RestartTorn, RestartAgain, Stop, StopFenced, StopTorn, Closed, FenceTorn
<1>6. ASSUME NEW w \in {"degraded", "stopping"}, BackgroundWrite(w) PROVE FALSE
  BY <1>6 DEF BackgroundWrite
<1>7. ASSUME NEW p \in Numbers, KillEnds(p) \/ ChildExits(p) \/ SocketLost(p) PROVE FALSE
  BY <1>7 DEF KillEnds, ChildExits, SocketLost
<1> QED BY <1>1, <1>2, <1>3, <1>4, <1>5, <1>6, <1>7 DEF Next

LEMMA RuntimeTyped == RuntimeInv => TypeOK
<1> SUFFICES ASSUME RuntimeInv PROVE TypeOK
  OBVIOUS
<1>1. /\ {stopping, restarting, timer, fenced, cleared, joined, wasStopping, lost} \subseteq BOOLEAN
      /\ writes \in Seq(Tasks \union {"degraded", "stopping"})
  BY DEF RuntimeInv, FlagTypes, Writers
<1>2. /\ {process, client, manager} \subseteq 0 .. Attempts
      /\ {thread, known, candidate.start, candidate.restart} \subseteq 0 .. (Resumes + Attempts)
  BY DEF RuntimeInv, PartTypes, TaskTypes, Starters
<1> QED BY <1>1, <1>2 DEF TypeOK, RuntimeInv, TaskTypes, FlagTypes, PartTypes, Reaps

LEMMA AlwaysRuntimeInv == RuntimesSpec => []RuntimeInv
<1> QED BY RuntimeStarts, RuntimeKeeps, PTL DEF RuntimesSpec, Spec

\* So Core hears that a session is lost before it is given another.
LEMMA AlwaysLossToldFirst == RuntimesSpec => LossToldFirst
<1> QED BY AlwaysRuntimeInv, LossToldByStep, PTL DEF RuntimesSpec, Spec, LossToldFirst

\* Either runtime is what Core takes a runtime to be: a submission that was asked for is refused, or
\* accepted and settled once, a stop that has resolved leaves none that could still be accepted and
\* none accepted that is not settled; and Core's session is replaced only after it heard that the one
\* before is lost.  For any number of submissions, turns, sessions and children, whatever the callers,
\* the children, the timers and the stops do meanwhile (dreamux-types/src/agent-runtime.ts,
\* codex/src/turn-manager.ts and runtime.ts, claude-code/src/runtime.ts and rpc.ts).
THEOREM RuntimesAlwaysKeepTheContract == RuntimesSpec => RuntimesKeepTheContract
<1> QED BY TurnsKeepContract, ClaudeKeepsContract, AlwaysLossToldFirst, PTL DEF RuntimesSpec, RuntimesKeepTheContract

HIDE DEF record, flags, parts, world
----------------------------------------
(* The cards of a TeamLeader                                               *)
Card ==
  [phase : {"unborn", "creating", "writing"}, ending : BOOLEAN, queued : BOOLEAN,
   closed : BOOLEAN, thinking : BOOLEAN, outbox : Seq(Nat), said : Nat, shown : Seq(Nat),
   end : {"none", "end", "error"}]
CardTask == [op : {"create", "flush"}, card : K!Numbers]
Recipient ==
  [there : BOOLEAN, anchor : Messages \cup {Nothing}, active : 0..Cards,
   holder : Messages \cup {Nothing}, calls : {"none", "here", "earlier"}, used : 0..Cards,
   tail : Seq(CardTask), cards : [K!Numbers -> Card]]
CardsWrite ==
  [card : 0..Cards, step : {"idle", "create", "slot", "append", "failing"}, batch : Seq(Nat),
   ends : BOOLEAN]

\* What a card has shown, what is being written of it and what waits is what it accepted.
Numbered(q, from) == \A i \in 1..Len(q) : q[i] = from + i
Tells(c, batch) ==
  /\ Len(c.outbox) <= Room
  /\ Numbered(c.shown, 0) /\ Numbered(batch, Len(c.shown))
  /\ Numbered(c.outbox, Len(c.shown) + Len(batch))
  /\ ~c.closed => c.said = Len(c.shown) + Len(batch) + Len(c.outbox)
  /\ c.closed => c.outbox = <<>>
  /\ c.end = "end" => Len(c.shown) = c.said
  /\ c.end # "none" => c.closed
  /\ c.phase = "unborn" => ~c.ending /\ ~c.closed
  /\ c.phase \in {"unborn", "creating"} => c.shown = <<>> /\ c.end = "none"

CardsInFlight(r, n) == IF r.card = n /\ r.step = "append" THEN r.batch ELSE <<>>

\* The write under way, of card n.
Writes(c, r, n) ==
  r.card = n =>
    /\ r.step = "create" => c.phase = "creating" /\ ~c.closed
    /\ r.step \in {"slot", "append"} => c.phase = "writing" /\ ~c.closed
    /\ r.step = "failing" => c.phase = "writing" /\ c.closed
    /\ r.step = "append" /\ r.ends => c.ending /\ c.outbox = <<>>

CardAt(s, r, n) ==
  /\ s.cards[n].phase = "unborn" <=> n > s.used
  /\ Tells(s.cards[n], CardsInFlight(r, n)) /\ Writes(s.cards[n], r, n)

TaskAt(s, r, i) ==
  LET n == s.tail[i].card IN
  /\ n <= s.used
  /\ s.tail[i].op = "flush" => s.cards[n].phase = "writing"
  /\ s.tail[i].op = "create" =>
       /\ s.cards[n].phase = "creating" /\ ~s.cards[n].closed
       /\ ~(r.card = n /\ r.step = "create")
       /\ \A j \in 1..Len(s.tail) : s.tail[j].op = "create" /\ s.tail[j].card = n => j = i

Sound(s, r) ==
  /\ s \in Recipient /\ r \in CardsWrite
  /\ r.card <= s.used /\ (r.step = "idle" <=> r.card = 0)
  /\ \A n \in K!Numbers : CardAt(s, r, n)
  /\ \A i \in 1..Len(s.tail) : TaskAt(s, r, i)

OpenAt(s) ==
  /\ s.active <= s.used
  /\ ~s.there => s.active = 0 /\ s.anchor = Nothing
  /\ \A n \in K!Numbers : s.cards[n].phase # "unborn" /\ ~K!Ending(s, n) => n = s.active

FenceInv ==
  /\ crdFence \in [leader : BOOLEAN, targets : SUBSET K!Targets]
  /\ crdFence.leader => crdSt.active = 0 /\ crdSt.anchor = Nothing
CardsInv ==
  /\ Sound(crdSt, crdRun) /\ OpenAt(crdSt) /\ FenceInv
  /\ crdClosing \in {"open", "draining", "aborted"} /\ crdBegun \subseteq Messages /\ crdPending \subseteq crdBegun

\* One event more.
LEMMA OneMore ==
  ASSUME NEW q \in Seq(Nat), NEW x \in Nat
  PROVE  LET p == q \o [i \in 1 .. 1 |-> x + i] IN
         /\ p \in Seq(Nat) /\ Len(p) = Len(q) + 1 /\ p[Len(q) + 1] = x + 1
         /\ \A i \in 1..Len(q) : p[i] = q[i]
<1> DEFINE o == [i \in 1 .. 1 |-> x + i]
           p == q \o o
<1>1. o \in Seq(Nat) /\ Len(o) = 1 /\ o[1] = x + 1
  <2>1. \A i \in 1..1 : x + i \in Nat
    OBVIOUS
  <2>2. o \in [1..1 -> Nat]
    BY <2>1
  <2> QED BY <2>2
<1> HIDE DEF o
<1>2. /\ p \in Seq(Nat) /\ Len(p) = Len(q) + 1 /\ Len(q) \in Nat
      /\ \A i \in 1 .. Len(q) + 1 : p[i] = IF i <= Len(q) THEN q[i] ELSE o[i - Len(q)]
  <2>1. p \in Seq(Nat) /\ Len(p) = Len(q) + Len(o)
        /\ \A i \in 1 .. Len(q) + Len(o) : p[i] = IF i <= Len(q) THEN q[i] ELSE o[i - Len(q)]
    <3> HIDE DEF o
    <3> QED BY <1>1, ConcatProperties
  <2>2. Len(q) \in Nat
    BY LenProperties
  <2> HIDE DEF p
  <2> QED BY <1>1, <2>1, <2>2
<1>3. p[Len(q) + 1] = x + 1
  <2>1. Len(q) + 1 \in 1 .. Len(q) + 1 /\ ~(Len(q) + 1 <= Len(q)) /\ Len(q) + 1 - Len(q) = 1
    BY <1>2
  <2> HIDE DEF p
  <2> QED BY <1>1, <1>2, <2>1
<1>4. \A i \in 1..Len(q) : p[i] = q[i]
  <2> HIDE DEF p
  <2> QED BY <1>2
<1> QED BY <1>2, <1>3, <1>4 DEF o

\* t is s with card n changed to c.
Recarded(s, n, c, t) ==
  /\ t \in Recipient
  /\ \A m \in K!Numbers : t.cards[m] = IF m = n THEN c ELSE s.cards[m]
  /\ t.there = s.there /\ t.anchor = s.anchor /\ t.active = s.active /\ t.holder = s.holder
  /\ t.calls = s.calls /\ t.used = s.used /\ t.tail = s.tail

LEMMA Recard ==
  ASSUME NEW s \in Recipient, NEW n \in K!Numbers, NEW c \in Card, NEW t, t = [s EXCEPT !.cards[n] = c]
  PROVE  Recarded(s, n, c, t)
<1>1. s.cards \in [K!Numbers -> Card]
  BY DEF Recipient
<1>2. t = [s EXCEPT !.cards = [s.cards EXCEPT ![n] = c]]
  BY <1>1 DEF Recipient
<1>3. [s.cards EXCEPT ![n] = c] \in [K!Numbers -> Card]
  BY <1>1
<1>4. t.cards = [s.cards EXCEPT ![n] = c] /\ t \in Recipient
  BY <1>2, <1>3 DEF Recipient
<1>5. \A m \in K!Numbers : t.cards[m] = IF m = n THEN c ELSE s.cards[m]
  BY <1>1, <1>4
<1>6. /\ t.there = s.there /\ t.anchor = s.anchor /\ t.active = s.active /\ t.holder = s.holder
      /\ t.calls = s.calls /\ t.used = s.used /\ t.tail = s.tail
  BY <1>2 DEF Recipient
<1> QED BY <1>4, <1>5, <1>6 DEF Recarded

\* What is sound stays so while the cards, the queue and the count are the same.
LEMMA SoundSame ==
  ASSUME NEW s, NEW t, NEW r, Sound(s, r), t \in Recipient, t.cards = s.cards, t.used = s.used,
         t.tail = s.tail
  PROVE  Sound(t, r)
<1>1. /\ r \in CardsWrite /\ r.card <= t.used /\ (r.step = "idle" <=> r.card = 0)
  BY DEF Sound
<1>2. \A n \in K!Numbers : CardAt(t, r, n)
  BY DEF Sound, CardAt
<1>3. \A i \in 1..Len(t.tail) : TaskAt(t, r, i)
  BY DEF Sound, TaskAt
<1> QED BY <1>1, <1>2, <1>3 DEF Sound

\* And while one card changes in what it has accepted, and in nothing a task looks at.
LEMMA SoundCard ==
  ASSUME NEW s, NEW t, NEW r, Sound(s, r), t \in Recipient, NEW n \in K!Numbers,
         t.used = s.used, t.tail = s.tail,
         \A m \in K!Numbers : m # n => t.cards[m] = s.cards[m],
         t.cards[n].phase = s.cards[n].phase, t.cards[n].closed = s.cards[n].closed,
         Tells(t.cards[n], CardsInFlight(r, n)), Writes(t.cards[n], r, n)
  PROVE  Sound(t, r)
<1>1. /\ r \in CardsWrite /\ r.card <= t.used /\ (r.step = "idle" <=> r.card = 0)
  BY DEF Sound
<1>2. \A m \in K!Numbers : CardAt(t, r, m)
  <2> SUFFICES ASSUME NEW m \in K!Numbers
               PROVE  CardAt(t, r, m)
    OBVIOUS
  <2>1. CardAt(s, r, m)
    BY DEF Sound
  <2>2. CASE m = n
    BY <2>1, <2>2 DEF CardAt
  <2>3. CASE m # n
    BY <2>1, <2>3 DEF CardAt
  <2> QED BY <2>2, <2>3
<1>3. \A m \in K!Numbers : t.cards[m].phase = s.cards[m].phase /\ t.cards[m].closed = s.cards[m].closed
  OBVIOUS
<1>4. \A i \in 1..Len(t.tail) : t.tail[i].card \in K!Numbers
  <2>1. t.tail \in Seq(CardTask)
    BY DEF Recipient
  <2>2. \A i \in 1..Len(t.tail) : t.tail[i] \in CardTask
    BY <2>1, ElementOfSeq
  <2> QED BY <2>2 DEF CardTask
<1>5. \A i \in 1..Len(t.tail) : TaskAt(t, r, i)
  BY <1>3, <1>4 DEF Sound, TaskAt
<1> QED BY <1>1, <1>2, <1>5 DEF Sound

\* A task more, at a card that is not waiting to be created.
LEMMA SoundTask ==
  ASSUME NEW s, NEW t, NEW r, Sound(s, r), t \in Recipient, NEW n \in K!Numbers, n <= s.used,
         t.cards = s.cards, t.used = s.used, s.cards[n].phase = "writing",
         t.tail = Append(s.tail, [op |-> "flush", card |-> n])
  PROVE  Sound(t, r)
<1>1. /\ r \in CardsWrite /\ r.card <= t.used /\ (r.step = "idle" <=> r.card = 0)
  BY DEF Sound
<1>2. \A m \in K!Numbers : CardAt(t, r, m)
  BY DEF Sound, CardAt
<1>3. /\ s.tail \in Seq(CardTask) /\ Len(t.tail) = Len(s.tail) + 1 /\ Len(s.tail) \in Nat
      /\ t.tail[Len(s.tail) + 1] = [op |-> "flush", card |-> n]
      /\ \A i \in 1..Len(s.tail) : t.tail[i] = s.tail[i]
  BY DEF Sound, Recipient, CardTask
<1>4. \A i \in 1..Len(t.tail) : t.tail[i].op = "create" => i \in 1..Len(s.tail)
  BY <1>3
<1>5. ASSUME NEW i \in 1..Len(t.tail)
      PROVE  TaskAt(t, r, i)
  <2>1. CASE i \in 1..Len(s.tail)
    <3>1. TaskAt(s, r, i) /\ t.tail[i] = s.tail[i]
      BY <1>3, <2>1 DEF Sound
    <3> QED BY <1>3, <1>4, <3>1 DEF TaskAt
  <2>2. CASE i = Len(s.tail) + 1
    <3>1. t.tail[i].op = "flush" /\ t.tail[i].card = n
      BY <1>3, <2>2
    <3> QED BY <3>1 DEF TaskAt
  <2> QED BY <1>3, <2>1, <2>2
<1> QED BY <1>1, <1>2, <1>5 DEF Sound
----------------------------------------
\* What the operations make of a sound state.

\* The parts a flush or an event leave as they were.
Frame(s, t) ==
  /\ t \in Recipient
  /\ t.there = s.there /\ t.anchor = s.anchor /\ t.active = s.active /\ t.holder = s.holder
  /\ t.calls = s.calls /\ t.used = s.used
  /\ \A m \in K!Numbers :
       /\ t.cards[m].phase = s.cards[m].phase /\ t.cards[m].closed = s.cards[m].closed
       /\ t.cards[m].ending = s.cards[m].ending

LEMMA AdmitSound ==
  ASSUME K!CardsAssumption, NEW s, NEW r, Sound(s, r), NEW n \in K!Numbers, n <= s.used, ~K!Ending(s, n)
  PROVE  LET t == K!Admit(s, n, 1) IN
         /\ Sound(t, r) /\ Frame(s, t) /\ t.tail = s.tail
         /\ \A m \in K!Numbers : t.cards[m].thinking = s.cards[m].thinking
<1> DEFINE t == K!Admit(s, n, 1)
<1>1. s \in Recipient /\ CardAt(s, r, n) /\ s.cards[n] \in Card
  BY DEF Sound, Recipient
<1>2. CASE ~K!Fits(s, n, 1)
  <2>1. t = s
    BY <1>2 DEF K!Admit
  <2> QED BY <1>1, <2>1 DEF Frame
<1>3. CASE K!Fits(s, n, 1)
  <2> DEFINE o == s.cards[n].outbox
             x == s.cards[n].said
             p == o \o [i \in 1 .. 1 |-> x + i]
             c == [s.cards[n] EXCEPT !.outbox = p, !.said = x + 1]
  <2>1. o \in Seq(Nat) /\ x \in Nat
    BY <1>1 DEF Card
  <2>2. /\ p \in Seq(Nat) /\ Len(p) = Len(o) + 1 /\ p[Len(o) + 1] = x + 1
        /\ \A i \in 1..Len(o) : p[i] = o[i]
    BY <2>1, OneMore
  <2>3. t = [s EXCEPT !.cards[n] = c]
    BY <1>1, <1>3 DEF K!Admit, Recipient, Card
  <2>4. c \in Card
    <3>1. p \in Seq(Nat) /\ x + 1 \in Nat
      BY <2>1, <2>2
    <3> HIDE DEF p, x
    <3> QED BY <1>1, <3>1 DEF Card
  <2> HIDE DEF p
  <2>5. /\ c.outbox = p /\ c.said = x + 1 /\ c.shown = s.cards[n].shown /\ c.end = s.cards[n].end
        /\ c.phase = s.cards[n].phase /\ c.closed = s.cards[n].closed /\ c.ending = s.cards[n].ending
        /\ c.thinking = s.cards[n].thinking
    BY <1>1 DEF Card
  <2> HIDE DEF c
  <2>6. /\ t \in Recipient
        /\ \A m \in K!Numbers : t.cards[m] = IF m = n THEN c ELSE s.cards[m]
        /\ t.there = s.there /\ t.anchor = s.anchor /\ t.active = s.active /\ t.holder = s.holder
        /\ t.calls = s.calls /\ t.used = s.used /\ t.tail = s.tail
    BY <1>1, <2>3, <2>4, Recard DEF Recarded
  <2> HIDE DEF t
  <2>7. Frame(s, t)
    BY <2>5, <2>6 DEF Frame
  <2> DEFINE b == CardsInFlight(r, n)
  <2>8. /\ b \in Seq(Nat) /\ Len(b) \in Nat /\ Len(o) \in Nat /\ Len(s.cards[n].shown) \in Nat
        /\ ~s.cards[n].closed /\ ~s.cards[n].ending
    BY <1>1, <2>1 DEF CardsInFlight, Sound, CardsWrite, K!Ending, Card
  <2>9. Tells(c, b)
    <3> HIDE DEF b, o, x
    <3> DEFINE h == Len(s.cards[n].shown) + Len(b)
    <3>1. x = h + Len(o) /\ Numbered(o, h) /\ Tells(s.cards[n], b)
      BY <1>1, <2>8 DEF CardAt, Tells, b, o, x
    <3>a. h \in Nat /\ Len(o) \in Nat
      BY <2>8
    <3> HIDE DEF h
    <3>2. Numbered(p, h)
      <4> SUFFICES ASSUME NEW i \in 1..Len(p)
                   PROVE  p[i] = h + i
        BY DEF Numbered
      <4>1. CASE i \in 1..Len(o)
        BY <2>2, <3>1, <4>1 DEF Numbered
      <4>2. CASE i = Len(o) + 1
        BY <2>2, <3>a, <3>1, <4>2
      <4> QED BY <2>2, <3>a, <4>1, <4>2
    <3>3. Len(p) <= Room
      BY <1>3, <2>2 DEF K!Fits, o
    <3>4. c.said = Len(c.shown) + Len(b) + Len(c.outbox)
      <4>1. c.said = h + Len(o) + 1 /\ Len(c.outbox) = Len(o) + 1 /\ Len(c.shown) + Len(b) = h
        BY <2>2, <2>5, <3>1 DEF h
      <4>2. h + (Len(o) + 1) = h + Len(o) + 1
        BY <3>a
      <4>3. Len(c.shown) + Len(b) + Len(c.outbox) = h + (Len(o) + 1)
        BY <4>1
      <4> QED BY <4>1, <4>2, <4>3
    <3> QED BY <2>5, <2>8, <3>1, <3>2, <3>3, <3>4 DEF Tells, h
  <2>10. Writes(c, r, n)
    BY <1>1, <2>5, <2>8 DEF CardAt, Writes
  <2>11. Sound(t, r)
    BY <2>5, <2>6, <2>9, <2>10, SoundCard
  <2>12. \A m \in K!Numbers : t.cards[m].thinking = s.cards[m].thinking
    BY <2>5, <2>6
  <2> QED BY <2>6, <2>7, <2>11, <2>12 DEF t
<1> QED BY <1>2, <1>3

LEMMA ScheduleSound ==
  ASSUME NEW s, NEW r, Sound(s, r), NEW n \in K!Numbers, n <= s.used, s.cards[n].phase = "writing"
  PROVE  LET t == K!Schedule(s, n) IN Sound(t, r) /\ Frame(s, t)
<1> DEFINE t == K!Schedule(s, n)
<1>1. s \in Recipient /\ CardAt(s, r, n) /\ s.cards[n] \in Card
  BY DEF Sound, Recipient
<1>2. CASE s.cards[n].queued
  <2>1. t = s
    BY <1>2 DEF K!Schedule
  <2> QED BY <1>1, <2>1 DEF Frame
<1>3. CASE ~s.cards[n].queued
  <2> DEFINE c == [s.cards[n] EXCEPT !.queued = TRUE]
             k == [op |-> "flush", card |-> n]
             u == [s EXCEPT !.cards[n] = c]
  <2>1. /\ c \in Card /\ c.outbox = s.cards[n].outbox /\ c.said = s.cards[n].said
        /\ c.shown = s.cards[n].shown /\ c.end = s.cards[n].end
        /\ c.phase = s.cards[n].phase /\ c.closed = s.cards[n].closed /\ c.ending = s.cards[n].ending
    BY <1>1 DEF Card
  <2>2. t = [u EXCEPT !.tail = Append(s.tail, k)]
    BY <1>1, <1>3 DEF K!Schedule, Recipient, Card
  <2> HIDE DEF c
  <2>3. /\ u \in Recipient
        /\ \A m \in K!Numbers : u.cards[m] = IF m = n THEN c ELSE s.cards[m]
        /\ u.there = s.there /\ u.anchor = s.anchor /\ u.active = s.active /\ u.holder = s.holder
        /\ u.calls = s.calls /\ u.used = s.used /\ u.tail = s.tail
    BY <1>1, <2>1, Recard DEF Recarded
  <2> HIDE DEF u
  <2>4. Tells(c, CardsInFlight(r, n)) /\ Writes(c, r, n)
    BY <1>1, <2>1 DEF CardAt, Tells, Writes
  <2>5. Sound(u, r)
    BY <2>1, <2>3, <2>4, SoundCard
  <2>6. k \in CardTask
    BY DEF CardTask
  <2>7. Append(s.tail, k) \in Seq(CardTask)
    BY <1>1, <2>6, AppendProperties DEF Recipient
  <2>8. /\ t \in Recipient /\ t.cards = u.cards /\ t.tail = Append(u.tail, k)
        /\ t.there = s.there /\ t.anchor = s.anchor /\ t.active = s.active /\ t.holder = s.holder
        /\ t.calls = s.calls /\ t.used = s.used
    BY <2>2, <2>3, <2>7 DEF Recipient
  <2> HIDE DEF t
  <2>9. Sound(t, r)
    BY <2>1, <2>3, <2>5, <2>8, SoundTask
  <2>10. Frame(s, t)
    BY <2>1, <2>3, <2>8 DEF Frame
  <2> QED BY <2>9, <2>10 DEF t
<1> QED BY <1>2, <1>3
\* A card is marked: what it has accepted and shown is the same.
Marks(d, c) ==
  /\ c \in Card /\ c.outbox = d.outbox /\ c.said = d.said /\ c.shown = d.shown
  /\ c.end = d.end /\ c.phase = d.phase /\ c.closed = d.closed
  /\ d.ending = TRUE => c.ending = TRUE

LEMMA MarkSound ==
  ASSUME NEW s, NEW r, Sound(s, r), NEW n \in K!Numbers, NEW c, Marks(s.cards[n], c), n <= s.used,
         NEW t, Recarded(s, n, c, t)
  PROVE  Sound(t, r)
<1>1. s \in Recipient /\ CardAt(s, r, n)
  BY DEF Sound
<1>2. c.phase # "unborn"
  BY <1>1 DEF CardAt, K!Numbers, Recipient, Marks
<1>3. Tells(c, CardsInFlight(r, n))
  BY <1>1, <1>2 DEF CardAt, Tells, Marks
<1>4. Writes(c, r, n)
  BY <1>1 DEF CardAt, Writes, Marks
<1>5. c.phase = s.cards[n].phase /\ c.closed = s.cards[n].closed
  BY DEF Marks
<1>6. /\ t \in Recipient /\ t.used = s.used /\ t.tail = s.tail /\ t.cards[n] = c
      /\ \A m \in K!Numbers : m # n => t.cards[m] = s.cards[m]
  BY DEF Recarded
<1> QED BY <1>3, <1>4, <1>5, <1>6, SoundCard

\* Every card of t has ended or is about to.
AllEnding(t) == \A m \in K!Numbers : t.cards[m].phase # "unborn" => K!Ending(t, m)
Detached(s, t, r) ==
  /\ Sound(t, r) /\ AllEnding(t) /\ t.active = 0
  /\ t.there = s.there /\ t.anchor = s.anchor /\ t.holder = s.holder /\ t.calls = s.calls
  /\ t.used = s.used

LEMMA DetachSound ==
  ASSUME K!CardsAssumption, NEW s, NEW r, Sound(s, r), OpenAt(s)
  PROVE  Detached(s, K!Detach(s), r)
<1> DEFINE n == s.active
           off == [s EXCEPT !.active = 0]
           shut == IF s.cards[n].thinking
                   THEN [K!Admit(off, n, 1) EXCEPT !.cards[n].thinking = FALSE] ELSE off
           ending == [shut EXCEPT !.cards[n].ending = TRUE]
<1>1. s \in Recipient /\ n \in 0..Cards /\ s.used \in 0..Cards /\ n <= s.used
  BY DEF Sound, Recipient, OpenAt
<1>a. 0 \in 0..Cards
  BY DEF K!CardsAssumption
<1>2. CASE n = 0
  <2>1. K!Detach(s) = s
    BY <1>2 DEF K!Detach
  <2>2. AllEnding(s)
    BY <1>2 DEF AllEnding, OpenAt, K!Numbers
  <2> QED BY <1>2, <2>1, <2>2 DEF Detached
<1>3. ASSUME n # 0
      PROVE  Detached(s, K!Detach(s), r)
  <2>1. n \in K!Numbers
    BY <1>1, <1>3 DEF K!Numbers
  <2>2. /\ off \in Recipient /\ off.active = 0 /\ off.cards = s.cards /\ off.tail = s.tail
        /\ off.there = s.there /\ off.anchor = s.anchor /\ off.holder = s.holder /\ off.calls = s.calls
        /\ off.used = s.used
    BY <1>1, <1>a DEF Recipient
  <2>3. Sound(off, r)
    BY <2>2, SoundSame
  <2>4. CASE K!Ending(s, n)
    <3>1. K!Detach(s) = off
      BY <1>3, <2>4 DEF K!Detach
    <3>2. AllEnding(off)
      BY <2>2, <2>4 DEF AllEnding, OpenAt, K!Ending
    <3> HIDE DEF off
    <3> QED BY <2>2, <2>3, <3>1, <3>2 DEF Detached
  <2>5. CASE ~K!Ending(s, n)
    <3>1. K!Detach(s) = IF s.cards[n].phase = "writing" THEN K!Schedule(ending, n) ELSE ending
      BY <1>3, <2>5 DEF K!Detach
    <3>2. ~K!Ending(off, n)
      BY <2>2, <2>5 DEF K!Ending
    <3> DEFINE a == K!Admit(off, n, 1)
    <3>3. Sound(a, r) /\ Frame(off, a)
      <4> HIDE DEF off
      <4> QED BY <1>1, <2>1, <2>2, <2>3, <3>2, AdmitSound
    <3>4. /\ Sound(shut, r) /\ Frame(off, shut)
      <4>1. CASE ~s.cards[n].thinking
        <5> HIDE DEF off
        <5> QED BY <2>2, <2>3, <4>1 DEF Frame
      <4>2. CASE s.cards[n].thinking
        <5> DEFINE c == [a.cards[n] EXCEPT !.thinking = FALSE]
                   t == [a EXCEPT !.cards[n] = c]
        <5> HIDE DEF off, a
        <5>1. a \in Recipient /\ a.cards[n] \in Card /\ n <= a.used
          BY <1>1, <2>1, <2>2, <3>3 DEF Sound, Frame, Recipient
        <5>2. shut = t
          BY <2>1, <4>2, <5>1 DEF a, Recipient, Card
        <5>3. /\ c \in Card /\ c.outbox = a.cards[n].outbox /\ c.said = a.cards[n].said
              /\ c.shown = a.cards[n].shown /\ c.end = a.cards[n].end
              /\ c.phase = a.cards[n].phase /\ c.closed = a.cards[n].closed
              /\ c.ending = a.cards[n].ending
          BY <5>1 DEF Card
        <5>m. Marks(a.cards[n], c)
          BY <5>3 DEF Marks
        <5> HIDE DEF c, shut, t
        <5>r. Recarded(a, n, c, t)
          BY <2>1, <5>1, <5>3, Recard DEF t
        <5>4. Sound(t, r) /\ Recarded(a, n, c, t)
          BY <2>1, <3>3, <5>1, <5>m, <5>r, MarkSound
        <5>5. Frame(off, t)
          BY <3>3, <5>3, <5>4 DEF Frame, Recarded
        <5> QED BY <5>2, <5>4, <5>5 DEF t
      <4> QED BY <4>1, <4>2
    <3> HIDE DEF shut, a
    <3> DEFINE c == [shut.cards[n] EXCEPT !.ending = TRUE]
    <3>5. shut \in Recipient /\ shut.cards[n] \in Card /\ n <= shut.used
      BY <1>1, <2>1, <2>2, <3>4 DEF Frame, Recipient
    <3>6. ending = [shut EXCEPT !.cards[n] = c]
      BY <2>1, <3>5 DEF Recipient, Card
    <3>7. /\ c \in Card /\ c.outbox = shut.cards[n].outbox /\ c.said = shut.cards[n].said
          /\ c.shown = shut.cards[n].shown /\ c.end = shut.cards[n].end
          /\ c.phase = shut.cards[n].phase /\ c.closed = shut.cards[n].closed /\ c.ending = TRUE
      BY <3>5 DEF Card
    <3>m. Marks(shut.cards[n], c)
      BY <3>7 DEF Marks
    <3> HIDE DEF c, ending
    <3>r. Recarded(shut, n, c, ending)
      BY <2>1, <3>5, <3>6, <3>7, Recard
    <3>8a. Sound(ending, r) /\ Recarded(shut, n, c, ending)
      BY <2>1, <3>4, <3>5, <3>m, <3>r, MarkSound
    <3>8. /\ Sound(ending, r)
          /\ \A m \in K!Numbers : ending.cards[m] = IF m = n THEN c ELSE shut.cards[m]
          /\ ending.there = shut.there /\ ending.anchor = shut.anchor /\ ending.active = shut.active
          /\ ending.holder = shut.holder /\ ending.calls = shut.calls /\ ending.used = shut.used
          /\ ending.tail = shut.tail
      BY <3>8a DEF Recarded
    <3>9. Detached(s, ending, r)
      <4>1. AllEnding(ending)
        <5> SUFFICES ASSUME NEW m \in K!Numbers, ending.cards[m].phase # "unborn"
                     PROVE  K!Ending(ending, m)
          BY DEF AllEnding
        <5>1. CASE m = n
          BY <3>7, <3>8, <5>1 DEF K!Ending
        <5>2. CASE m # n
          <6>1. /\ ending.cards[m].phase = s.cards[m].phase
                /\ ending.cards[m].ending = s.cards[m].ending
                /\ ending.cards[m].closed = s.cards[m].closed
            BY <2>2, <3>4, <3>8, <5>2 DEF Frame
          <6> QED BY <5>2, <6>1 DEF OpenAt, K!Ending
        <5> QED BY <5>1, <5>2
      <4>2. /\ ending.active = 0 /\ ending.there = s.there /\ ending.anchor = s.anchor
            /\ ending.holder = s.holder /\ ending.calls = s.calls /\ ending.used = s.used
        BY <2>2, <3>4, <3>8 DEF Frame
      <4> QED BY <3>8, <4>1, <4>2 DEF Detached
    <3>10. CASE s.cards[n].phase = "writing"
      <4> DEFINE t == K!Schedule(ending, n)
      <4>1. ending.cards[n].phase = "writing" /\ n <= ending.used
        BY <2>1, <2>2, <3>4, <3>5, <3>7, <3>8, <3>10 DEF Frame
      <4>2. Sound(t, r) /\ Frame(ending, t)
        BY <2>1, <3>8, <4>1, ScheduleSound
      <4> HIDE DEF t
      <4>3. Detached(s, t, r)
        BY <3>9, <4>2 DEF Detached, Frame, AllEnding, K!Ending
      <4> QED BY <3>1, <3>10, <4>3 DEF t
    <3> QED BY <3>1, <3>9, <3>10
  <2> QED BY <2>4, <2>5
<1> QED BY <1>2, <1>3

\* What an operation leaves of the fields beside the cards.
Beside(s, t) ==
  /\ t.there = s.there /\ t.anchor = s.anchor /\ t.holder = s.holder /\ t.calls = s.calls

\* A recipient that is forgotten had nothing open.
LEMMA ReapSound ==
  ASSUME K!CardsAssumption, NEW s, NEW r, Sound(s, r), OpenAt(s), NEW b
  PROVE  LET t == K!Reap(s, b) IN
         /\ Sound(t, r) /\ OpenAt(t) /\ t.active = s.active /\ t.anchor = s.anchor
         /\ t.cards = s.cards /\ t.used = s.used /\ t.tail = s.tail
<1> DEFINE u == [s EXCEPT !.there = FALSE, !.holder = Nothing]
<1>1. s \in Recipient
  BY DEF Sound
<1>2. CASE K!Reap(s, b) = s
  BY <1>2
<1>3. ASSUME K!Reap(s, b) # s
      PROVE  K!Reap(s, b) = u /\ s.active = 0 /\ s.anchor = Nothing
  BY <1>3 DEF K!Reap
<1>4. /\ u \in Recipient /\ u.active = s.active /\ u.anchor = s.anchor /\ u.cards = s.cards
      /\ u.used = s.used /\ u.tail = s.tail
  BY <1>1 DEF Recipient
<1> HIDE DEF u
<1>5. Sound(u, r)
  BY <1>4, SoundSame
<1>6. ASSUME K!Reap(s, b) # s
      PROVE  OpenAt(u)
  BY <1>3, <1>4, <1>6 DEF OpenAt, K!Ending
<1> QED BY <1>2, <1>3, <1>4, <1>5, <1>6

\* The anchor moves: the card that stood there is to end, and none is open.
LEMMA AdvanceSound ==
  ASSUME K!CardsAssumption, NEW s, NEW r, Sound(s, r), OpenAt(s),
         NEW m \in Messages \cup {Nothing}, m # Nothing => s.there
  PROVE  LET t == K!AdvanceAnchor(s, m) IN
         /\ Sound(t, r) /\ OpenAt(t) /\ t.active = 0 /\ t.anchor = m /\ t.used = s.used
         /\ m # Nothing => t.there
<1> DEFINE d == K!Detach(s)
           k == IF m = Nothing \/ d.calls = "none" THEN "none" ELSE "earlier"
           u == [d EXCEPT !.anchor = m, !.holder = m, !.calls = k]
<1>1. Detached(s, d, r)
  BY DetachSound
<1>2. K!AdvanceAnchor(s, m) = K!Reap(u, K!Busy(u))
  BY DEF K!AdvanceAnchor
<1> HIDE DEF d
<1>3. d \in Recipient /\ k \in {"none", "here", "earlier"}
  BY <1>1 DEF Detached, Sound
<1> HIDE DEF k
<1>4. /\ u \in Recipient /\ u.active = 0 /\ u.anchor = m /\ u.there = s.there /\ u.cards = d.cards
      /\ u.used = d.used /\ u.tail = d.tail /\ d.used = s.used
  BY <1>1, <1>3 DEF Detached, Recipient
<1> HIDE DEF u
<1>5. Sound(u, r)
  BY <1>1, <1>4, SoundSame DEF Detached
<1>6. OpenAt(u)
  <2>1. u.active <= u.used
    BY <1>4, <1>5 DEF Sound, Recipient
  <2>2. ~u.there => u.active = 0 /\ u.anchor = Nothing
    BY <1>4
  <2>3. \A n \in K!Numbers : u.cards[n].phase # "unborn" => K!Ending(u, n)
    BY <1>1, <1>4 DEF Detached, AllEnding, K!Ending
  <2> QED BY <2>1, <2>2, <2>3 DEF OpenAt
<1> DEFINE t == K!Reap(u, K!Busy(u))
<1>7. /\ Sound(t, r) /\ OpenAt(t) /\ t.active = u.active /\ t.anchor = u.anchor
      /\ t.cards = u.cards /\ t.used = u.used /\ t.tail = u.tail
  BY <1>5, <1>6, ReapSound
<1>8. m # Nothing => t = u
  BY <1>4 DEF K!Reap
<1> HIDE DEF t
<1>9. /\ Sound(t, r) /\ OpenAt(t) /\ t.active = 0 /\ t.anchor = m /\ t.used = s.used
      /\ m # Nothing => t.there
  BY <1>4, <1>7, <1>8
<1> QED BY <1>2, <1>9 DEF t

\* What opens a card: its first two events.
LEMMA Firsts ==
  LET o == [i \in 1 .. (1 + 1) |-> i] IN
  o \in Seq(Nat) /\ Len(o) = 2 /\ \A i \in 1..2 : o[i] = i
<1> DEFINE o == [i \in 1 .. (1 + 1) |-> i]
<1>1. 1 + 1 = 2
  OBVIOUS
<1>2. \A i \in 1..2 : i \in Nat
  OBVIOUS
<1>3. o \in [1..2 -> Nat] /\ \A i \in 1..2 : o[i] = i
  BY <1>1, <1>2
<1> QED BY <1>3

\* A card opens.
LEMMA OpenedSound ==
  ASSUME K!CardsAssumption, NEW s, NEW r, Sound(s, r), OpenAt(s), s.active = 0, s.used < Cards,
         s.there
  PROVE  LET t == K!Opened(s, 1) IN
         /\ Sound(t, r) /\ OpenAt(t) /\ Beside(s, t) /\ t.active # 0
<1> DEFINE n == s.used + 1
           o == [i \in 1 .. (1 + 1) |-> i]
           c == [s.cards[n] EXCEPT !.phase = "creating", !.outbox = o, !.said = 2]
           k == [op |-> "create", card |-> n]
           u == [s EXCEPT !.cards[n] = c]
           t == K!Opened(s, 1)
<1>1. s \in Recipient /\ s.used \in Nat /\ Cards \in Nat
  BY DEF Sound, Recipient, K!CardsAssumption
<1>2. n \in K!Numbers /\ n \in 0..Cards /\ n \in Nat
  BY <1>1 DEF K!Numbers
<1>3. s.cards[n] \in Card /\ CardAt(s, r, n)
  BY <1>1, <1>2 DEF Sound, Recipient
<1>4. s.cards[n].phase = "unborn"
  BY <1>1, <1>3 DEF CardAt
<1>5. t = [u EXCEPT !.used = n, !.active = n, !.tail = Append(s.tail, k)]
  <2> DEFINE f == s.cards
             f1 == [f EXCEPT ![n].phase = "creating"]
             f2 == [f1 EXCEPT ![n].outbox = o]
             f3 == [f2 EXCEPT ![n].said = 1 + 1]
  <2>1. f \in [K!Numbers -> Card] /\ f[n] \in Card
    BY <1>1, <1>3 DEF Recipient
  <2>2. 1 + 1 = 2
    OBVIOUS
  <2>3. f3 = [f EXCEPT ![n] = c]
    <3> HIDE DEF o
    <3>1. f1 = [f EXCEPT ![n] = [f[n] EXCEPT !.phase = "creating"]]
      BY <2>1
    <3> QED BY <1>2, <2>1, <2>2, <3>1 DEF Card
  <2>4. t = [s EXCEPT !.used = n, !.active = n, !.cards = f3, !.tail = Append(s.tail, k)]
    <3> DEFINE a0 == [s EXCEPT !.used = n, !.active = n]
               a1 == [a0 EXCEPT !.cards[n].phase = "creating"]
               a2 == [a1 EXCEPT !.cards[n].outbox = o]
               a3 == [a2 EXCEPT !.cards[n].said = 1 + 1]
    <3>1. t = [a3 EXCEPT !.tail = Append(@, k)]
      BY DEF K!Opened, o
    <3>2. a0.cards = f /\ a0.tail = s.tail
      BY <1>1 DEF Recipient
    <3> HIDE DEF t, o, k, a0
    <3>3. a1.cards = f1 /\ a1.tail = s.tail /\ a1 = [s EXCEPT !.used = n, !.active = n, !.cards = f1]
      BY <1>1, <3>2 DEF Recipient, a0
    <3> HIDE DEF a1, f1
    <3>4. a2.cards = f2 /\ a2.tail = s.tail /\ a2 = [s EXCEPT !.used = n, !.active = n, !.cards = f2]
      BY <1>1, <3>3 DEF Recipient
    <3> HIDE DEF a2, f2
    <3>5. a3.cards = f3 /\ a3.tail = s.tail /\ a3 = [s EXCEPT !.used = n, !.active = n, !.cards = f3]
      BY <1>1, <3>4 DEF Recipient
    <3> HIDE DEF a3, f3
    <3> QED BY <1>1, <3>1, <3>5 DEF Recipient
  <2>5. u = [s EXCEPT !.cards = [f EXCEPT ![n] = c]]
    <3> HIDE DEF c
    <3> QED BY <1>1, <2>1 DEF Recipient
  <2> HIDE DEF t, u, f3, f
  <2> QED BY <1>1, <2>3, <2>4, <2>5 DEF Recipient
<1>6. o \in Seq(Nat) /\ Len(o) = 2 /\ \A i \in 1..2 : o[i] = i
  BY Firsts
<1> HIDE DEF o
<1>7. /\ c \in Card /\ c.phase = "creating" /\ c.outbox = o /\ c.said = 2
      /\ c.shown = s.cards[n].shown /\ c.end = s.cards[n].end
      /\ c.ending = s.cards[n].ending /\ c.closed = s.cards[n].closed
  BY <1>3, <1>6 DEF Card
<1> HIDE DEF c
<1>8. Recarded(s, n, c, u)
  BY <1>1, <1>2, <1>7, Recard
<1> HIDE DEF u
<1>9. k \in CardTask
  BY <1>2 DEF CardTask
<1>10. Append(s.tail, k) \in Seq(CardTask)
  BY <1>1, <1>9, AppendProperties DEF Recipient
<1>11. /\ t \in Recipient /\ t.cards = u.cards /\ t.tail = Append(s.tail, k) /\ t.active = n
       /\ t.used = n /\ t.there = s.there /\ t.anchor = s.anchor /\ t.holder = s.holder
       /\ t.calls = s.calls
  <2>1. /\ u \in Recipient /\ u.there = s.there /\ u.anchor = s.anchor /\ u.holder = s.holder
        /\ u.calls = s.calls
    BY <1>8 DEF Recarded
  <2> HIDE DEF t, k, n
  <2> QED BY <1>2, <1>5, <1>10, <2>1 DEF Recipient
<1>12. \A m \in K!Numbers : t.cards[m] = IF m = n THEN c ELSE s.cards[m]
  BY <1>8, <1>11 DEF Recarded
<1> HIDE DEF t
<1>13. r \in CardsWrite /\ r.card <= s.used /\ r.card \in Nat /\ (r.step = "idle" <=> r.card = 0)
  BY <1>1 DEF Sound, CardsWrite, K!CardsAssumption
<1>14. r.card <= t.used /\ r.card # n
  BY <1>1, <1>11, <1>13
<1>15. ASSUME NEW m \in K!Numbers
       PROVE  CardAt(t, r, m)
  <2>1. CASE m = n
    <3>1. c.phase = "unborn" <=> n > t.used
      BY <1>2, <1>7, <1>11
    <3>2. CardsInFlight(r, n) = <<>>
      BY <1>14 DEF CardsInFlight
    <3>3. s.cards[n].shown = <<>> /\ s.cards[n].end = "none" /\ ~s.cards[n].ending /\ ~s.cards[n].closed
      BY <1>3, <1>4 DEF CardAt, Tells
    <3>4. Tells(c, <<>>)
      <4>1. Len(<<>>) = 0 /\ c.shown = <<>> /\ Len(c.outbox) = 2 /\ Len(c.outbox) <= Room
        BY <1>6, <1>7, <3>3 DEF K!CardsAssumption
      <4>2. Numbered(c.shown, 0) /\ Numbered(<<>>, Len(c.shown))
        BY <4>1 DEF Numbered
      <4>3. Numbered(c.outbox, Len(c.shown) + Len(<<>>))
        <5>1. Len(c.shown) + Len(<<>>) = 0
          BY <4>1
        <5>2. \A i \in 1..2 : o[i] = 0 + i
          BY <1>6
        <5>3. Numbered(o, 0)
          BY <1>6, <5>2 DEF Numbered
        <5> QED BY <1>7, <5>1, <5>3
      <4>4. c.said = Len(c.shown) + Len(<<>>) + Len(c.outbox)
        BY <1>7, <4>1
      <4>5. ~c.closed /\ c.end = "none"
        BY <1>7, <3>3
      <4> QED BY <1>7, <4>1, <4>2, <4>3, <4>4, <4>5 DEF Tells
    <3>5. Writes(c, r, n)
      BY <1>14 DEF Writes
    <3> QED BY <1>12, <2>1, <3>1, <3>2, <3>4, <3>5 DEF CardAt
  <2>2. CASE m # n
    <3>1. CardAt(s, r, m) /\ m \in Nat
      BY DEF Sound, K!Numbers
    <3>2. m > t.used <=> m > s.used
      BY <1>1, <1>11, <2>2, <3>1
    <3> QED BY <1>12, <2>2, <3>1, <3>2 DEF CardAt
  <2> QED BY <2>1, <2>2
<1>16. /\ Len(s.tail) \in Nat /\ Len(t.tail) = Len(s.tail) + 1 /\ t.tail[Len(s.tail) + 1] = k
       /\ \A i \in 1..Len(s.tail) : t.tail[i] = s.tail[i] /\ s.tail[i] \in CardTask
  BY <1>1, <1>9, <1>11 DEF Recipient
<1>17. \A i \in 1..Len(s.tail) : /\ TaskAt(s, r, i) /\ s.tail[i].card # n
                                 /\ s.tail[i].card \in K!Numbers /\ s.tail[i].card \in Nat
  <2> SUFFICES ASSUME NEW i \in 1..Len(s.tail)
               PROVE  /\ TaskAt(s, r, i) /\ s.tail[i].card # n
                      /\ s.tail[i].card \in K!Numbers /\ s.tail[i].card \in Nat
    OBVIOUS
  <2>1. s.tail[i].card \in K!Numbers /\ s.tail[i].card \in Nat
    BY <1>16 DEF CardTask, K!Numbers
  <2>2. TaskAt(s, r, i)
    BY DEF Sound
  <2>3. s.tail[i].card # n
    BY <1>1, <2>1, <2>2 DEF TaskAt
  <2> QED BY <2>1, <2>2, <2>3
<1>18. ASSUME NEW i \in 1..Len(t.tail)
       PROVE  TaskAt(t, r, i)
  <2>1. CASE i \in 1..Len(s.tail)
    <3>1. t.tail[i] = s.tail[i] /\ t.cards[s.tail[i].card] = s.cards[s.tail[i].card]
      BY <1>12, <1>16, <1>17, <2>1
    <3>2. s.tail[i].card <= t.used
      BY <1>1, <1>11, <1>17, <2>1 DEF TaskAt
    <3>3. ASSUME NEW j \in 1..Len(t.tail), t.tail[j].card = s.tail[i].card
          PROVE  j \in 1..Len(s.tail) /\ t.tail[j] = s.tail[j]
      <4>1. j # Len(s.tail) + 1
        BY <1>16, <1>17, <2>1, <3>3
      <4> QED BY <1>16, <4>1
    <3> QED BY <1>17, <2>1, <3>1, <3>2, <3>3 DEF TaskAt
  <2>2. CASE i = Len(s.tail) + 1
    <3>1. t.tail[i].op = "create" /\ t.tail[i].card = n
      BY <1>16, <2>2
    <3>2. n <= t.used
      BY <1>2, <1>11
    <3>3. t.cards[n].phase = "creating" /\ ~t.cards[n].closed
      BY <1>2, <1>3, <1>4, <1>7, <1>12 DEF CardAt, Tells
    <3>4. \A j \in 1..Len(t.tail) : t.tail[j].card = n => j = i
      BY <1>16, <1>17, <2>2
    <3> QED BY <1>14, <3>1, <3>2, <3>3, <3>4 DEF TaskAt
  <2> QED BY <1>16, <2>1, <2>2
<1>19. Sound(t, r)
  BY <1>11, <1>13, <1>14, <1>15, <1>18 DEF Sound
<1>20. OpenAt(t)
  <2>1. t.active <= t.used
    BY <1>2, <1>11
  <2>2. t.there
    BY <1>11
  <2>3. \A m \in K!Numbers : m # n => t.cards[m].phase = "unborn" \/ K!Ending(t, m)
    BY <1>12 DEF OpenAt, K!Ending, K!Numbers
  <2> QED BY <1>11, <2>1, <2>2, <2>3 DEF OpenAt
<1>21. Beside(s, t) /\ t.active # 0
  BY <1>1, <1>11 DEF Beside
<1> QED BY <1>19, <1>20, <1>21 DEF t

\* A frame keeps what is open.
LEMMA FrameOpen ==
  ASSUME NEW s, NEW t, OpenAt(s), Frame(s, t)
  PROVE  OpenAt(t) /\ Beside(s, t)
<1>1. /\ t.active <= t.used
      /\ ~t.there => t.active = 0 /\ t.anchor = Nothing
  BY DEF OpenAt, Frame
<1>2. ASSUME NEW n \in K!Numbers, t.cards[n].phase # "unborn", ~K!Ending(t, n)
      PROVE  n = t.active
  BY <1>2 DEF OpenAt, Frame, K!Ending
<1>3. Beside(s, t)
  BY DEF Beside, Frame
<1> QED BY <1>1, <1>2, <1>3 DEF OpenAt

\* An activity is accepted, refused, or opens a card.
LEMMA AcceptSound ==
  ASSUME K!CardsAssumption, NEW s, NEW r, Sound(s, r), OpenAt(s),
         s.active = 0 /\ s.anchor # Nothing => s.used < Cards
  PROVE  LET t == K!Accept(s, 1) IN
         /\ Sound(t, r) /\ OpenAt(t) /\ Beside(s, t)
         /\ s.active = 0 /\ s.anchor = Nothing => t = s
         /\ t # s => t.active # 0
<1> DEFINE n == s.active
           t == K!Accept(s, 1)
           a == K!Admit(s, n, 1)
<1>1. Beside(s, s)
  BY DEF Beside
<1>2. CASE t = s
  BY <1>1, <1>2
<1>3. ASSUME n = 0, t # s
      PROVE  t = K!Opened(s, 1) /\ s.there /\ s.used < Cards /\ s.anchor # Nothing
  BY <1>3 DEF K!Accept, OpenAt
<1>4. ASSUME n # 0, t # s
      PROVE  ~K!Ending(s, n) /\ t = IF s.cards[n].phase = "writing" THEN K!Schedule(a, n) ELSE a
  BY <1>4 DEF K!Accept
<1> HIDE DEF t, a
<1>5. ASSUME n = 0, t # s
      PROVE  Sound(t, r) /\ OpenAt(t) /\ Beside(s, t) /\ t.active # 0 /\ s.anchor # Nothing
  BY <1>3, <1>5, OpenedSound
<1>6. ASSUME n # 0, t # s
      PROVE  Sound(t, r) /\ OpenAt(t) /\ Beside(s, t) /\ t.active # 0
  <2>1. n \in K!Numbers /\ n <= s.used
    <3>1. n \in 0..Cards /\ Cards \in Nat
      BY DEF Sound, Recipient, K!CardsAssumption
    <3> QED BY <1>6, <3>1 DEF K!Numbers, OpenAt
  <2>2. Sound(a, r) /\ Frame(s, a)
    BY <1>4, <1>6, <2>1, AdmitSound DEF a
  <2>3. CASE s.cards[n].phase # "writing"
    <3>1. t = a
      BY <1>4, <1>6, <2>3
    <3>2. OpenAt(a) /\ Beside(s, a) /\ a.active = n
      BY <2>2, FrameOpen DEF Frame
    <3> QED BY <1>6, <2>2, <3>1, <3>2
  <2>4. CASE s.cards[n].phase = "writing"
    <3>1. a.cards[n].phase = "writing" /\ n <= a.used /\ a.active = n
      BY <2>1, <2>2, <2>4 DEF Frame
    <3>2. Sound(K!Schedule(a, n), r) /\ Frame(a, K!Schedule(a, n))
      BY <2>1, <2>2, <3>1, ScheduleSound
    <3>3. t = K!Schedule(a, n)
      BY <1>4, <1>6, <2>4
    <3>4. OpenAt(a) /\ Beside(s, a)
      BY <2>2, FrameOpen
    <3>5. OpenAt(t) /\ Beside(a, t) /\ t.active = a.active
      BY <3>2, <3>3, <3>4, FrameOpen DEF Frame
    <3>6. Beside(s, t)
      BY <3>4, <3>5 DEF Beside
    <3> QED BY <1>6, <3>1, <3>2, <3>3, <3>5, <3>6
  <2> QED BY <2>3, <2>4
<1> QED BY <1>2, <1>5, <1>6 DEF t

\* The block of reasoning is opened or closed.
LEMMA ThinkSound ==
  ASSUME NEW s, NEW r, Sound(s, r), OpenAt(s), s.active # 0, NEW x \in BOOLEAN, K!CardsAssumption
  PROVE  LET t == [s EXCEPT !.cards[s.active].thinking = x] IN
         Sound(t, r) /\ OpenAt(t) /\ Beside(s, t) /\ t.active = s.active
<1> DEFINE n == s.active
           t == [s EXCEPT !.cards[n].thinking = x]
           c == [s.cards[n] EXCEPT !.thinking = x]
<1>1. s \in Recipient /\ n \in K!Numbers /\ n <= s.used
  <2>1. n \in 0..Cards /\ Cards \in Nat
    BY DEF Sound, Recipient, K!CardsAssumption
  <2> QED BY <2>1 DEF K!Numbers, OpenAt, Sound
<1>2. s.cards[n] \in Card
  BY <1>1 DEF Recipient
<1> HIDE DEF n
<1>3. t = [s EXCEPT !.cards[n] = c]
  BY <1>1, <1>2 DEF Recipient, Card
<1>4. /\ c \in Card /\ c.outbox = s.cards[n].outbox /\ c.said = s.cards[n].said
      /\ c.shown = s.cards[n].shown /\ c.end = s.cards[n].end
      /\ c.phase = s.cards[n].phase /\ c.closed = s.cards[n].closed
      /\ c.ending = s.cards[n].ending
  BY <1>2 DEF Card
<1>5. Marks(s.cards[n], c)
  BY <1>4 DEF Marks
<1> HIDE DEF c, t
<1>6. Recarded(s, n, c, t)
  BY <1>1, <1>3, <1>4, Recard
<1>7. Sound(t, r)
  BY <1>1, <1>5, <1>6, MarkSound
<1>8. Frame(s, t)
  BY <1>4, <1>6 DEF Frame, Recarded
<1>9. OpenAt(t) /\ Beside(s, t) /\ t.active = s.active
  BY <1>8, FrameOpen DEF Frame
<1> QED BY <1>7, <1>9 DEF t, n
----------------------------------------
\* The writer.

Typed(s, t) == /\ s \in Recipient /\ t \in Recipient
               /\ t.used = s.used /\ t.tail = s.tail

\* A card that is being written, or has been, is not waiting to be created.
LEMMA NoCreate ==
  ASSUME NEW s, NEW r, Sound(s, r), NEW n \in K!Numbers,
         \/ r.card = n
         \/ s.cards[n].phase = "writing"
  PROVE  \A i \in 1..Len(s.tail) : s.tail[i].op = "create" => s.tail[i].card # n
<1>1. n # 0 /\ r \in CardsWrite /\ CardAt(s, r, n) /\ (r.step = "idle" <=> r.card = 0)
  BY DEF Sound, K!Numbers
<1>2. \/ r.card = n /\ r.step = "create"
      \/ s.cards[n].phase = "writing" \/ s.cards[n].closed
  BY <1>1 DEF CardAt, Writes, CardsWrite
<1> QED BY <1>2 DEF Sound, TaskAt

\* The write under way goes on to another step, and its card with it.
LEMMA SoundRun ==
  ASSUME NEW s, NEW r, Sound(s, r), NEW n \in K!Numbers, n <= s.used,
         NEW t, Typed(s, t), NEW q \in CardsWrite, q.step = "idle" <=> q.card = 0,
         q.card \in {0, n}, r.card \in {0, n},
         \A m \in K!Numbers : m # n => t.cards[m] = s.cards[m],
         s.cards[n].phase = "writing" => t.cards[n].phase = "writing",
         \A i \in 1..Len(s.tail) : s.tail[i].op = "create" => s.tail[i].card # n,
         t.cards[n].phase # "unborn",
         Tells(t.cards[n], CardsInFlight(q, n)), Writes(t.cards[n], q, n)
  PROVE  Sound(t, q)
<1>1. s \in Recipient /\ t \in Recipient /\ t.used = s.used /\ t.tail = s.tail /\ n # 0
  BY DEF Typed, K!Numbers
<1>2. q.card <= t.used
  <2>1. t.used \in Nat /\ 0 <= t.used
    BY <1>1 DEF Recipient
  <2> QED BY <1>1, <2>1
<1>3. ASSUME NEW m \in K!Numbers
      PROVE  CardAt(t, q, m)
  <2>1. CASE m = n
    <3>1. ~(n > t.used)
      <4>1. n \in Nat /\ t.used \in Nat /\ n <= t.used
        BY <1>1 DEF Recipient, K!Numbers
      <4> QED BY <4>1
    <3> QED BY <2>1, <3>1 DEF CardAt
  <2>2. CASE m # n
    <3>1. m # 0 /\ r.card # m /\ q.card # m
      BY <2>2 DEF K!Numbers
    <3>2. CardAt(s, r, m) /\ t.cards[m] = s.cards[m]
      BY <2>2 DEF Sound
    <3>3. CardsInFlight(q, m) = CardsInFlight(r, m)
      BY <3>1 DEF CardsInFlight
    <3>4. Writes(t.cards[m], q, m)
      BY <3>1 DEF Writes
    <3> QED BY <1>1, <3>2, <3>3, <3>4 DEF CardAt
  <2> QED BY <2>1, <2>2
<1>4. ASSUME NEW i \in 1..Len(t.tail)
      PROVE  TaskAt(t, q, i)
  <2>1. TaskAt(s, r, i)
    BY <1>1 DEF Sound
  <2>2. t.tail[i].card \in K!Numbers
    <3>1. t.tail \in Seq(CardTask)
      BY <1>1 DEF Recipient
    <3>2. t.tail[i] \in CardTask
      BY <3>1, ElementOfSeq
    <3> QED BY <3>2 DEF CardTask
  <2>3. CASE t.tail[i].card = n
    <3>1. t.tail[i].op # "create"
      BY <1>1, <2>3
    <3> QED BY <1>1, <2>1, <2>3, <3>1 DEF TaskAt
  <2>4. CASE t.tail[i].card # n
    <3>1. t.cards[t.tail[i].card] = s.cards[t.tail[i].card] /\ q.card # t.tail[i].card
      BY <2>2, <2>4 DEF K!Numbers
    <3> QED BY <1>1, <2>1, <3>1 DEF TaskAt
  <2> QED BY <2>3, <2>4
<1> QED BY <1>1, <1>2, <1>3, <1>4 DEF Sound

\* The next task is taken.
LEMMA PopSound ==
  ASSUME K!CardsAssumption, NEW s, NEW r, Sound(s, r), OpenAt(s), r.card = 0, s.tail # <<>>
  PROVE  LET t == [s EXCEPT !.tail = Tail(s.tail)]
             task == Head(s.tail)
         IN /\ Sound(t, K!NoRun) /\ OpenAt(t) /\ Beside(s, t) /\ t.active = s.active
            /\ t.cards = s.cards /\ t.used = s.used /\ t.tail = Tail(s.tail)
            /\ task \in CardTask /\ task.card <= s.used
            /\ task.op = "flush" => s.cards[task.card].phase = "writing"
            /\ task.op = "create" =>
                 /\ s.cards[task.card].phase = "creating" /\ ~s.cards[task.card].closed
                 /\ \A i \in 1..Len(t.tail) : t.tail[i].op = "create" => t.tail[i].card # task.card
<1> DEFINE t == [s EXCEPT !.tail = Tail(s.tail)]
           task == Head(s.tail)
<1>1. s \in Recipient /\ s.tail \in Seq(CardTask)
  BY DEF Sound, Recipient
<1>2. /\ Tail(s.tail) \in Seq(CardTask) /\ Len(s.tail) \in Nat /\ Len(s.tail) >= 1
      /\ Len(Tail(s.tail)) = Len(s.tail) - 1
      /\ \A i \in 1..Len(Tail(s.tail)) : Tail(s.tail)[i] = s.tail[i + 1]
      /\ task = s.tail[1] /\ task \in CardTask
  BY <1>1
<1>3. /\ t \in Recipient /\ t.cards = s.cards /\ t.used = s.used /\ t.tail = Tail(s.tail)
      /\ t.active = s.active /\ t.there = s.there /\ t.anchor = s.anchor /\ t.holder = s.holder
      /\ t.calls = s.calls
  BY <1>1, <1>2 DEF Recipient
<1> HIDE DEF t, task
<1>4. 1 \in 1..Len(s.tail) /\ TaskAt(s, r, 1)
  BY <1>2 DEF Sound
<1>5. ASSUME NEW i \in 1..Len(t.tail)
      PROVE  i + 1 \in 1..Len(s.tail) /\ t.tail[i] = s.tail[i + 1] /\ TaskAt(s, r, i + 1) /\ i + 1 # 1
  <2>1. i + 1 \in 1..Len(s.tail) /\ t.tail[i] = s.tail[i + 1] /\ i + 1 # 1
    BY <1>2, <1>3
  <2> QED BY <2>1 DEF Sound
<1>6. K!NoRun \in CardsWrite /\ K!NoRun.card = 0 /\ K!NoRun.step = "idle"
  <2>1. 0 \in 0..Cards /\ <<>> \in Seq(Nat)
    BY DEF K!CardsAssumption
  <2> QED BY <2>1 DEF K!NoRun, CardsWrite
<1>7. K!NoRun.card <= t.used
  BY <1>1, <1>3, <1>6 DEF Recipient
<1>8. ASSUME NEW m \in K!Numbers
      PROVE  CardAt(t, K!NoRun, m)
  <2>1. m # 0 /\ CardAt(s, r, m)
    BY DEF Sound, K!Numbers
  <2>2. CardsInFlight(K!NoRun, m) = CardsInFlight(r, m) /\ Writes(t.cards[m], K!NoRun, m)
    BY <1>6, <2>1 DEF CardsInFlight, Writes
  <2> QED BY <1>3, <2>1, <2>2 DEF CardAt
<1>9. ASSUME NEW i \in 1..Len(t.tail)
      PROVE  TaskAt(t, K!NoRun, i)
  <2> DEFINE n == t.tail[i].card
  <2>1. TaskAt(s, r, i + 1) /\ t.tail[i] = s.tail[i + 1]
    BY <1>5
  <2>2. n <= t.used /\ (t.tail[i].op = "flush" => t.cards[n].phase = "writing")
    BY <1>3, <2>1 DEF TaskAt
  <2>3. ASSUME t.tail[i].op = "create"
        PROVE  /\ t.cards[n].phase = "creating" /\ ~t.cards[n].closed
               /\ ~(K!NoRun.card = n /\ K!NoRun.step = "create")
    BY <1>3, <1>6, <2>1, <2>3 DEF TaskAt
  <2>4. ASSUME t.tail[i].op = "create", NEW j \in 1..Len(t.tail),
               t.tail[j].op = "create", t.tail[j].card = n
        PROVE  j = i
    <3>1. j + 1 = i + 1
      BY <1>5, <2>1, <2>4 DEF TaskAt
    <3> QED BY <3>1
  <2> QED BY <2>2, <2>3, <2>4 DEF TaskAt
<1>10. Sound(t, K!NoRun)
  BY <1>3, <1>6, <1>7, <1>8, <1>9 DEF Sound
<1>11. OpenAt(t) /\ Beside(s, t)
  BY <1>3 DEF OpenAt, K!Ending, Beside
<1>12. /\ task.card <= s.used
       /\ task.op = "flush" => s.cards[task.card].phase = "writing"
       /\ task.op = "create" => s.cards[task.card].phase = "creating" /\ ~s.cards[task.card].closed
  BY <1>2, <1>4 DEF TaskAt
<1>13. ASSUME task.op = "create", NEW i \in 1..Len(t.tail), t.tail[i].op = "create"
       PROVE  t.tail[i].card # task.card
  BY <1>2, <1>4, <1>5, <1>13 DEF TaskAt
<1> QED BY <1>2, <1>3, <1>10, <1>11, <1>12, <1>13 DEF t, task

\* Where a flush goes next.
LEMMA LoopSound ==
  ASSUME K!CardsAssumption, NEW s, Sound(s, K!NoRun), OpenAt(s), NEW n \in K!Numbers, n <= s.used,
         s.cards[n].phase = "writing", K!Loop(s, n)
  PROVE  Sound(crdSt', crdRun') /\ OpenAt(crdSt') /\ crdSt'.active = s.active /\ crdSt'.anchor = s.anchor
<1>1. CASE s.cards[n].closed \/ (s.cards[n].outbox = <<>> /\ ~s.cards[n].ending)
  <2>1. crdRun' = K!NoRun /\ crdSt' = K!Reap(s, Len(s.tail))
    BY <1>1 DEF K!Loop
  <2> QED BY <2>1, ReapSound
<1>2. CASE ~(s.cards[n].closed \/ (s.cards[n].outbox = <<>> /\ ~s.cards[n].ending))
  <2> DEFINE q == [K!NoRun EXCEPT !.card = n, !.step = "slot"]
  <2>1. crdRun' = q /\ crdSt' = s
    BY <1>2 DEF K!Loop
  <2>2. ~s.cards[n].closed
    BY <1>2
  <2>3. n \in 0..Cards /\ n # 0 /\ <<>> \in Seq(Nat)
    BY DEF K!Numbers, K!CardsAssumption
  <2>4. q \in CardsWrite /\ q.card = n /\ q.step = "slot"
    BY <2>3 DEF K!NoRun, CardsWrite
  <2>5. K!NoRun.card = 0 /\ K!NoRun.step = "idle"
    BY DEF K!NoRun
  <2> HIDE DEF q
  <2>6. s \in Recipient /\ CardAt(s, K!NoRun, n)
    BY DEF Sound
  <2>7. CardsInFlight(q, n) = CardsInFlight(K!NoRun, n)
    BY <2>4, <2>5 DEF CardsInFlight
  <2>8. Tells(s.cards[n], CardsInFlight(q, n)) /\ Writes(s.cards[n], q, n)
    BY <2>2, <2>4, <2>6, <2>7 DEF CardAt, Writes
  <2>9. \A i \in 1..Len(s.tail) : s.tail[i].op = "create" => s.tail[i].card # n
    BY NoCreate
  <2>10. Typed(s, s) /\ s.cards[n].phase # "unborn"
    BY <2>6 DEF Typed
  <2>11. (q.step = "idle" <=> q.card = 0) /\ q.card \in {0, n} /\ K!NoRun.card \in {0, n}
    BY <2>3, <2>4, <2>5
  <2>12. Sound(s, q)
    BY <2>4, <2>8, <2>9, <2>10, <2>11, SoundRun
  <2> QED BY <2>1, <2>12
<1> QED BY <1>1, <1>2

\* A card changes under the writer: nothing that was over is open again.
CardsMoves(s, n, c, t) ==
  /\ Recarded(s, n, c, t)
  /\ c.phase # "unborn" /\ s.cards[n].phase # "unborn"
  /\ c.ending = s.cards[n].ending
  /\ c.closed = s.cards[n].closed \/ c.closed = TRUE

LEMMA MovesOpen ==
  ASSUME NEW s, NEW n \in K!Numbers, NEW c, NEW t, OpenAt(s), CardsMoves(s, n, c, t)
  PROVE  OpenAt(t)
<1>1. /\ t.active <= t.used
      /\ ~t.there => t.active = 0 /\ t.anchor = Nothing
  BY DEF OpenAt, CardsMoves, Recarded
<1>2. ASSUME NEW m \in K!Numbers, t.cards[m].phase # "unborn", ~K!Ending(t, m)
      PROVE  m = s.active
  <2>1. CASE m = n
    <3>1. t.cards[m] = c
      BY <2>1 DEF CardsMoves, Recarded
    <3>2. s.cards[m].phase # "unborn" /\ ~K!Ending(s, m)
      BY <1>2, <2>1, <3>1 DEF CardsMoves, K!Ending
    <3> QED BY <3>2 DEF OpenAt
  <2>2. CASE m # n
    <3>1. t.cards[m] = s.cards[m]
      BY <2>2 DEF CardsMoves, Recarded
    <3> QED BY <1>2, <3>1 DEF OpenAt, K!Ending
  <2> QED BY <2>1, <2>2
<1>3. t.active = s.active
  BY DEF CardsMoves, Recarded
<1> QED BY <1>1, <1>2, <1>3 DEF OpenAt

\* What a write makes of its card, and of what is in flight.
LEMMA WriteSound ==
  ASSUME K!CardsAssumption, NEW s, NEW r, Sound(s, r), OpenAt(s), NEW n \in K!Numbers, r.card = n,
         NEW c, NEW t, CardsMoves(s, n, c, t), s.cards[n].phase = "writing" => c.phase = "writing",
         NEW q \in CardsWrite, q.step = "idle" <=> q.card = 0, q.card \in {0, n},
         Tells(c, CardsInFlight(q, n)), Writes(c, q, n)
  PROVE  Sound(t, q) /\ OpenAt(t) /\ t.active = s.active /\ t.anchor = s.anchor
<1>1. n <= s.used /\ s \in Recipient
  BY DEF Sound
<1>2. /\ t \in Recipient /\ t.used = s.used /\ t.tail = s.tail /\ t.cards[n] = c
      /\ t.active = s.active /\ t.anchor = s.anchor
      /\ \A m \in K!Numbers : m # n => t.cards[m] = s.cards[m]
      /\ c.phase # "unborn"
  BY DEF CardsMoves, Recarded
<1>3. Typed(s, t)
  BY <1>1, <1>2 DEF Typed
<1>4. \A i \in 1..Len(s.tail) : s.tail[i].op = "create" => s.tail[i].card # n
  BY NoCreate
<1>5. /\ Tells(t.cards[n], CardsInFlight(q, n)) /\ Writes(t.cards[n], q, n)
      /\ t.cards[n].phase # "unborn" /\ (s.cards[n].phase = "writing" => t.cards[n].phase = "writing")
  BY <1>2
<1>6. Sound(t, q)
  BY <1>1, <1>2, <1>3, <1>4, <1>5, SoundRun
<1>7. OpenAt(t)
  BY MovesOpen
<1> QED BY <1>2, <1>6, <1>7

\* What a card has shown when it is given up.
Given(d) ==
  /\ d \in Card /\ d.phase # "unborn" /\ Numbered(d.shown, 0)
  /\ d.end = "end" => Len(d.shown) = d.said
  /\ d.phase = "creating" => d.shown = <<>> /\ d.end = "none"

\* A card is given up: e is s with what the write has shown on it.
LEMMA AbandonSound ==
  ASSUME K!CardsAssumption, NEW s, NEW r, Sound(s, r), OpenAt(s), NEW n \in K!Numbers, r.card = n,
         NEW d, Given(d), NEW e, Recarded(s, n, d, e),
         d.phase = s.cards[n].phase, d.ending = s.cards[n].ending,
         NEW q \in CardsWrite, q.step = "idle" <=> q.card = 0, q.card \in {0, n},
         q.step \in {"idle", "failing"}, q.step = "failing" => d.phase = "writing"
  PROVE  LET t == K!Abandon(e, n) IN
         Sound(t, q) /\ OpenAt(t) /\ t.active \in {0, s.active} /\ t.anchor = s.anchor
<1> DEFINE c == [d EXCEPT !.closed = TRUE, !.outbox = <<>>]
           u == [e EXCEPT !.cards[n] = c]
           t == K!Abandon(e, n)
<1>1. /\ e \in Recipient /\ e.cards[n] = d /\ d \in Card /\ e.cards \in [K!Numbers -> Card]
      /\ e.active \in 0..Cards /\ 0 \in 0..Cards
  BY DEF Recarded, Given, Recipient, K!CardsAssumption
<1>2. /\ c \in Card /\ c.closed = TRUE /\ c.outbox = <<>> /\ c.shown = d.shown /\ c.end = d.end
      /\ c.phase = d.phase /\ c.ending = d.ending /\ c.said = d.said
  <2>1. <<>> \in Seq(Nat)
    OBVIOUS
  <2> QED BY <1>1, <2>1 DEF Card
<1>3. t = [u EXCEPT !.active = IF e.active = n THEN 0 ELSE e.active]
  <2> DEFINE f == e.cards
             f1 == [f EXCEPT ![n].closed = TRUE]
             f2 == [f1 EXCEPT ![n].outbox = <<>>]
             a1 == [e EXCEPT !.cards[n].closed = TRUE]
             a2 == [a1 EXCEPT !.cards[n].outbox = <<>>]
             x == IF e.active = n THEN 0 ELSE e.active
  <2>1. f2 = [f EXCEPT ![n] = c]
    <3>1. f1 = [f EXCEPT ![n] = [f[n] EXCEPT !.closed = TRUE]]
      BY <1>1
    <3> QED BY <1>1, <3>1 DEF Card
  <2>2. u = [e EXCEPT !.cards = [f EXCEPT ![n] = c]]
    <3> HIDE DEF c
    <3> QED BY <1>1 DEF Recipient
  <2>3. t = [a2 EXCEPT !.active = IF @ = n THEN 0 ELSE @]
    BY DEF K!Abandon
  <2>4. a1.cards = f1 /\ a1.active = e.active /\ a1 = [e EXCEPT !.cards = f1]
    BY <1>1 DEF Recipient
  <2> HIDE DEF t, c, u, a1, f1
  <2>5. a2.active = e.active /\ a2 = [e EXCEPT !.cards = f2]
    BY <1>1, <2>4 DEF Recipient
  <2> HIDE DEF a2, f2
  <2> QED BY <1>1, <2>1, <2>2, <2>3, <2>5 DEF Recipient
<1> HIDE DEF c
<1>4. Recarded(e, n, c, u)
  BY <1>1, <1>2, Recard
<1> HIDE DEF u
<1>5. Recarded(s, n, c, u)
  BY <1>4 DEF Recarded
<1>6. /\ t \in Recipient /\ t.cards = u.cards /\ t.used = u.used /\ t.tail = u.tail
      /\ t.there = u.there /\ t.anchor = u.anchor
      /\ t.active = IF s.active = n THEN 0 ELSE s.active
  <2>1. u \in Recipient /\ u.active = s.active /\ e.active = s.active
    BY <1>4 DEF Recarded
  <2> HIDE DEF t
  <2> QED BY <1>1, <1>3, <2>1 DEF Recipient
<1> HIDE DEF t
<1>7. n # 0 /\ CardAt(s, r, n)
  BY DEF Sound, K!Numbers
<1>8. CardsMoves(s, n, c, u)
  <2>1. c.phase # "unborn" /\ s.cards[n].phase # "unborn" /\ c.ending = s.cards[n].ending
    BY <1>2 DEF Given
  <2> QED BY <1>2, <1>5, <2>1 DEF CardsMoves
<1>9. CardsInFlight(q, n) = <<>> /\ Writes(c, q, n)
  BY <1>2, <1>7 DEF CardsInFlight, Writes
<1>10. Tells(c, <<>>)
  <2>1. Len(<<>>) = 0 /\ Len(c.outbox) <= Room
    BY <1>2 DEF K!CardsAssumption
  <2>2. Numbered(<<>>, Len(c.shown)) /\ Numbered(c.outbox, Len(c.shown) + Len(<<>>))
    BY <1>2, <2>1 DEF Numbered
  <2> QED BY <1>2, <2>1, <2>2 DEF Tells, Given
<1>11. Sound(u, q) /\ OpenAt(u) /\ u.active = s.active /\ u.anchor = s.anchor
  <2>1. s.cards[n].phase = "writing" => c.phase = "writing"
    BY <1>2
  <2>2. Tells(c, CardsInFlight(q, n))
    BY <1>9, <1>10
  <2> QED BY <1>8, <1>9, <2>1, <2>2, WriteSound, ZenonT(30)
<1>12. Sound(t, q)
  BY <1>6, <1>11, SoundSame
<1>13. OpenAt(t)
  <2>1. t.active <= t.used
    BY <1>1, <1>6, <1>11 DEF OpenAt, Recipient
  <2>2. ~t.there => t.active = 0 /\ t.anchor = Nothing
    BY <1>6, <1>11 DEF OpenAt
  <2>3. ASSUME NEW m \in K!Numbers, t.cards[m].phase # "unborn", ~K!Ending(t, m)
        PROVE  m = t.active
    <3>1. m = u.active
      BY <1>6, <1>11, <2>3 DEF OpenAt, K!Ending
    <3>2. u.cards[n].closed = TRUE
      BY <1>2, <1>5 DEF Recarded
    <3>3. m # n
      BY <1>6, <2>3, <3>2 DEF K!Ending
    <3> QED BY <1>6, <1>11, <3>1, <3>3
  <2> QED BY <2>1, <2>2, <2>3 DEF OpenAt
<1> QED BY <1>6, <1>11, <1>12, <1>13 DEF t

\* What every step of the recipient establishes.
Holds(t, q) == Sound(t, q) /\ OpenAt(t)
Kept(s, t) == t.active \in {0, s.active} /\ t.anchor = s.anchor

LEMMA NoRunWrite == ASSUME K!CardsAssumption
  PROVE  K!NoRun \in CardsWrite /\ K!NoRun.card = 0 /\ K!NoRun.step = "idle" /\ K!NoRun.batch = <<>>
<1>1. 0 \in 0..Cards /\ <<>> \in Seq(Nat)
  BY DEF K!CardsAssumption
<1> QED BY <1>1 DEF K!NoRun, CardsWrite

LEMMA TaskStartsSound ==
  ASSUME K!CardsAssumption, Holds(crdSt, crdRun), K!TaskStarts
  PROVE  Holds(crdSt', crdRun') /\ Kept(crdSt, crdSt')
<1> DEFINE task == Head(crdSt.tail)
           s == [crdSt EXCEPT !.tail = Tail(crdSt.tail)]
<1>1. crdRun.card = 0 /\ crdSt.tail # <<>> /\ Sound(crdSt, crdRun) /\ OpenAt(crdSt)
  BY DEF K!TaskStarts, Holds
<1>2. crdSt \in Recipient
  BY <1>1 DEF Sound
<1>s. s = [crdSt EXCEPT !.tail = Tail(@)]
  BY <1>2 DEF Recipient
<1>3. /\ Sound(s, K!NoRun) /\ OpenAt(s) /\ Beside(crdSt, s) /\ s.active = crdSt.active
      /\ s.cards = crdSt.cards /\ s.used = crdSt.used /\ s.tail = Tail(crdSt.tail)
      /\ task \in CardTask /\ task.card <= crdSt.used
      /\ task.op = "flush" => crdSt.cards[task.card].phase = "writing"
      /\ task.op = "create" =>
           /\ crdSt.cards[task.card].phase = "creating" /\ ~crdSt.cards[task.card].closed
           /\ \A i \in 1..Len(s.tail) : s.tail[i].op = "create" => s.tail[i].card # task.card
  BY <1>1, PopSound
<1>4. PICK n \in K!Numbers : task.card = n
  BY <1>3 DEF CardTask
<1>5. task.op \in {"create", "flush"}
  BY <1>3 DEF CardTask
<1>6. IF task.op = "create"
      THEN crdRun' = [K!NoRun EXCEPT !.card = task.card, !.step = "create"] /\ crdSt' = s
      ELSE K!Loop([s EXCEPT !.cards[task.card].queued = FALSE], task.card)
  BY <1>s DEF K!TaskStarts
<1> HIDE DEF s, task
<1>7. CASE task.op = "create"
  <2> DEFINE q == [K!NoRun EXCEPT !.card = n, !.step = "create"]
  <2>1. crdRun' = q /\ crdSt' = s
    BY <1>4, <1>6, <1>7
  <2>2. n \in 0..Cards /\ n # 0 /\ <<>> \in Seq(Nat)
    BY DEF K!Numbers, K!CardsAssumption
  <2>3. q \in CardsWrite /\ q.card = n /\ q.step = "create"
    BY <2>2 DEF K!NoRun, CardsWrite
  <2>4. K!NoRun.card = 0 /\ K!NoRun.step = "idle"
    BY NoRunWrite
  <2> HIDE DEF q
  <2>5. s \in Recipient /\ CardAt(s, K!NoRun, n) /\ n <= s.used
    BY <1>3, <1>4 DEF Sound
  <2>6. s.cards[n].phase = "creating" /\ ~s.cards[n].closed
        /\ \A i \in 1..Len(s.tail) : s.tail[i].op = "create" => s.tail[i].card # n
    BY <1>3, <1>4, <1>7
  <2>7. CardsInFlight(q, n) = CardsInFlight(K!NoRun, n)
    BY <2>3, <2>4 DEF CardsInFlight
  <2>8. Tells(s.cards[n], CardsInFlight(q, n)) /\ Writes(s.cards[n], q, n)
    BY <2>3, <2>5, <2>6, <2>7 DEF CardAt, Writes
  <2>9. Typed(s, s) /\ s.cards[n].phase # "unborn"
    BY <2>5, <2>6 DEF Typed
  <2>10. (q.step = "idle" <=> q.card = 0) /\ q.card \in {0, n} /\ K!NoRun.card \in {0, n}
    BY <2>2, <2>3, <2>4
  <2>11. Sound(s, q)
    BY <1>3, <2>3, <2>5, <2>6, <2>8, <2>9, <2>10, SoundRun
  <2>12. OpenAt(s) /\ s.active \in {0, crdSt.active} /\ s.anchor = crdSt.anchor
    BY <1>3 DEF Beside
  <2> QED BY <2>1, <2>11, <2>12 DEF Holds, Kept
<1>8. CASE task.op = "flush"
  <2> DEFINE c == [s.cards[n] EXCEPT !.queued = FALSE]
             u == [s EXCEPT !.cards[n] = c]
             w == [s EXCEPT !.cards[n].queued = FALSE]
  <2>1. K!Loop(w, n)
    BY <1>4, <1>6, <1>8
  <2>2. s \in Recipient /\ s.cards[n] \in Card /\ n <= s.used /\ s.cards[n].phase = "writing"
    BY <1>3, <1>4, <1>8 DEF Sound, Recipient
  <2>3. w = u
    BY <2>2 DEF Recipient, Card
  <2>4. /\ c \in Card /\ c.outbox = s.cards[n].outbox /\ c.said = s.cards[n].said
        /\ c.shown = s.cards[n].shown /\ c.end = s.cards[n].end
        /\ c.phase = s.cards[n].phase /\ c.closed = s.cards[n].closed /\ c.ending = s.cards[n].ending
    BY <2>2 DEF Card
  <2>5. Marks(s.cards[n], c)
    BY <2>4 DEF Marks
  <2> HIDE DEF c
  <2>6. Recarded(s, n, c, u)
    BY <2>2, <2>4, Recard
  <2> HIDE DEF u, w
  <2>7. Sound(u, K!NoRun)
    BY <1>3, <2>2, <2>5, <2>6, MarkSound
  <2>8. Frame(s, u)
    BY <2>4, <2>6 DEF Frame, Recarded
  <2>9. OpenAt(u) /\ Beside(s, u) /\ u.active = s.active
    BY <1>3, <2>8, FrameOpen DEF Frame
  <2>10. n <= u.used /\ u.cards[n].phase = "writing"
    BY <2>2, <2>4, <2>6 DEF Recarded
  <2>11. K!Loop(u, n)
    BY <2>1, <2>3
  <2>12. Sound(crdSt', crdRun') /\ OpenAt(crdSt') /\ crdSt'.active = u.active /\ crdSt'.anchor = u.anchor
    BY <2>7, <2>9, <2>10, <2>11, LoopSound
  <2> QED BY <1>3, <2>9, <2>12 DEF Holds, Kept, Beside
<1> QED BY <1>5, <1>7, <1>8

\* A batch is cut off the front of what waits.
LEMMA Cut ==
  ASSUME NEW q \in Seq(Nat), NEW k \in 0..Len(q), NEW from \in Nat, Numbered(q, from)
  PROVE  LET a == SubSeq(q, 1, k)
             b == SubSeq(q, k + 1, Len(q))
         IN /\ a \in Seq(Nat) /\ b \in Seq(Nat) /\ Len(a) = k /\ Len(b) = Len(q) - k
            /\ Numbered(a, from) /\ Numbered(b, from + k)
<1> DEFINE a == SubSeq(q, 1, k)
           b == SubSeq(q, k + 1, Len(q))
<1>1. Len(q) \in Nat /\ k \in Nat /\ k <= Len(q)
  OBVIOUS
<1>2. 1 \in 1..Len(q) + 1 /\ k \in (1 - 1)..Len(q)
  BY <1>1
<1>3. k + 1 \in 1..Len(q) + 1 /\ Len(q) \in (k + 1 - 1)..Len(q)
  BY <1>1
<1>4. /\ a \in Seq(Nat) /\ Len(a) = k - 1 + 1
      /\ \A i \in 1 .. (k - 1 + 1) : a[i] = q[1 + i - 1]
  BY <1>2, SubSeqProperties
<1>5. /\ b \in Seq(Nat) /\ Len(b) = Len(q) - (k + 1) + 1
      /\ \A i \in 1 .. (Len(q) - (k + 1) + 1) : b[i] = q[k + 1 + i - 1]
  BY <1>3, SubSeqProperties
<1> HIDE DEF a, b
<1>6. k - 1 + 1 = k /\ Len(q) - (k + 1) + 1 = Len(q) - k
  BY <1>1
<1>7. Numbered(a, from)
  <2> SUFFICES ASSUME NEW i \in 1..Len(a)
               PROVE  a[i] = from + i
    BY DEF Numbered
  <2>1. i \in 1..Len(q) /\ 1 + i - 1 = i
    BY <1>1, <1>4, <1>6
  <2> QED BY <1>4, <1>6, <2>1 DEF Numbered
<1>8. Numbered(b, from + k)
  <2> SUFFICES ASSUME NEW i \in 1..Len(b)
               PROVE  b[i] = from + k + i
    BY DEF Numbered
  <2>1. i \in 1 .. (Len(q) - k) /\ i \in Nat
    BY <1>5, <1>6
  <2>2. k + 1 + i - 1 \in 1..Len(q) /\ k + 1 + i - 1 = k + i
    BY <1>1, <2>1
  <2>3. b[i] = q[k + i] /\ q[k + i] = from + (k + i)
    BY <1>5, <1>6, <2>1, <2>2 DEF Numbered
  <2>4. from + (k + i) = from + k + i
    BY <1>1, <2>1
  <2> QED BY <2>3, <2>4
<1> QED BY <1>4, <1>5, <1>6, <1>7, <1>8 DEF a, b

\* The card of the write under way.
LEMMA WritesOne ==
  ASSUME K!CardsAssumption, Holds(crdSt, crdRun), crdRun.step # "idle"
  PROVE  /\ crdRun.card \in K!Numbers /\ crdSt \in Recipient /\ crdRun \in CardsWrite /\ crdSt.cards[crdRun.card] \in Card
         /\ CardAt(crdSt, crdRun, crdRun.card) /\ crdRun.card <= crdSt.used
<1>1. /\ crdSt \in Recipient /\ crdRun \in CardsWrite /\ crdRun.card \in 0..Cards /\ crdRun.card # 0
      /\ crdRun.card <= crdSt.used
  BY DEF Holds, Sound, CardsWrite
<1>2. crdRun.card \in K!Numbers
  BY <1>1 DEF K!Numbers, K!CardsAssumption
<1> QED BY <1>1, <1>2 DEF Holds, Sound, Recipient

LEMMA TakeBatchSound ==
  ASSUME K!CardsAssumption, Holds(crdSt, crdRun), K!TakeBatch
  PROVE  Holds(crdSt', crdRun') /\ Kept(crdSt, crdSt')
<1>1. crdRun.step = "slot" /\ Sound(crdSt, crdRun) /\ OpenAt(crdSt)
  BY DEF K!TakeBatch, Holds
<1>2. /\ crdRun.card \in K!Numbers /\ crdSt \in Recipient /\ crdRun \in CardsWrite /\ crdSt.cards[crdRun.card] \in Card
      /\ CardAt(crdSt, crdRun, crdRun.card) /\ crdRun.card <= crdSt.used
  BY <1>1, WritesOne
<1>3. PICK n \in K!Numbers : crdRun.card = n
  BY <1>2
<1> DEFINE o == crdSt.cards[n].outbox
<1>4. PICK k \in (IF o = <<>> THEN {0} ELSE 1 .. Len(o)), fits \in BOOLEAN :
        /\ crdRun' = [card |-> n, step |-> "append", batch |-> SubSeq(o, 1, k),
                      ends |-> (k = Len(o) /\ crdSt.cards[n].ending) /\ fits]
        /\ crdSt' = [crdSt EXCEPT !.cards[n].outbox = SubSeq(o, k + 1, Len(o))]
  BY <1>3 DEF K!TakeBatch
<1> DEFINE a == SubSeq(o, 1, k)
           b == SubSeq(o, k + 1, Len(o))
           from == Len(crdSt.cards[n].shown)
           c == [crdSt.cards[n] EXCEPT !.outbox = b]
           e == (k = Len(o) /\ crdSt.cards[n].ending) /\ fits
           q == [card |-> n, step |-> "append", batch |-> a, ends |-> e]
<1>5. /\ crdSt.cards[n] \in Card /\ o \in Seq(Nat) /\ crdSt.cards[n].shown \in Seq(Nat) /\ from \in Nat
      /\ Len(o) \in Nat /\ n <= crdSt.used /\ n # 0 /\ n \in 0..Cards
  BY <1>2, <1>3 DEF Card, K!Numbers
<1>6. k \in 0..Len(o)
  BY <1>5
<1>7. /\ ~crdSt.cards[n].closed /\ crdSt.cards[n].phase = "writing"
      /\ CardsInFlight(crdRun, n) = <<>> /\ Tells(crdSt.cards[n], <<>>)
  BY <1>1, <1>2, <1>3 DEF CardAt, Writes, CardsInFlight
<1>8. /\ Numbered(o, from) /\ Len(o) <= Room /\ crdSt.cards[n].said = from + Len(o)
      /\ Numbered(crdSt.cards[n].shown, 0)
  <2>1. Len(<<>>) = 0 /\ from + 0 = from /\ from + 0 + Len(o) = from + Len(o)
    BY <1>5
  <2> QED BY <1>7, <2>1 DEF Tells
<1>9. /\ a \in Seq(Nat) /\ b \in Seq(Nat) /\ Len(a) = k /\ Len(b) = Len(o) - k
      /\ Numbered(a, from) /\ Numbered(b, from + k)
  <2> HIDE DEF o, from
  <2> QED BY <1>5, <1>6, <1>8, Cut
<1>10. crdRun' = q /\ crdSt' = [crdSt EXCEPT !.cards[n] = c]
  BY <1>2, <1>4, <1>5 DEF Recipient, Card
<1> HIDE DEF a, b
<1>11. /\ c \in Card /\ c.outbox = b /\ c.said = crdSt.cards[n].said /\ c.shown = crdSt.cards[n].shown
       /\ c.end = crdSt.cards[n].end /\ c.phase = crdSt.cards[n].phase /\ c.closed = crdSt.cards[n].closed
       /\ c.ending = crdSt.cards[n].ending
  BY <1>5, <1>9 DEF Card
<1> HIDE DEF c
<1>12. Recarded(crdSt, n, c, crdSt')
  BY <1>2, <1>10, <1>11, Recard
<1>13. e \in BOOLEAN /\ (e => k = Len(o) /\ crdSt.cards[n].ending)
  BY <1>5, <1>7 DEF Card
<1> HIDE DEF e
<1>14. q \in CardsWrite /\ q.card = n /\ q.step = "append" /\ q.batch = a /\ q.ends = e
  BY <1>5, <1>9, <1>13 DEF CardsWrite
<1> HIDE DEF q
<1>15. CardsInFlight(q, n) = a
  BY <1>14 DEF CardsInFlight
<1>16. Tells(c, a)
  <2> HIDE DEF o, from
  <2>1. Len(b) <= Room
    <3>1. Room \in Nat
      BY DEF K!CardsAssumption
    <3> QED BY <1>5, <1>6, <1>8, <1>9, <3>1
  <2>2. c.said = from + Len(a) + Len(b)
    <3>1. from + Len(o) = from + k + (Len(o) - k)
      BY <1>5, <1>6
    <3> QED BY <1>8, <1>9, <1>11, <3>1
  <2>3. c.end = "none" /\ ~c.closed /\ c.phase = "writing"
    BY <1>5, <1>7, <1>11 DEF Tells
  <2>4. Len(c.shown) = from
    BY <1>11 DEF from
  <2>5. Numbered(c.shown, 0) /\ Numbered(a, Len(c.shown)) /\ Numbered(c.outbox, Len(c.shown) + Len(a))
    BY <1>8, <1>9, <1>11, <2>4
  <2>6. Len(c.outbox) <= Room /\ c.said = Len(c.shown) + Len(a) + Len(c.outbox)
    BY <1>11, <2>1, <2>2, <2>4
  <2> QED BY <2>3, <2>5, <2>6 DEF Tells
<1>17. Writes(c, q, n)
  <2>1. c.phase = "writing" /\ ~c.closed
    BY <1>7, <1>11
  <2>2. ASSUME e
        PROVE  c.ending /\ c.outbox = <<>>
    <3>1. k = Len(o) /\ Len(b) = 0
      BY <1>5, <1>9, <1>13, <2>2
    <3>2. b = <<>>
      BY <1>9, <3>1
    <3> QED BY <1>11, <1>13, <2>2, <3>2
  <2> QED BY <1>14, <2>1, <2>2 DEF Writes
<1>18. CardsMoves(crdSt, n, c, crdSt')
  <2>1. c.phase # "unborn" /\ crdSt.cards[n].phase # "unborn"
    BY <1>7, <1>11
  <2> QED BY <1>11, <1>12, <2>1 DEF CardsMoves
<1>19. (q.step = "idle" <=> q.card = 0) /\ q.card \in {0, n}
  BY <1>5, <1>14
<1>20. Sound(crdSt', q) /\ OpenAt(crdSt') /\ crdSt'.active = crdSt.active /\ crdSt'.anchor = crdSt.anchor
  <2>1. (crdSt.cards[n].phase = "writing" => c.phase = "writing") /\ Tells(c, CardsInFlight(q, n))
    BY <1>11, <1>15, <1>16
  <2> QED BY <1>1, <1>3, <1>14, <1>17, <1>18, <1>19, <2>1, WriteSound, ZenonT(30)
<1> QED BY <1>10, <1>20 DEF Holds, Kept

\* The card once the batch in flight is shown on it.
ShownCard(d) == [d EXCEPT !.shown = @ \o crdRun.batch, !.end = IF crdRun.ends THEN "end" ELSE @]

LEMMA ShownSound ==
  ASSUME K!CardsAssumption, Holds(crdSt, crdRun), crdRun.step = "append", NEW n \in K!Numbers, crdRun.card = n
  PROVE  LET c == ShownCard(crdSt.cards[n]) IN
         /\ Recarded(crdSt, n, c, K!Shown(crdSt))
         /\ c \in Card /\ c.phase = "writing" /\ ~c.closed /\ ~crdSt.cards[n].closed
         /\ crdSt.cards[n].phase = "writing"
         /\ c.outbox = crdSt.cards[n].outbox /\ c.said = crdSt.cards[n].said
         /\ c.ending = crdSt.cards[n].ending /\ c.closed = crdSt.cards[n].closed
         /\ Len(c.outbox) <= Room /\ Numbered(c.shown, 0)
         /\ Numbered(c.outbox, Len(c.shown)) /\ c.said = Len(c.shown) + Len(c.outbox)
         /\ crdRun.ends => c.end = "end" /\ c.outbox = <<>>
         /\ ~crdRun.ends => c.end = "none"
<1> DEFINE d == crdSt.cards[n]
           b == crdRun.batch
           p == d.shown \o b
           x == IF crdRun.ends THEN "end" ELSE d.end
           c == ShownCard(d)
<1>1. crdSt \in Recipient /\ crdRun \in CardsWrite /\ d \in Card /\ CardAt(crdSt, crdRun, n) /\ n <= crdSt.used
  BY DEF Holds, Sound, Recipient
<1>2. /\ b \in Seq(Nat) /\ d.shown \in Seq(Nat) /\ d.outbox \in Seq(Nat) /\ d.said \in Nat
      /\ d.end \in {"none", "end", "error"} /\ crdRun.ends \in BOOLEAN
  BY <1>1 DEF CardsWrite, Card
<1>3. /\ Len(b) \in Nat /\ Len(d.shown) \in Nat /\ Len(d.outbox) \in Nat /\ p \in Seq(Nat)
      /\ Len(p) = Len(d.shown) + Len(b)
      /\ \A i \in 1 .. Len(d.shown) + Len(b) :
           p[i] = IF i <= Len(d.shown) THEN d.shown[i] ELSE b[i - Len(d.shown)]
  <2> HIDE DEF d, b
  <2> QED BY <1>2, ConcatProperties
<1>4. /\ CardsInFlight(crdRun, n) = b /\ Tells(d, b)
      /\ d.phase = "writing" /\ ~d.closed /\ (crdRun.ends => d.ending /\ d.outbox = <<>>)
  BY <1>1 DEF CardAt, Writes, CardsInFlight
<1>5. c = [d EXCEPT !.shown = p, !.end = x]
  BY DEF ShownCard
<1> HIDE DEF c
<1>6. x \in {"none", "end", "error"} /\ (crdRun.ends => x = "end") /\ (~crdRun.ends => x = d.end)
  BY <1>2
<1>7. d.end = "none"
  BY <1>2, <1>4 DEF Tells
<1>f. crdSt.cards \in [K!Numbers -> Card]
  BY <1>1 DEF Recipient
<1> DEFINE f == crdSt.cards
<1>8. K!Shown(crdSt) = [crdSt EXCEPT !.cards[n] = c]
  <2> DEFINE f1 == [f EXCEPT ![n].shown = @ \o crdRun.batch]
             f2 == [f1 EXCEPT ![n].end = IF crdRun.ends THEN "end" ELSE @]
             a1 == [crdSt EXCEPT !.cards[n].shown = @ \o crdRun.batch]
             a2 == [a1 EXCEPT !.cards[n].end = IF crdRun.ends THEN "end" ELSE @]
  <2>1. K!Shown(crdSt) = a2
    BY DEF K!Shown
  <2>2. f1 = [f EXCEPT ![n] = [d EXCEPT !.shown = p]]
    BY <1>f
  <2>3. f2 = [f1 EXCEPT ![n] = [f1[n] EXCEPT !.end = IF crdRun.ends THEN "end" ELSE f1[n].end]]
    BY <1>f
  <2>4. f1[n] = [d EXCEPT !.shown = p] /\ f1[n].end = d.end
    <3> HIDE DEF f1, p, d
    <3>1. f1[n] = [d EXCEPT !.shown = p]
      BY <1>f, <2>2
    <3> QED BY <1>1, <3>1 DEF Card
  <2>5. f2 = [f EXCEPT ![n] = c]
    <3> HIDE DEF f1, p, x
    <3>1. [f1[n] EXCEPT !.end = IF crdRun.ends THEN "end" ELSE f1[n].end] = c
      <4> HIDE DEF d
      <4> QED BY <1>1, <1>5, <2>4 DEF Card, x
    <3> HIDE DEF f2, d
    <3> QED BY <1>f, <2>2, <2>3, <3>1
  <2>6. a1.cards = f1 /\ a1 = [crdSt EXCEPT !.cards = f1]
    BY <1>1 DEF Recipient
  <2> HIDE DEF f1
  <2>7. a2 = [crdSt EXCEPT !.cards = f2]
    <3>1. a2 = [a1 EXCEPT !.cards = f2]
      <4> HIDE DEF a1
      <4>1. a1 \in Recipient
        <5>1. f1 \in [K!Numbers -> Card]
          <6> HIDE DEF p, d
          <6>1. [d EXCEPT !.shown = p] \in Card
            BY <1>1, <1>3 DEF Card
          <6> QED BY <1>f, <2>2, <6>1
        <5> QED BY <1>1, <2>6, <5>1 DEF Recipient
      <4> QED BY <2>6, <4>1 DEF Recipient
    <3> HIDE DEF f2, a2
    <3> QED BY <1>1, <2>6, <3>1 DEF Recipient
  <2>8. [crdSt EXCEPT !.cards[n] = c] = [crdSt EXCEPT !.cards = [f EXCEPT ![n] = c]]
    BY <1>1, <1>f DEF Recipient
  <2> QED BY <2>1, <2>5, <2>7, <2>8
<1> HIDE DEF x, p
<1>9. /\ c \in Card /\ c.shown = p /\ c.end = x /\ c.outbox = d.outbox /\ c.said = d.said
      /\ c.phase = d.phase /\ c.closed = d.closed /\ c.ending = d.ending
  <2> HIDE DEF d
  <2> QED BY <1>1, <1>3, <1>5, <1>6 DEF Card
<1>10. Recarded(crdSt, n, c, K!Shown(crdSt))
  BY <1>1, <1>8, <1>9, Recard
<1> HIDE DEF d, b, f
<1>11. /\ Numbered(d.shown, 0) /\ Numbered(b, Len(d.shown)) /\ Len(d.outbox) <= Room
       /\ Numbered(d.outbox, Len(d.shown) + Len(b))
       /\ d.said = Len(d.shown) + Len(b) + Len(d.outbox)
  BY <1>4 DEF Tells
<1>12. Numbered(p, 0)
  <2> SUFFICES ASSUME NEW i \in 1..Len(p)
               PROVE  p[i] = 0 + i
    BY DEF Numbered
  <2>1. i \in 1 .. Len(d.shown) + Len(b) /\ i \in Nat /\ 0 + i = i
    BY <1>3
  <2>2. CASE i <= Len(d.shown)
    <3>1. i \in 1..Len(d.shown) /\ p[i] = d.shown[i]
      BY <1>3, <2>1, <2>2
    <3> QED BY <1>11, <2>1, <3>1 DEF Numbered
  <2>3. CASE ~(i <= Len(d.shown))
    <3>0. Len(d.shown) \in Nat /\ Len(b) \in Nat /\ Len(d.shown) < i /\ i <= Len(d.shown) + Len(b)
      BY <1>3, <2>1, <2>3
    <3>1. i - Len(d.shown) \in 1..Len(b) /\ p[i] = b[i - Len(d.shown)]
      <4>1. i - Len(d.shown) \in 1..Len(b)
        BY <2>1, <3>0
      <4>2. p[i] = b[i - Len(d.shown)]
        BY <1>3, <2>1, <2>3, <3>0
      <4> QED BY <4>1, <4>2
    <3>2. b[i - Len(d.shown)] = Len(d.shown) + (i - Len(d.shown))
      BY <1>11, <3>1 DEF Numbered
    <3> QED BY <1>3, <2>1, <3>1, <3>2
  <2> QED BY <2>2, <2>3
<1>13. Numbered(c.outbox, Len(c.shown)) /\ c.said = Len(c.shown) + Len(c.outbox)
  BY <1>3, <1>9, <1>11
<1>14. /\ crdRun.ends => c.end = "end" /\ c.outbox = <<>>
       /\ ~crdRun.ends => c.end = "none"
  BY <1>4, <1>6, <1>7, <1>9
<1> QED BY <1>4, <1>9, <1>10, <1>11, <1>12, <1>13, <1>14 DEF d, c

LEMMA RecardSame ==
  ASSUME NEW s \in Recipient, NEW n
  PROVE  Recarded(s, n, s.cards[n], s)
BY DEF Recarded

LEMMA AppendedSound ==
  ASSUME K!CardsAssumption, Holds(crdSt, crdRun), K!Appended
  PROVE  Holds(crdSt', crdRun') /\ Kept(crdSt, crdSt')
<1>1. crdRun.step = "append" /\ Sound(crdSt, crdRun) /\ OpenAt(crdSt)
  BY DEF K!Appended, Holds
<1>2. PICK n \in K!Numbers : crdRun.card = n
  BY <1>1, WritesOne
<1> DEFINE d == crdSt.cards[n]
           c == ShownCard(d)
           w == K!Shown(crdSt)
           e == [w EXCEPT !.cards[n].closed = TRUE, !.cards[n].outbox = <<>>]
           s == IF crdRun.ends THEN e ELSE w
           k == [c EXCEPT !.closed = TRUE, !.outbox = <<>>]
           g == IF crdRun.ends THEN k ELSE c
<1>3. K!Loop(s, n)
  BY <1>2 DEF K!Appended
<1>4. /\ Recarded(crdSt, n, c, w)
      /\ c \in Card /\ c.phase = "writing" /\ ~c.closed /\ ~d.closed
      /\ d.phase = "writing"
      /\ c.outbox = d.outbox /\ c.said = d.said
      /\ c.ending = d.ending /\ c.closed = d.closed
      /\ Len(c.outbox) <= Room /\ Numbered(c.shown, 0)
      /\ Numbered(c.outbox, Len(c.shown)) /\ c.said = Len(c.shown) + Len(c.outbox)
      /\ crdRun.ends => c.end = "end" /\ c.outbox = <<>>
      /\ ~crdRun.ends => c.end = "none"
  BY <1>1, <1>2, ShownSound
<1> HIDE DEF d, c, w
<1>5. w \in Recipient /\ w.cards[n] = c /\ w.cards \in [K!Numbers -> Card]
  BY <1>4 DEF Recarded, Recipient
<1>6. /\ k \in Card /\ k.closed = TRUE /\ k.outbox = <<>> /\ k.shown = c.shown /\ k.end = c.end
      /\ k.phase = c.phase /\ k.ending = c.ending /\ k.said = c.said
  <2>1. <<>> \in Seq(Nat)
    OBVIOUS
  <2> QED BY <1>4, <2>1 DEF Card
<1>7. e = [w EXCEPT !.cards[n] = k]
  <2> DEFINE f == w.cards
             f1 == [f EXCEPT ![n].closed = TRUE]
             f2 == [f1 EXCEPT ![n].outbox = <<>>]
             a1 == [w EXCEPT !.cards[n].closed = TRUE]
             a2 == [a1 EXCEPT !.cards[n].outbox = <<>>]
  <2>1. f2 = [f EXCEPT ![n] = k]
    <3>1. f1 = [f EXCEPT ![n] = [f[n] EXCEPT !.closed = TRUE]]
      BY <1>5
    <3> QED BY <1>4, <1>5, <3>1 DEF Card
  <2>2. [w EXCEPT !.cards[n] = k] = [w EXCEPT !.cards = [f EXCEPT ![n] = k]]
    <3> HIDE DEF k
    <3> QED BY <1>5 DEF Recipient
  <2>3. e = a2
    OBVIOUS
  <2>4. a1.cards = f1 /\ a1 = [w EXCEPT !.cards = f1]
    BY <1>5 DEF Recipient
  <2> HIDE DEF e, k, a1, f1
  <2>5. a2 = [w EXCEPT !.cards = f2]
    BY <1>5, <2>4 DEF Recipient
  <2> QED BY <2>1, <2>2, <2>3, <2>5
<1> HIDE DEF k, e
<1>8. Recarded(w, n, k, e)
  BY <1>5, <1>6, <1>7, Recard
<1>9. Recarded(crdSt, n, k, e)
  BY <1>4, <1>8 DEF Recarded
<1>10. /\ Recarded(crdSt, n, g, s) /\ g.phase = "writing" /\ g.ending = d.ending
       /\ g.closed = d.closed \/ g.closed = TRUE
  BY <1>4, <1>6, <1>9
<1>11. K!NoRun \in CardsWrite /\ K!NoRun.card = 0 /\ K!NoRun.step = "idle" /\ n # 0
  BY NoRunWrite DEF K!Numbers
<1>12. CardsInFlight(K!NoRun, n) = <<>> /\ Writes(g, K!NoRun, n) /\ Len(<<>>) = 0
  BY <1>11 DEF CardsInFlight, Writes
<1>13. Tells(g, <<>>)
  <2>1. Len(c.shown) \in Nat /\ Len(c.outbox) \in Nat
    BY <1>4 DEF Card
  <2>2. Len(c.shown) + 0 = Len(c.shown) /\ Len(c.shown) + 0 + Len(c.outbox) = Len(c.shown) + Len(c.outbox)
    BY <2>1
  <2>3. Numbered(<<>>, Len(c.shown))
    BY <1>12 DEF Numbered
  <2>4. CASE ~crdRun.ends
    <3>1. g = c
      BY <2>4
    <3>2. Tells(c, <<>>)
      BY <1>4, <1>12, <2>2, <2>3, <2>4 DEF Tells
    <3> QED BY <3>1, <3>2
  <2>5. CASE crdRun.ends
    <3>1. g = k
      BY <2>5
    <3>2. c.said = Len(c.shown)
      <4>1. c.outbox = <<>> /\ c.said = Len(c.shown) + Len(c.outbox)
        BY <1>4, <2>5
      <4> QED BY <1>12, <2>1, <4>1
    <3>3. Numbered(k.outbox, Len(k.shown) + Len(<<>>)) /\ Len(k.outbox) <= Room
      BY <1>6, <1>12 DEF Numbered, K!CardsAssumption
    <3>4. Tells(k, <<>>)
      BY <1>4, <1>6, <1>12, <2>3, <2>5, <3>2, <3>3 DEF Tells
    <3> QED BY <3>1, <3>4
  <2> QED BY <2>4, <2>5
<1> HIDE DEF g, s
<1>14. CardsMoves(crdSt, n, g, s)
  BY <1>4, <1>10 DEF CardsMoves, d
<1>15. Sound(s, K!NoRun) /\ OpenAt(s) /\ s.active = crdSt.active /\ s.anchor = crdSt.anchor
  <2>1. (K!NoRun.step = "idle" <=> K!NoRun.card = 0) /\ K!NoRun.card \in {0, n}
    BY <1>11
  <2>2. Tells(g, CardsInFlight(K!NoRun, n)) /\ (crdSt.cards[n].phase = "writing" => g.phase = "writing")
    BY <1>10, <1>12, <1>13
  <2> QED BY <1>1, <1>2, <1>11, <1>12, <1>14, <2>1, <2>2, WriteSound, ZenonT(30)
<1>16. n <= s.used /\ s.cards[n].phase = "writing"
  <2>1. n <= crdSt.used
    BY <1>1, <1>2, WritesOne DEF Holds
  <2> QED BY <1>10, <2>1 DEF Recarded
<1>17. Sound(crdSt', crdRun') /\ OpenAt(crdSt') /\ crdSt'.active = s.active /\ crdSt'.anchor = s.anchor
  BY <1>3, <1>15, <1>16, LoopSound
<1> QED BY <1>15, <1>17 DEF Holds, Kept

LEMMA AppendFailsSound ==
  ASSUME K!CardsAssumption, Holds(crdSt, crdRun), K!AppendFails
  PROVE  Holds(crdSt', crdRun') /\ Kept(crdSt, crdSt')
<1>1. crdRun.step = "append" /\ Sound(crdSt, crdRun) /\ OpenAt(crdSt)
  BY DEF K!AppendFails, Holds
<1>2. /\ crdRun.card \in K!Numbers /\ crdSt \in Recipient /\ crdRun \in CardsWrite /\ crdSt.cards[crdRun.card] \in Card
      /\ CardAt(crdSt, crdRun, crdRun.card)
  BY <1>1, WritesOne
<1>3. PICK n \in K!Numbers : crdRun.card = n
  BY <1>2
<1> DEFINE q == [crdRun EXCEPT !.step = "failing"]
           c == ShownCard(crdSt.cards[n])
<1>4. PICK e \in {crdSt, K!Shown(crdSt)} : crdSt' = K!Abandon(e, n)
  BY <1>3 DEF K!AppendFails
<1>5. crdRun' = q /\ q \in CardsWrite /\ q.card = n /\ q.step = "failing" /\ n # 0
  BY <1>2, <1>3 DEF K!AppendFails, CardsWrite, K!Numbers
<1> HIDE DEF q
<1>6. /\ Recarded(crdSt, n, c, K!Shown(crdSt))
      /\ c \in Card /\ c.phase = "writing" /\ ~c.closed /\ ~crdSt.cards[n].closed
      /\ crdSt.cards[n].phase = "writing"
      /\ c.outbox = crdSt.cards[n].outbox /\ c.said = crdSt.cards[n].said
      /\ c.ending = crdSt.cards[n].ending /\ c.closed = crdSt.cards[n].closed
      /\ Len(c.outbox) <= Room /\ Numbered(c.shown, 0)
      /\ Numbered(c.outbox, Len(c.shown)) /\ c.said = Len(c.shown) + Len(c.outbox)
      /\ crdRun.ends => c.end = "end" /\ c.outbox = <<>>
      /\ ~crdRun.ends => c.end = "none"
  BY <1>1, <1>3, ShownSound
<1> HIDE DEF c
<1>7. Given(c)
  <2>1. c.outbox = <<>> => c.said = Len(c.shown)
    <3>1. Len(c.shown) \in Nat /\ Len(<<>>) = 0
      BY <1>6 DEF Card
    <3> QED BY <1>6, <3>1
  <2> QED BY <1>6, <2>1 DEF Given
<1>8. Given(crdSt.cards[n])
  <2>1. Tells(crdSt.cards[n], CardsInFlight(crdRun, n))
    BY <1>2, <1>3 DEF CardAt
  <2> QED BY <1>2, <1>3, <1>6, <2>1 DEF Given, Tells
<1>9. \E d : /\ Given(d) /\ Recarded(crdSt, n, d, e)
             /\ d.phase = crdSt.cards[n].phase /\ d.ending = crdSt.cards[n].ending
  <2>1. CASE e = crdSt
    <3>1. Recarded(crdSt, n, crdSt.cards[n], crdSt)
      BY <1>2, RecardSame
    <3> QED BY <1>8, <2>1, <3>1
  <2>2. CASE e = K!Shown(crdSt)
    BY <1>6, <1>7, <2>2
  <2> QED BY <1>4, <2>1, <2>2
<1>10. PICK d : /\ Given(d) /\ Recarded(crdSt, n, d, e)
                /\ d.phase = crdSt.cards[n].phase /\ d.ending = crdSt.cards[n].ending
  BY <1>9
<1>11. /\ (q.step = "idle" <=> q.card = 0) /\ q.card \in {0, n} /\ q.step \in {"idle", "failing"}
       /\ q.step = "failing" => d.phase = "writing"
  BY <1>5, <1>6, <1>10
<1>12. LET t == K!Abandon(e, n) IN
       Sound(t, q) /\ OpenAt(t) /\ t.active \in {0, crdSt.active} /\ t.anchor = crdSt.anchor
  BY <1>1, <1>3, <1>5, <1>10, <1>11, AbandonSound
<1> QED BY <1>4, <1>5, <1>12 DEF Holds, Kept

LEMMA CreatedSound ==
  ASSUME K!CardsAssumption, Holds(crdSt, crdRun), K!Created
  PROVE  Holds(crdSt', crdRun') /\ Kept(crdSt, crdSt')
<1>1. crdRun.step = "create" /\ Sound(crdSt, crdRun) /\ OpenAt(crdSt)
  BY DEF K!Created, Holds
<1>2. /\ crdRun.card \in K!Numbers /\ crdSt \in Recipient /\ crdRun \in CardsWrite /\ crdSt.cards[crdRun.card] \in Card
      /\ CardAt(crdSt, crdRun, crdRun.card) /\ crdRun.card <= crdSt.used
  BY <1>1, WritesOne
<1>3. PICK n \in K!Numbers : crdRun.card = n
  BY <1>2
<1> DEFINE d == crdSt.cards[n]
           s == [crdSt EXCEPT !.cards[n].phase = "writing"]
           c == [d EXCEPT !.phase = "writing"]
<1>4. /\ d \in Card /\ d.phase = "creating" /\ ~d.closed /\ CardsInFlight(crdRun, n) = <<>> /\ Tells(d, <<>>)
      /\ n <= crdSt.used /\ n # 0
  BY <1>1, <1>2, <1>3 DEF CardAt, Writes, CardsInFlight, K!Numbers
<1>5. K!NoRun \in CardsWrite /\ K!NoRun.card = 0 /\ K!NoRun.step = "idle"
  BY NoRunWrite
<1>6. (K!NoRun.step = "idle" <=> K!NoRun.card = 0) /\ K!NoRun.card \in {0, n} /\ K!NoRun.step \in {"idle", "failing"}
  BY <1>5
<1>7. ASSUME K!Loop(s, n)
      PROVE  Holds(crdSt', crdRun') /\ Kept(crdSt, crdSt')
  <2>1. s = [crdSt EXCEPT !.cards[n] = c]
    BY <1>2, <1>4 DEF Recipient, Card
  <2>2. /\ c \in Card /\ c.phase = "writing" /\ c.outbox = d.outbox /\ c.said = d.said
        /\ c.shown = d.shown /\ c.end = d.end /\ c.closed = d.closed /\ c.ending = d.ending
    <3> HIDE DEF d
    <3> QED BY <1>4 DEF Card
  <2> HIDE DEF c, s
  <2>3. Recarded(crdSt, n, c, s)
    BY <1>2, <2>1, <2>2, Recard
  <2>4. CardsInFlight(K!NoRun, n) = <<>> /\ Writes(c, K!NoRun, n)
    BY <1>4, <1>5 DEF CardsInFlight, Writes
  <2>5. Tells(c, CardsInFlight(K!NoRun, n))
    BY <1>4, <2>2, <2>4 DEF Tells
  <2>6. CardsMoves(crdSt, n, c, s)
    <3>1. c.phase # "unborn" /\ crdSt.cards[n].phase # "unborn"
      BY <1>4, <2>2
    <3> QED BY <2>2, <2>3, <3>1 DEF CardsMoves
  <2>7. Sound(s, K!NoRun) /\ OpenAt(s) /\ s.active = crdSt.active /\ s.anchor = crdSt.anchor
    <3>1. crdSt.cards[n].phase = "writing" => c.phase = "writing"
      BY <2>2
    <3> QED BY <1>1, <1>3, <1>5, <1>6, <2>4, <2>5, <2>6, <3>1, WriteSound, ZenonT(30)
  <2>8. n <= s.used /\ s.cards[n].phase = "writing"
    BY <1>4, <2>2, <2>3 DEF Recarded
  <2>9. Sound(crdSt', crdRun') /\ OpenAt(crdSt') /\ crdSt'.active = s.active /\ crdSt'.anchor = s.anchor
    BY <1>7, <2>7, <2>8, LoopSound DEF s
  <2> QED BY <2>7, <2>9 DEF Holds, Kept
<1>8. ASSUME crdRun' = K!NoRun, crdSt' = K!Reap(K!Abandon(crdSt, n), Len(crdSt.tail))
      PROVE  Holds(crdSt', crdRun') /\ Kept(crdSt, crdSt')
  <2> DEFINE t == K!Abandon(crdSt, n)
  <2>1. Recarded(crdSt, n, d, crdSt)
    BY <1>2, RecardSame
  <2>2. Given(d)
    BY <1>4 DEF Given, Tells
  <2>3. /\ d.phase = crdSt.cards[n].phase /\ d.ending = crdSt.cards[n].ending
        /\ K!NoRun.step = "failing" => d.phase = "writing"
    BY <1>5
  <2>4. Sound(t, K!NoRun) /\ OpenAt(t) /\ t.active \in {0, crdSt.active} /\ t.anchor = crdSt.anchor
    BY <1>1, <1>3, <1>5, <1>6, <2>1, <2>2, <2>3, AbandonSound, ZenonT(30)
  <2> HIDE DEF t
  <2>5. LET u == K!Reap(t, Len(crdSt.tail)) IN
        Sound(u, K!NoRun) /\ OpenAt(u) /\ u.active = t.active /\ u.anchor = t.anchor
    BY <2>4, ReapSound
  <2> QED BY <1>8, <2>4, <2>5 DEF Holds, Kept, t
<1>9. \/ K!Loop(s, n)
      \/ crdRun' = K!NoRun /\ crdSt' = K!Reap(K!Abandon(crdSt, n), Len(crdSt.tail))
  BY <1>3 DEF K!Created
<1> QED BY <1>7, <1>8, <1>9

LEMMA ErrorCompletedSound ==
  ASSUME K!CardsAssumption, Holds(crdSt, crdRun), K!ErrorCompleted
  PROVE  Holds(crdSt', crdRun') /\ Kept(crdSt, crdSt')
<1>1. crdRun.step = "failing" /\ Sound(crdSt, crdRun) /\ OpenAt(crdSt)
  BY DEF K!ErrorCompleted, Holds
<1>2. /\ crdRun.card \in K!Numbers /\ crdSt \in Recipient /\ crdRun \in CardsWrite /\ crdSt.cards[crdRun.card] \in Card
      /\ CardAt(crdSt, crdRun, crdRun.card) /\ crdRun.card <= crdSt.used
  BY <1>1, WritesOne
<1>3. PICK n \in K!Numbers : crdRun.card = n
  BY <1>2
<1> DEFINE d == crdSt.cards[n]
           c == [d EXCEPT !.end = "error"]
<1>4. PICK s : /\ s \in {crdSt, [crdSt EXCEPT !.cards[n].end = "error"]}
               /\ crdSt' = K!Reap(s, Len(crdSt.tail))
  BY <1>3 DEF K!ErrorCompleted
<1>5. /\ d \in Card /\ d.closed /\ CardsInFlight(crdRun, n) = <<>> /\ Tells(d, <<>>)
      /\ n <= crdSt.used /\ n # 0 /\ d.phase = "writing"
  BY <1>1, <1>2, <1>3 DEF CardAt, Writes, CardsInFlight, K!Numbers
<1>6. crdRun' = K!NoRun
  BY DEF K!ErrorCompleted
<1>7. K!NoRun \in CardsWrite /\ K!NoRun.card = 0 /\ K!NoRun.step = "idle"
  BY NoRunWrite
<1>8. CardsInFlight(K!NoRun, n) = <<>> /\ Len(<<>>) = 0
  BY <1>5, <1>7 DEF CardsInFlight
<1>9. \E g : /\ Recarded(crdSt, n, g, s) /\ Tells(g, <<>>) /\ g.phase = "writing"
             /\ g.closed = d.closed /\ g.ending = d.ending
  <2>1. CASE s = crdSt
    <3>1. Recarded(crdSt, n, d, crdSt)
      BY <1>2, RecardSame
    <3> QED BY <1>5, <2>1, <3>1
  <2>2. CASE s = [crdSt EXCEPT !.cards[n].end = "error"]
    <3>1. s = [crdSt EXCEPT !.cards[n] = c]
      BY <1>2, <1>5, <2>2 DEF Recipient, Card
    <3>2. /\ c \in Card /\ c.phase = d.phase /\ c.outbox = d.outbox /\ c.said = d.said
          /\ c.shown = d.shown /\ c.end = "error" /\ c.closed = d.closed /\ c.ending = d.ending
      <4> HIDE DEF d
      <4> QED BY <1>5 DEF Card
    <3> HIDE DEF c
    <3>3. Recarded(crdSt, n, c, s)
      BY <1>2, <3>1, <3>2, Recard
    <3>4. Tells(c, <<>>)
      BY <1>5, <3>2 DEF Tells
    <3> QED BY <1>5, <3>2, <3>3, <3>4
  <2> QED BY <1>4, <2>1, <2>2
<1>10. PICK g : /\ Recarded(crdSt, n, g, s) /\ Tells(g, <<>>) /\ g.phase = "writing"
                /\ g.closed = d.closed /\ g.ending = d.ending
  BY <1>9
<1>11. CardsMoves(crdSt, n, g, s)
  BY <1>5, <1>10 DEF CardsMoves
<1>12. Writes(g, K!NoRun, n)
  BY <1>5, <1>7 DEF Writes
<1>13. Sound(s, K!NoRun) /\ OpenAt(s) /\ s.active = crdSt.active /\ s.anchor = crdSt.anchor
  <2>1. (K!NoRun.step = "idle" <=> K!NoRun.card = 0) /\ K!NoRun.card \in {0, n}
    BY <1>7
  <2>2. (crdSt.cards[n].phase = "writing" => g.phase = "writing") /\ Tells(g, CardsInFlight(K!NoRun, n))
    BY <1>8, <1>10
  <2> QED BY <1>1, <1>3, <1>7, <1>11, <1>12, <2>1, <2>2, WriteSound
<1>14. LET u == K!Reap(s, Len(crdSt.tail)) IN
       Sound(u, K!NoRun) /\ OpenAt(u) /\ u.active = s.active /\ u.anchor = s.anchor
  BY <1>13, ReapSound
<1> QED BY <1>4, <1>6, <1>13, <1>14 DEF Holds, Kept
----------------------------------------
\* The invariant, step by step.

FenceAt(f, s) ==
  /\ f \in [leader : BOOLEAN, targets : SUBSET K!Targets]
  /\ f.leader => s.active = 0 /\ s.anchor = Nothing
RestAt(c, b, p) == c \in {"open", "draining", "aborted"} /\ b \subseteq Messages /\ p \subseteq b

LEMMA CardsInvParts ==
  CardsInv <=> Holds(crdSt, crdRun) /\ FenceAt(crdFence, crdSt) /\ RestAt(crdClosing, crdBegun, crdPending)
BY DEF CardsInv, Holds, FenceAt, FenceInv, RestAt

LEMMA CardsInvPrime ==
  ASSUME Holds(crdSt', crdRun'), FenceAt(crdFence', crdSt'), RestAt(crdClosing', crdBegun', crdPending')
  PROVE  CardsInv'
<1>1. FenceInv'
  BY DEF FenceAt, FenceInv
<1>2. Sound(crdSt, crdRun)'
  BY DEF Holds
<1>3. OpenAt(crdSt)'
  BY DEF Holds
<1> QED BY <1>1, <1>2, <1>3 DEF CardsInv, RestAt

\* A step that opens nothing keeps the fence.
LEMMA FenceKept ==
  ASSUME NEW f, NEW s, NEW t, FenceAt(f, s), s.active = 0 /\ s.anchor = Nothing => t.active = 0 /\ t.anchor = Nothing
  PROVE  FenceAt(f, t)
BY DEF FenceAt

LEMMA CardsInit == ASSUME K!CardsAssumption, K!Init
                   PROVE  CardsInv
<1>1. 0 \in 0..Cards /\ <<>> \in Seq(Nat) /\ <<>> \in Seq(CardTask) /\ Len(<<>>) = 0 /\ 0 <= Room
  BY DEF K!CardsAssumption
<1>2. K!NewCard \in Card
  BY <1>1 DEF K!NewCard, Card
<1>3. crdSt \in Recipient /\ crdRun \in CardsWrite
  BY <1>1, <1>2 DEF K!Init, K!NoState, K!NoRun, Recipient, CardsWrite
<1>4. /\ crdRun.card = 0 /\ crdRun.step = "idle" /\ crdSt.used = 0 /\ crdSt.active = 0 /\ crdSt.anchor = Nothing
      /\ crdSt.tail = <<>> /\ \A n \in K!Numbers : crdSt.cards[n] = K!NewCard
  BY DEF K!Init, K!NoState, K!NoRun
<1>5. /\ K!NewCard.phase = "unborn" /\ K!NewCard.outbox = <<>> /\ K!NewCard.shown = <<>> /\ K!NewCard.said = 0
      /\ K!NewCard.end = "none" /\ ~K!NewCard.closed /\ ~K!NewCard.ending
  BY DEF K!NewCard
<1>6. Tells(K!NewCard, <<>>)
  <2>1. Numbered(<<>>, 0) /\ Numbered(<<>>, 0 + 0) /\ 0 = 0 + 0 + 0
    BY <1>1 DEF Numbered
  <2>2. Len(K!NewCard.outbox) = 0 /\ Len(K!NewCard.shown) = 0
    BY <1>1, <1>5
  <2> QED BY <1>1, <1>5, <2>1, <2>2 DEF Tells
<1>7. \A n \in K!Numbers : CardAt(crdSt, crdRun, n)
  <2> SUFFICES ASSUME NEW n \in K!Numbers
               PROVE  CardAt(crdSt, crdRun, n)
    OBVIOUS
  <2>1. n # 0 /\ n > 0 /\ crdSt.cards[n] = K!NewCard
    BY <1>4 DEF K!Numbers
  <2>2. CardsInFlight(crdRun, n) = <<>> /\ Writes(K!NewCard, crdRun, n)
    BY <1>4, <2>1 DEF CardsInFlight, Writes
  <2> QED BY <1>4, <1>5, <1>6, <2>1, <2>2 DEF CardAt
<1>8. Sound(crdSt, crdRun)
  BY <1>1, <1>3, <1>4, <1>7 DEF Sound
<1>9. OpenAt(crdSt)
  BY <1>4, <1>5 DEF OpenAt
<1>10. FenceInv /\ crdClosing \in {"open", "draining", "aborted"} /\ crdBegun \subseteq Messages /\ crdPending \subseteq crdBegun
  BY <1>4 DEF K!Init, FenceInv
<1> QED BY <1>8, <1>9, <1>10 DEF CardsInv

LEMMA WriterKeeps ==
  ASSUME K!CardsAssumption, CardsInv, K!Writer
  PROVE  CardsInv'
<1>1. Holds(crdSt, crdRun) /\ FenceAt(crdFence, crdSt) /\ RestAt(crdClosing, crdBegun, crdPending)
  BY CardsInvParts
<1>2. Holds(crdSt', crdRun') /\ Kept(crdSt, crdSt')
  BY <1>1, TaskStartsSound, CreatedSound, TakeBatchSound, AppendedSound, AppendFailsSound,
     ErrorCompletedSound DEF K!Writer
<1>3. UNCHANGED <<crdFence, crdBegun, crdPending, crdClosing>>
  BY DEF K!Writer, K!TaskStarts, K!Created, K!TakeBatch, K!Appended, K!AppendFails,
     K!ErrorCompleted
<1>4. FenceAt(crdFence', crdSt')
  <2>1. crdSt.active = 0 /\ crdSt.anchor = Nothing => crdSt'.active = 0 /\ crdSt'.anchor = Nothing
    BY <1>2 DEF Kept
  <2> QED BY <1>1, <1>3, <2>1, FenceKept
<1>5. RestAt(crdClosing', crdBegun', crdPending')
  BY <1>1, <1>3
<1> QED BY <1>2, <1>4, <1>5, CardsInvPrime

\* A change of the fields beside the cards, of a recipient that stays what it was.
LEMMA FieldsSound ==
  ASSUME NEW s, NEW r, Holds(s, r), NEW t, t \in Recipient, t.cards = s.cards, t.used = s.used,
         t.tail = s.tail, t.active = s.active, ~t.there => t.active = 0 /\ t.anchor = Nothing
  PROVE  Holds(t, r)
<1>1. Sound(t, r)
  BY SoundSame DEF Holds
<1>2. OpenAt(t)
  BY DEF Holds, OpenAt, K!Ending
<1> QED BY <1>1, <1>2 DEF Holds

LEMMA EnsureHolds ==
  ASSUME NEW s, NEW r, Holds(s, r)
  PROVE  LET t == K!Ensure(s) IN
         /\ Holds(t, r) /\ t.there = TRUE /\ t.anchor = s.anchor /\ t.active = s.active
         /\ t.used = s.used
<1> DEFINE t == K!Ensure(s)
<1>1. s \in Recipient
  BY DEF Holds, Sound
<1>2. /\ t \in Recipient /\ t.cards = s.cards /\ t.used = s.used /\ t.tail = s.tail
      /\ t.active = s.active /\ t.anchor = s.anchor /\ t.there = TRUE
  BY <1>1 DEF K!Ensure, Recipient
<1> HIDE DEF t
<1>3. Holds(t, r)
  BY <1>2, FieldsSound
<1> QED BY <1>2, <1>3 DEF t

LEMMA BeginKeeps ==
  ASSUME K!CardsAssumption, CardsInv, NEW m \in Messages, K!BeginInboundSubmission(m)
  PROVE  CardsInv'
<1>1. Holds(crdSt, crdRun) /\ FenceAt(crdFence, crdSt) /\ RestAt(crdClosing, crdBegun, crdPending)
  BY CardsInvParts
<1> DEFINE s == K!Ensure(crdSt)
           u == K!AdvanceAnchor(s, m)
           t == K!Accept(u, 1)
<1>2. /\ crdSt' = t /\ crdSt.used < Cards /\ ~crdFence.leader
      /\ crdBegun' = crdBegun \cup {m} /\ crdPending' = crdPending \cup {m}
      /\ UNCHANGED <<crdRun, crdFence, crdClosing>>
  BY DEF K!BeginInboundSubmission, K!Blocked
<1>3. Holds(s, crdRun) /\ s.there = TRUE /\ s.used = crdSt.used
  BY <1>1, EnsureHolds
<1> HIDE DEF s
<1>4. Sound(u, crdRun) /\ OpenAt(u) /\ u.used = s.used
  BY <1>3, AdvanceSound DEF Holds
<1> HIDE DEF u
<1>5. Sound(t, crdRun) /\ OpenAt(t)
  BY <1>2, <1>3, <1>4, AcceptSound
<1> HIDE DEF t
<1>6. Holds(crdSt', crdRun')
  BY <1>2, <1>5 DEF Holds
<1>7. FenceAt(crdFence', crdSt')
  BY <1>1, <1>2 DEF FenceAt
<1>8. RestAt(crdClosing', crdBegun', crdPending')
  BY <1>1, <1>2 DEF RestAt
<1> QED BY <1>6, <1>7, <1>8, CardsInvPrime

\* The anchor is given up: nothing is open, and nothing can be opened.
LEMMA GivenUp ==
  ASSUME K!CardsAssumption, Holds(crdSt, crdRun)
  PROVE  LET t == K!AdvanceAnchor(crdSt, Nothing) IN
         Holds(t, crdRun) /\ t.active = 0 /\ t.anchor = Nothing
BY AdvanceSound DEF Holds

LEMMA RetireKeeps ==
  ASSUME K!CardsAssumption, CardsInv, NEW m \in Messages, K!Retire(m) \/ K!Release(m)
  PROVE  CardsInv'
<1>1. Holds(crdSt, crdRun) /\ FenceAt(crdFence, crdSt) /\ RestAt(crdClosing, crdBegun, crdPending)
  BY CardsInvParts
<1>2. /\ crdSt' = crdSt \/ crdSt' = K!AdvanceAnchor(crdSt, Nothing)
      /\ crdPending' = crdPending \ {m} /\ UNCHANGED <<crdRun, crdFence, crdBegun, crdClosing>>
  BY DEF K!Retire, K!Release
<1>3. Holds(crdSt', crdRun') /\ (crdSt' = crdSt \/ (crdSt'.active = 0 /\ crdSt'.anchor = Nothing))
  BY <1>1, <1>2, GivenUp
<1>4. FenceAt(crdFence', crdSt')
  BY <1>1, <1>2, <1>3 DEF FenceAt
<1>5. RestAt(crdClosing', crdBegun', crdPending')
  BY <1>1, <1>2 DEF RestAt
<1> QED BY <1>3, <1>4, <1>5, CardsInvPrime

LEMMA FallbackKeeps ==
  ASSUME K!CardsAssumption, CardsInv, NEW m \in Messages, K!SetFallbackAnchorIfAbsent(m)
  PROVE  CardsInv'
<1>1. Holds(crdSt, crdRun) /\ FenceAt(crdFence, crdSt) /\ RestAt(crdClosing, crdBegun, crdPending)
  BY CardsInvParts
<1> DEFINE s == K!Ensure(crdSt)
           t == [s EXCEPT !.anchor = m]
<1>2. /\ crdSt' = t \/ crdSt' = s
      /\ ~crdFence.leader /\ UNCHANGED <<crdRun, crdFence, crdBegun, crdPending, crdClosing>>
  BY DEF K!SetFallbackAnchorIfAbsent, K!Blocked
<1>3. Holds(s, crdRun) /\ s.there = TRUE
  BY <1>1, EnsureHolds
<1> HIDE DEF s
<1>4. s \in Recipient
  BY <1>3 DEF Holds, Sound
<1>5. /\ t \in Recipient /\ t.cards = s.cards /\ t.used = s.used /\ t.tail = s.tail
      /\ t.active = s.active /\ t.there = TRUE
  BY <1>3, <1>4 DEF Recipient
<1> HIDE DEF t
<1>6. Holds(t, crdRun)
  BY <1>3, <1>5, FieldsSound
<1>7. Holds(crdSt', crdRun')
  BY <1>2, <1>3, <1>6
<1>8. FenceAt(crdFence', crdSt')
  BY <1>1, <1>2 DEF FenceAt
<1>9. RestAt(crdClosing', crdBegun', crdPending')
  BY <1>1, <1>2
<1> QED BY <1>7, <1>8, <1>9, CardsInvPrime

\* What the agent does.
LEMMA AcceptHolds ==
  ASSUME K!CardsAssumption, Holds(crdSt, crdRun), FenceAt(crdFence, crdSt), crdSt.active # 0 \/ K!MayOpen
  PROVE  LET t == K!Accept(crdSt, 1) IN
         /\ Holds(t, crdRun) /\ Beside(crdSt, t) /\ FenceAt(crdFence, t)
         /\ t # crdSt => t.active # 0
<1> DEFINE t == K!Accept(crdSt, 1)
<1>1. crdSt.active = 0 /\ crdSt.anchor # Nothing => crdSt.used < Cards
  BY DEF K!MayOpen
<1>2. /\ Sound(t, crdRun) /\ OpenAt(t) /\ Beside(crdSt, t)
      /\ crdSt.active = 0 /\ crdSt.anchor = Nothing => t = crdSt
      /\ t # crdSt => t.active # 0
  BY <1>1, AcceptSound DEF Holds
<1> HIDE DEF t
<1>3. FenceAt(crdFence, t)
  BY <1>2 DEF FenceAt
<1> QED BY <1>2, <1>3 DEF Holds, t

LEMMA InputKeeps ==
  ASSUME K!CardsAssumption, CardsInv, NEW m \in Messages, K!Input(m)
  PROVE  CardsInv'
<1>1. Holds(crdSt, crdRun) /\ FenceAt(crdFence, crdSt) /\ RestAt(crdClosing, crdBegun, crdPending)
  BY CardsInvParts
<1>2. UNCHANGED <<crdRun, crdFence, crdBegun, crdClosing>> /\ crdPending' \subseteq crdPending
  BY DEF K!Input
<1>3. crdSt' = crdSt \/ (K!MayOpen /\ crdSt' = K!Accept(crdSt, 1))
  BY DEF K!Input
<1>4. Holds(crdSt', crdRun') /\ FenceAt(crdFence', crdSt')
  BY <1>1, <1>2, <1>3, AcceptHolds
<1>5. RestAt(crdClosing', crdBegun', crdPending')
  BY <1>1, <1>2 DEF RestAt
<1> QED BY <1>4, <1>5, CardsInvPrime

LEMMA ReasonKeeps ==
  ASSUME K!CardsAssumption, CardsInv, NEW ends \in BOOLEAN, K!Reason(ends)
  PROVE  CardsInv'
<1>1. Holds(crdSt, crdRun) /\ FenceAt(crdFence, crdSt) /\ RestAt(crdClosing, crdBegun, crdPending)
  BY CardsInvParts
<1> DEFINE s == K!Accept(crdSt, 1)
           t == [s EXCEPT !.cards[s.active].thinking = ~ends]
<1>2. /\ crdSt' = IF s # crdSt /\ s.active # 0 THEN t ELSE s
      /\ K!MayOpen /\ UNCHANGED <<crdRun, crdFence, crdBegun, crdPending, crdClosing>>
  BY DEF K!Reason
<1>3. Holds(s, crdRun) /\ FenceAt(crdFence, s)
  BY <1>1, <1>2, AcceptHolds
<1> HIDE DEF s
<1>4. ASSUME s.active # 0
      PROVE  Holds(t, crdRun) /\ FenceAt(crdFence, t)
  <2>1. Sound(t, crdRun) /\ OpenAt(t) /\ Beside(s, t) /\ t.active = s.active
    BY <1>3, <1>4, ThinkSound DEF Holds
  <2> QED BY <1>3, <1>4, <2>1 DEF Holds, FenceAt
<1> HIDE DEF t
<1>5. Holds(crdSt', crdRun') /\ FenceAt(crdFence', crdSt')
  BY <1>2, <1>3, <1>4
<1>6. RestAt(crdClosing', crdBegun', crdPending')
  BY <1>1, <1>2
<1> QED BY <1>5, <1>6, CardsInvPrime

\* The calls under way change, and nothing else.
LEMMA CallsHold ==
  ASSUME NEW s, NEW r, Holds(s, r), NEW f, FenceAt(f, s), NEW x \in {"none", "here", "earlier"}
  PROVE  LET t == [s EXCEPT !.calls = x] IN
         /\ Holds(t, r) /\ FenceAt(f, t) /\ t.active = s.active /\ t.anchor = s.anchor
         /\ t.used = s.used /\ t.there = s.there
<1> DEFINE t == [s EXCEPT !.calls = x]
<1>1. s \in Recipient /\ OpenAt(s)
  BY DEF Holds, Sound
<1>2. /\ t \in Recipient /\ t.cards = s.cards /\ t.used = s.used /\ t.tail = s.tail
      /\ t.active = s.active /\ t.anchor = s.anchor /\ t.there = s.there
  BY <1>1 DEF Recipient
<1> HIDE DEF t
<1>3. Holds(t, r)
  BY <1>1, <1>2, FieldsSound DEF OpenAt
<1>4. FenceAt(f, t)
  BY <1>2 DEF FenceAt
<1> QED BY <1>2, <1>3, <1>4 DEF t

LEMMA ToolKeeps ==
  ASSUME K!CardsAssumption, CardsInv, K!ToolStarts \/ K!ToolEnds
  PROVE  CardsInv'
<1>1. Holds(crdSt, crdRun) /\ FenceAt(crdFence, crdSt) /\ RestAt(crdClosing, crdBegun, crdPending)
  BY CardsInvParts
<1>2. UNCHANGED <<crdRun, crdFence, crdBegun, crdPending, crdClosing>>
  BY DEF K!ToolStarts, K!ToolEnds
<1>3. PICK s, x : /\ s = crdSt \/ (s = K!Accept(crdSt, 1) /\ (crdSt.active # 0 \/ K!MayOpen))
                  /\ x \in {"none", "here", "earlier"}
                  /\ crdSt' = s \/ crdSt' = [s EXCEPT !.calls = x]
  BY DEF K!ToolStarts, K!ToolEnds
<1>4. Holds(s, crdRun) /\ FenceAt(crdFence, s)
  BY <1>1, <1>3, AcceptHolds
<1>c. LET t == [s EXCEPT !.calls = x] IN Holds(t, crdRun) /\ FenceAt(crdFence, t)
  BY <1>3, <1>4, CallsHold
<1>5. Holds(crdSt', crdRun') /\ FenceAt(crdFence', crdSt')
  BY <1>2, <1>3, <1>4, <1>c
<1>6. RestAt(crdClosing', crdBegun', crdPending')
  BY <1>1, <1>2
<1> QED BY <1>5, <1>6, CardsInvPrime

LEMMA DetachHolds ==
  ASSUME K!CardsAssumption, NEW s, NEW r, Holds(s, r)
  PROVE  LET t == K!Detach(s) IN
         Holds(t, r) /\ t.active = 0 /\ t.anchor = s.anchor
<1> DEFINE t == K!Detach(s)
<1>1. Detached(s, t, r)
  BY DetachSound DEF Holds
<1> HIDE DEF t
<1>2. t.active = 0 /\ t.anchor = s.anchor /\ t.there = s.there /\ Sound(t, r) /\ AllEnding(t)
  BY <1>1 DEF Detached
<1>3. t.used \in 0..Cards
  BY <1>2 DEF Sound, Recipient
<1>4. OpenAt(t)
  BY <1>2, <1>3 DEF OpenAt, AllEnding, Holds
<1> QED BY <1>2, <1>4 DEF Holds, t

LEMMA FinishKeeps ==
  ASSUME K!CardsAssumption, CardsInv, NEW reason \in BOOLEAN, K!FinishCard(reason)
  PROVE  CardsInv'
<1>1. Holds(crdSt, crdRun) /\ FenceAt(crdFence, crdSt) /\ RestAt(crdClosing, crdBegun, crdPending)
  BY CardsInvParts
<1> DEFINE told == IF reason /\ crdSt.anchor # Nothing THEN K!Accept(crdSt, 1) ELSE crdSt
           s == [told EXCEPT !.calls = "none"]
           d == K!Detach(s)
           t == K!Reap(d, K!Busy(d))
<1>2. crdSt' = t /\ crdSt.active # 0 /\ UNCHANGED <<crdRun, crdFence, crdBegun, crdPending, crdClosing>>
  BY DEF K!FinishCard
<1>3. Holds(told, crdRun) /\ FenceAt(crdFence, told)
  BY <1>1, <1>2, AcceptHolds
<1> HIDE DEF told
<1>4. Holds(s, crdRun) /\ FenceAt(crdFence, s)
  BY <1>3, CallsHold
<1> HIDE DEF s
<1>5. Holds(d, crdRun) /\ d.active = 0 /\ d.anchor = s.anchor
  BY <1>4, DetachHolds
<1> HIDE DEF d
<1>6. Sound(t, crdRun) /\ OpenAt(t) /\ t.active = d.active /\ t.anchor = d.anchor
  BY <1>5, ReapSound DEF Holds
<1> HIDE DEF t
<1>7. Holds(crdSt', crdRun')
  BY <1>2, <1>6 DEF Holds
<1>8. FenceAt(crdFence', crdSt')
  BY <1>2, <1>4, <1>5, <1>6 DEF FenceAt
<1>9. RestAt(crdClosing', crdBegun', crdPending')
  BY <1>1, <1>2
<1> QED BY <1>7, <1>8, <1>9, CardsInvPrime

LEMMA TeamKeeps ==
  ASSUME K!CardsAssumption, CardsInv, NEW state \in {"open", "closed"}, K!TeamState(state)
  PROVE  CardsInv'
<1>1. Holds(crdSt, crdRun) /\ FenceAt(crdFence, crdSt) /\ RestAt(crdClosing, crdBegun, crdPending)
  BY CardsInvParts
<1>2. UNCHANGED <<crdRun, crdBegun, crdPending, crdClosing>>
  BY DEF K!TeamState
<1>3. CASE state = "closed"
  <2>1. /\ crdFence' = [crdFence EXCEPT !.leader = TRUE]
        /\ crdSt' = IF crdSt.there THEN K!AdvanceAnchor(crdSt, Nothing) ELSE crdSt
    BY <1>3 DEF K!TeamState
  <2>2. Holds(crdSt', crdRun') /\ crdSt'.active = 0 /\ crdSt'.anchor = Nothing
    <3>1. ~crdSt.there => crdSt.active = 0 /\ crdSt.anchor = Nothing
      BY <1>1 DEF Holds, OpenAt
    <3> QED BY <1>1, <1>2, <2>1, <3>1, GivenUp
  <2>3. crdFence' \in [leader : BOOLEAN, targets : SUBSET K!Targets]
    BY <1>1, <2>1 DEF FenceAt
  <2> QED BY <1>1, <1>2, <2>2, <2>3, CardsInvPrime DEF FenceAt
<1>4. CASE state = "open"
  <2>1. crdSt' = crdSt /\ crdFence' = [leader |-> FALSE, targets |-> {}]
    BY <1>4 DEF K!TeamState
  <2>2. FenceAt(crdFence', crdSt')
    BY <2>1 DEF FenceAt
  <2> QED BY <1>1, <1>2, <2>1, <2>2, CardsInvPrime
<1> QED BY <1>3, <1>4

LEMMA RouteKeeps ==
  ASSUME K!CardsAssumption, CardsInv, NEW t \in K!Targets, K!OnRouteReleased(t) \/ K!OnRouteClaimed(t)
  PROVE  CardsInv'
<1>1. Holds(crdSt, crdRun) /\ FenceAt(crdFence, crdSt) /\ RestAt(crdClosing, crdBegun, crdPending)
  BY CardsInvParts
<1>2. /\ UNCHANGED <<crdRun, crdBegun, crdPending, crdClosing>>
      /\ crdSt' = crdSt \/ crdSt' = K!AdvanceAnchor(crdSt, Nothing)
      /\ \/ crdFence' = [crdFence EXCEPT !.targets = @ \union {t}]
         \/ crdFence' = [crdFence EXCEPT !.targets = @ \ {t}]
  BY DEF K!OnRouteReleased, K!OnRouteClaimed
<1>3. Holds(crdSt', crdRun') /\ (crdSt' = crdSt \/ (crdSt'.active = 0 /\ crdSt'.anchor = Nothing))
  BY <1>1, <1>2, GivenUp
<1>4. /\ crdFence' \in [leader : BOOLEAN, targets : SUBSET K!Targets] /\ crdFence'.leader = crdFence.leader
  BY <1>1, <1>2 DEF FenceAt
<1>5. FenceAt(crdFence', crdSt')
  BY <1>1, <1>3, <1>4 DEF FenceAt
<1> QED BY <1>1, <1>2, <1>3, <1>5, CardsInvPrime

LEMMA CloseKeeps ==
  ASSUME K!CardsAssumption, CardsInv, K!Close
  PROVE  CardsInv'
<1>1. Holds(crdSt, crdRun) /\ FenceAt(crdFence, crdSt) /\ RestAt(crdClosing, crdBegun, crdPending)
  BY CardsInvParts
<1> DEFINE s == [crdSt EXCEPT !.anchor = Nothing, !.holder = Nothing, !.calls = "none"]
<1>2. /\ UNCHANGED <<crdRun, crdFence, crdBegun, crdPending>> /\ crdClosing' = "draining" /\ crdSt' = K!Detach(s)
  BY DEF K!Close
<1>3. crdSt \in Recipient /\ OpenAt(crdSt)
  BY <1>1 DEF Holds, Sound
<1>4. /\ s \in Recipient /\ s.cards = crdSt.cards /\ s.used = crdSt.used /\ s.tail = crdSt.tail
      /\ s.active = crdSt.active /\ s.anchor = Nothing /\ s.there = crdSt.there
  BY <1>3 DEF Recipient
<1> HIDE DEF s
<1>5. Holds(s, crdRun)
  BY <1>1, <1>3, <1>4, FieldsSound DEF OpenAt
<1>6. Holds(crdSt', crdRun') /\ crdSt'.active = 0 /\ crdSt'.anchor = Nothing
  BY <1>2, <1>4, <1>5, DetachHolds
<1>7. FenceAt(crdFence', crdSt')
  BY <1>1, <1>2, <1>6 DEF FenceAt
<1>8. RestAt(crdClosing', crdBegun', crdPending')
  BY <1>1, <1>2 DEF RestAt
<1> QED BY <1>6, <1>7, <1>8, CardsInvPrime

LEMMA DrainKeeps ==
  ASSUME K!CardsAssumption, CardsInv, K!DrainEnds
  PROVE  CardsInv'
<1>1. Holds(crdSt, crdRun) /\ FenceAt(crdFence, crdSt) /\ RestAt(crdClosing, crdBegun, crdPending)
  BY CardsInvParts
<1>2. /\ UNCHANGED <<crdSt, crdRun, crdBegun>> /\ crdClosing' = "aborted" /\ crdPending' = {}
      /\ crdFence' = [leader |-> FALSE, targets |-> {}]
  BY DEF K!DrainEnds
<1>3. FenceAt(crdFence', crdSt') /\ RestAt(crdClosing', crdBegun', crdPending')
  BY <1>1, <1>2 DEF FenceAt, RestAt
<1> QED BY <1>1, <1>2, <1>3, CardsInvPrime

LEMMA CardsStep ==
  ASSUME K!CardsAssumption, CardsInv, [K!Next]_(K!vars)
  PROVE  CardsInv'
<1>1. CASE UNCHANGED K!vars
  <2>1. Holds(crdSt', crdRun') /\ FenceAt(crdFence', crdSt') /\ RestAt(crdClosing', crdBegun', crdPending')
    BY <1>1, CardsInvParts DEF K!vars
  <2> QED BY <2>1, CardsInvPrime
<1>2. CASE K!Next
  BY <1>2, BeginKeeps, RetireKeeps, FallbackKeeps, InputKeeps, ReasonKeeps, ToolKeeps,
     FinishKeeps,
     TeamKeeps, RouteKeeps, WriterKeeps, CloseKeeps, DrainKeeps DEF K!Next, K!Agent
<1> QED BY <1>1, <1>2

\* What the invariant says of the cards.
LEMMA CardsInvSays ==
  ASSUME K!CardsAssumption, CardsInv
  PROVE  K!TypeOK /\ K!CardTellsInOrder /\ K!EndIsComplete /\ K!OneOpenCard
<1>1. /\ Sound(crdSt, crdRun) /\ OpenAt(crdSt) /\ FenceInv /\ crdSt \in Recipient /\ crdRun \in CardsWrite
      /\ \A n \in K!Numbers : CardAt(crdSt, crdRun, n)
  BY DEF CardsInv, Sound
<1>2. /\ crdSt.active \in 0..Cards /\ crdSt.used \in 0..Cards /\ crdRun.card \in 0..Cards
      /\ crdSt.active <= crdSt.used /\ crdRun.card <= crdSt.used
  BY <1>1 DEF Recipient, CardsWrite, OpenAt, Sound
<1>3. crdSt.active \in 0..crdSt.used /\ crdRun.card \in 0..crdSt.used
  BY <1>2 DEF K!CardsAssumption
<1>4. K!TypeOK
  <2>1. \A n \in K!Numbers : /\ Len(crdSt.cards[n].outbox) <= Room
                             /\ crdSt.cards[n].phase = "unborn" <=> n > crdSt.used
    BY <1>1 DEF CardAt, Tells
  <2>2. {crdSt.anchor, crdSt.holder} \subseteq Messages \union {Nothing}
        /\ crdSt.calls \in {"none", "here", "earlier"}
    BY <1>1 DEF Recipient
  <2>3. crdRun.step \in {"idle", "create", "slot", "append", "failing"}
    BY <1>1 DEF CardsWrite
  <2>4. crdFence.leader \in BOOLEAN /\ crdFence.targets \subseteq K!Targets
    BY <1>1 DEF FenceInv
  <2>5. crdClosing \in {"open", "draining", "aborted"} /\ crdBegun \subseteq Messages /\ crdPending \subseteq crdBegun
    BY DEF CardsInv
  <2>6. crdSt.used \in 0..Cards
    BY <1>2
  <2> QED BY <1>3, <2>1, <2>2, <2>3, <2>4, <2>5, <2>6 DEF K!TypeOK
<1>5. K!CardTellsInOrder
  <2> SUFFICES ASSUME NEW n \in K!Numbers
               PROVE  /\ \A i \in DOMAIN crdSt.cards[n].shown : crdSt.cards[n].shown[i] = i
                      /\ crdSt.cards[n].end # "none" => crdRun.card # n \/ crdRun.step = "failing"
    BY DEF K!CardTellsInOrder
  <2>1. CardAt(crdSt, crdRun, n) /\ crdSt.cards[n] \in Card /\ n # 0 /\ (crdRun.step = "idle" <=> crdRun.card = 0)
    <3>1. crdRun.step = "idle" <=> crdRun.card = 0
      BY <1>1 DEF Sound
    <3>2. crdSt.cards \in [K!Numbers -> Card]
      BY <1>1 DEF Recipient
    <3>3. crdSt.cards[n] \in Card
      BY <3>2
    <3>4. n # 0
      BY DEF K!Numbers
    <3> QED BY <1>1, <3>1, <3>3, <3>4
  <2>2. crdSt.cards[n].shown \in Seq(Nat) /\ Numbered(crdSt.cards[n].shown, 0)
    BY <2>1 DEF CardAt, Tells, Card
  <2>3. \A i \in DOMAIN crdSt.cards[n].shown : crdSt.cards[n].shown[i] = i
    <3>1. DOMAIN crdSt.cards[n].shown = 1..Len(crdSt.cards[n].shown)
      BY <2>2, LenProperties
    <3>2. \A i \in 1..Len(crdSt.cards[n].shown) : 0 + i = i
      OBVIOUS
    <3> QED BY <2>2, <3>1, <3>2 DEF Numbered
  <2>4. crdSt.cards[n].end # "none" => crdRun.card # n \/ crdRun.step = "failing"
    BY <1>1, <2>1 DEF CardAt, Tells, Writes, CardsWrite
  <2> QED BY <2>3, <2>4
<1>6. K!EndIsComplete
  BY <1>1 DEF K!EndIsComplete, CardAt, Tells
<1>7. K!OneOpenCard
  BY <1>1 DEF K!OneOpenCard, OpenAt, FenceInv
<1> QED BY <1>4, <1>5, <1>6, <1>7

LEMMA AlwaysCardsInv == RuntimesSpec => []CardsInv
<1>1. K!Init => CardsInv
  BY CardsInit, SubmissionsAssumption
<1>2. CardsInv /\ [K!Next]_(K!vars) => CardsInv'
  BY CardsStep, SubmissionsAssumption
<1> QED BY <1>1, <1>2, PTL DEF RuntimesSpec, K!Spec

\* A recipient has one open card and none once its Team has closed, and a card tells what was
\* accepted for it, in order, without a gap and to its end: for any number of messages, cards and
\* events, whatever the room of a card, and whichever write fails or lands all the same
\* (cot/recipients.ts, writer.ts, adapter.ts).  CardsInv says that what a card has shown, what is
\* in flight and what waits are together what it accepted, and what each task of the queue may
\* count on of its card.
THEOREM CardsAlwaysTellTheTurn == RuntimesSpec => []CardsTellTheTurn
<1>1. CardsInv => CardsTellTheTurn
  BY CardsInvSays, SubmissionsAssumption DEF CardsTellTheTurn
<1> QED BY <1>1, AlwaysCardsInv, PTL

----------------------------------------
(* All of them                                                             *)

\* Whatever a runtime started is accounted for: the Codex runtime has one child, at hand, and none once
\* a stop has resolved; what Claude Code accepted has a deadline, and when its stop has resolved there is
\* neither a child nor work left, nor an interrupt without an answer.  The state of the runtimes and of
\* the cards keeps its type (codex/src/runtime.ts, claude-code/src/rpc.ts and runtime.ts).
THEOREM RuntimesAreAlwaysAccounted == RuntimesSpec => []RuntimesAreAccounted
<1>1. RuntimeInv /\ TurnInv /\ CardsInv /\ ClaudeInv /\ ClaudeChildInv => RuntimesAreAccounted
  BY RuntimeTyped, RuntimeAccounts, ClaudeDeadline, ClaudeLeavesNothing, CardsInvSays, SubmissionsAssumption
  DEF RuntimesAreAccounted, TurnInv
<1> QED BY <1>1, AlwaysRuntimeInv, AlwaysTurnInv, AlwaysCardsInv, AlwaysClaudeChildInv, PTL
========================================
