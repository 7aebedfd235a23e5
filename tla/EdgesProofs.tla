----------------------------- MODULE EdgesProofs -----------------------------
(***************************************************************************)
(* Theorems about the edges of a host: what the runs check of them one at  *)
(* a time holds of all of them side by side, for every value of the        *)
(* constants.  The store's come from its own proofs; the processes of one  *)
(* machine, for any number of runs and of restarts, are proved here.       *)
(***************************************************************************)
EXTENDS Edges, RuntimesProofs, TLAPS, Functions, FiniteSetTheorems

SP == INSTANCE TransactionalStoreProofs WITH
  KindOf <- KindOfOp, EagerReaders <- FALSE,
  disk <- stoDisk, slot <- stoSlot, loading <- stoLoading, seen <- stoSeen,
  queue <- stoQueue, pc <- stoPc, prev <- stoPrev, crashes <- stoCrashes

----------------------------------------
(* Each part behaves as it does alone                                      *)

LEMMA StoreAlone == EdgesSpec => S!Spec
<1>1. EdgesInit => S!Init
  BY DEF EdgesInit
<1>2. [EdgesNext]_edgeVars => [S!Next]_(S!vars)
  BY DEF EdgesNext, edgeVars, stoVars, S!vars, CodexSteps, TurnSteps, ClaudeSteps, CardSteps,
         RouteSteps, SessionSteps, AccessSteps, ProcessSteps, LedgerSteps, StoreSteps,
         CodexActivitySteps, ClaudeActivitySteps
<1> QED BY <1>1, <1>2, PTL DEF EdgesSpec, S!Spec

LEMMA ProcessesAlone == EdgesSpec => H!Spec
<1>1. EdgesInit => H!Init
  BY DEF EdgesInit
<1>2. [EdgesNext]_edgeVars => [H!Next]_(H!vars)
  BY DEF EdgesNext, edgeVars, srvVars, H!vars, CodexSteps, TurnSteps, ClaudeSteps, CardSteps,
         RouteSteps, SessionSteps, AccessSteps, ProcessSteps, LedgerSteps, StoreSteps,
         CodexActivitySteps, ClaudeActivitySteps
<1> QED BY <1>1, <1>2, PTL DEF EdgesSpec, H!Spec

LEMMA RuntimesAlone == EdgesSpec => RuntimesSpec
<1>1. EdgesInit => Init /\ T!Init /\ C!Init /\ K!Init
  BY DEF EdgesInit
<1>2. [EdgesNext]_edgeVars => [Next]_vars
  BY DEF EdgesNext, edgeVars, vars, own, parts, flags, tasks, world, record, CodexSteps,
         TurnSteps, ClaudeSteps, CardSteps, RouteSteps, SessionSteps, AccessSteps, ProcessSteps,
         LedgerSteps, StoreSteps, CodexActivitySteps, ClaudeActivitySteps
<1>3. [EdgesNext]_edgeVars => [T!Next]_(T!vars)
  BY DEF EdgesNext, edgeVars, trnVars, T!vars, CodexSteps, TurnSteps, ClaudeSteps, CardSteps,
         RouteSteps, SessionSteps, AccessSteps, ProcessSteps, LedgerSteps, StoreSteps,
         CodexActivitySteps, ClaudeActivitySteps
<1>4. [EdgesNext]_edgeVars => [C!Next]_(C!vars)
  BY DEF EdgesNext, edgeVars, claVars, C!vars, C!runtime, C!children, C!transport, C!callers,
         C!waits, CodexSteps, TurnSteps, ClaudeSteps, CardSteps, RouteSteps, SessionSteps,
         AccessSteps, ProcessSteps, LedgerSteps, StoreSteps, CodexActivitySteps, ClaudeActivitySteps
<1>5. [EdgesNext]_edgeVars => [K!Next]_(K!vars)
  BY DEF EdgesNext, edgeVars, crdVars, K!vars, CodexSteps, TurnSteps, ClaudeSteps, CardSteps,
         RouteSteps, SessionSteps, AccessSteps, ProcessSteps, LedgerSteps, StoreSteps,
         CodexActivitySteps, ClaudeActivitySteps
<1> QED BY <1>1, <1>2, <1>3, <1>4, <1>5, PTL DEF EdgesSpec, RuntimesSpec, Spec, C!Spec, K!Spec

LEMMA SessionAlone == EdgesSpec => F!Init /\ [][F!Next]_(F!vars)
<1>1. EdgesInit => F!Init
  BY DEF EdgesInit
<1>2. [EdgesNext]_edgeVars => [F!Next]_(F!vars)
  BY DEF EdgesNext, edgeVars, sesVars, F!vars, CodexSteps, TurnSteps, ClaudeSteps, CardSteps,
         RouteSteps, SessionSteps, AccessSteps, ProcessSteps, LedgerSteps, StoreSteps,
         CodexActivitySteps, ClaudeActivitySteps
<1> QED BY <1>1, <1>2, PTL DEF EdgesSpec

LEMMA RoutingAlone == EdgesSpec => R!Init /\ [][R!Next]_(R!vars)
<1>1. EdgesInit => R!Init
  BY DEF EdgesInit
<1>2. [EdgesNext]_edgeVars => [R!Next]_(R!vars)
  BY DEF EdgesNext, edgeVars, rouVars, R!vars, CodexSteps, TurnSteps, ClaudeSteps, CardSteps,
         RouteSteps, SessionSteps, AccessSteps, ProcessSteps, LedgerSteps, StoreSteps,
         CodexActivitySteps, ClaudeActivitySteps
<1> QED BY <1>1, <1>2, PTL DEF EdgesSpec

LEMMA AccessAlone == EdgesSpec => A!Init /\ [][A!Next]_(A!vars)
<1>1. EdgesInit => A!Init
  BY DEF EdgesInit
<1>2. [EdgesNext]_edgeVars => [A!Next]_(A!vars)
  BY DEF EdgesNext, edgeVars, accVars, A!vars, CodexSteps, TurnSteps, ClaudeSteps, CardSteps,
         RouteSteps, SessionSteps, AccessSteps, ProcessSteps, LedgerSteps, StoreSteps,
         CodexActivitySteps, ClaudeActivitySteps
<1> QED BY <1>1, <1>2, PTL DEF EdgesSpec

LEMMA LedgerAlone == EdgesSpec => L!Init /\ [][L!Next]_(L!vars)
<1>1. EdgesInit => L!Init
  BY DEF EdgesInit
<1>2. [EdgesNext]_edgeVars => [L!Next]_(L!vars)
  BY DEF EdgesNext, edgeVars, ledVars, L!vars, CodexSteps, TurnSteps, ClaudeSteps, CardSteps,
         RouteSteps, SessionSteps, AccessSteps, ProcessSteps, LedgerSteps, StoreSteps,
         CodexActivitySteps, ClaudeActivitySteps
<1> QED BY <1>1, <1>2, PTL DEF EdgesSpec

\* A set has as many elements for the edges as for each of them.
LEMMA SameCardinality ==
  ASSUME NEW some
  PROVE  /\ R!Cardinality(some) = Cardinality(some)
         /\ A!Cardinality(some) = Cardinality(some)
         /\ L!Cardinality(some) = Cardinality(some)
  BY DEF R!Cardinality, A!Cardinality, L!Cardinality, Cardinality

----------------------------------------
(* The record store                                                        *)

\* Its proofs speak of the same store.
LEMMA SameStore ==
  /\ S!StoreAssumption <=> SP!StoreAssumption
  /\ S!Spec <=> SP!Spec
  /\ S!SerialSpec <=> SP!SerialSpec
  /\ S!ReaderSeesDisk <=> SP!ReaderSeesDisk
  /\ S!TypeOK <=> SP!TypeOK
<1>1. S!Init <=> SP!Init
  BY DEF S!Init, SP!Init, S!Absent, SP!Absent, S!Unloaded, SP!Unloaded
<1>2. [S!Next]_(S!vars) <=> [SP!Next]_(SP!vars)
  BY DEF S!Next, SP!Next, S!vars, SP!vars, S!Absent, SP!Absent, S!Unloaded, SP!Unloaded,
         S!Value, SP!Value, S!Running, SP!Running, S!Kind, SP!Kind, S!Goto, SP!Goto,
         S!Settle, SP!Settle, S!Blind, SP!Blind, S!ReadMayMeet, SP!ReadMayMeet, S!Queued,
         SP!Queued, S!Changed, SP!Changed, S!Load, SP!Load, S!QueuedRead, SP!QueuedRead,
         S!FileRead, SP!FileRead, S!Loaded, SP!Loaded, S!LoadFails, SP!LoadFails, S!Ask,
         SP!Ask, S!Start, SP!Start, S!Change, SP!Change, S!WriteStale, SP!WriteStale,
         S!Write, SP!Write, S!WriteFails, SP!WriteFails, S!Swap, SP!Swap, S!AfterCommit,
         SP!AfterCommit, S!Crash, SP!Crash, S!Reads, SP!Reads, S!Proceeds, SP!Proceeds
<1>3. S!Serial!Init <=> SP!Serial!Init
  BY DEF S!Serial!Init, SP!Serial!Init, S!Serial!Absent, SP!Serial!Absent, S!Promised, SP!Promised
<1>4. [S!Serial!Next]_(S!Serial!vars) <=> [SP!Serial!Next]_(SP!Serial!vars)
  BY DEF S!Serial!Next, SP!Serial!Next, S!Serial!vars, SP!Serial!vars, S!Serial!Absent,
         SP!Serial!Absent, S!Serial!Apply, SP!Serial!Apply, S!Serial!Ask, SP!Serial!Ask,
         S!Serial!Commit, SP!Serial!Commit, S!Serial!Answer, SP!Serial!Answer,
         S!Serial!Refuse, SP!Serial!Refuse, S!Serial!Unchanged, SP!Serial!Unchanged,
         S!Serial!Crash, SP!Serial!Crash, S!Promised, SP!Promised
<1>5. S!ReaderSeesDisk <=> SP!ReaderSeesDisk
  BY DEF S!ReaderSeesDisk, SP!ReaderSeesDisk, S!Running, SP!Running
<1>6. S!StoreAssumption <=> SP!StoreAssumption
  BY DEF S!StoreAssumption, SP!StoreAssumption
<1>7. S!TypeOK <=> SP!TypeOK
  BY DEF S!TypeOK, SP!TypeOK, S!Absent, SP!Absent, S!Unloaded, SP!Unloaded, S!Value, SP!Value,
         S!Queued, SP!Queued
<1> QED
  BY <1>1, <1>2, <1>3, <1>4, <1>5, <1>6, <1>7, PTL
     DEF S!Spec, SP!Spec, S!SerialSpec, SP!SerialSpec, S!Serial!Spec, SP!Serial!Spec

\* A record is changed one change at a time, in order, each on what the one before left, and
\* who reads it reads what is on disk (dreamux-utils/src/transactional-store.ts).
THEOREM RecordsAreSerial == EdgesSpec => SerialSpec
<1>1. SP!StoreAssumption
  BY EdgesAssumption, SameStore
<1>2. SP!Spec => SP!SerialSpec
  BY <1>1, SP!ImplementsSerialStore
<1>3. SP!Spec => []SP!ReaderSeesDisk
  BY <1>1, SP!ReadersSeeDisk
<1>4. SP!Spec => []SP!TypeOK
  BY <1>1, SP!TypeCorrect
<1> QED BY <1>2, <1>3, <1>4, StoreAlone, SameStore, PTL DEF SerialSpec

----------------------------------------
(* The processes: type correctness                                         *)

Files == <<srvLock, srvSocket, srvStolen>>

\* The types, and that who still asks for the lock has an attempt left.
ProcessTypes ==
  /\ H!TypeOK
  /\ \A p \in Procs :
       srvPc[p] \in {"off", "loading", "preflight", "acquiring", "exists", "removing"} => srvTries[p] < Reclaims

\* The steps before the lock, and those of a process that serves or ends.
LEMMA PlainTypes ==
  ASSUME H!ProcessAssumption, ProcessTypes, NEW p \in Procs,
         \/ H!ReadMarker(p) \/ H!DropMarker(p) \/ H!Preflight(p) \/ H!ReadHolder(p) \/ H!Listen(p)
         \/ H!ListenFails(p) \/ H!StartDispatchers(p) \/ H!Signal(p) \/ H!CloseSocket(p)
         \/ H!ReadOwn(p) \/ H!Dies(p)
  PROVE  ProcessTypes'
<1> USE DEF ProcessTypes, H!TypeOK, H!At, H!Go, H!files, H!restart
<1>1. CASE H!ReadMarker(p) \/ H!DropMarker(p)
  BY <1>1 DEF H!ReadMarker, H!DropMarker
<1>2. CASE H!Preflight(p) \/ H!ReadHolder(p) \/ H!Dies(p) \/ H!ReadOwn(p)
  BY <1>2 DEF H!Preflight, H!ReadHolder, H!Dies, H!ReadOwn
<1>3. CASE H!Listen(p) \/ H!ListenFails(p) \/ H!CloseSocket(p)
  BY <1>3 DEF H!Listen, H!ListenFails, H!CloseSocket
<1>4. CASE H!StartDispatchers(p) \/ H!Signal(p)
  BY <1>4 DEF H!StartDispatchers, H!Signal
<1> QED BY <1>1, <1>2, <1>3, <1>4

\* The steps on the pidfile, and a notice that is given.
LEMMA LockTypes ==
  ASSUME H!ProcessAssumption, ProcessTypes, NEW p \in Procs,
         H!TryCreate(p) \/ H!WritePid(p) \/ H!RemoveStale(p) \/ H!Unlock(p) \/ H!Announce(p)
  PROVE  ProcessTypes'
<1> USE DEF ProcessTypes, H!TypeOK, H!At, H!Go, H!files, H!restart
<1>1. CASE H!TryCreate(p)
  <2>1. [by |-> p, full |-> FALSE] \in [by : Procs, full : BOOLEAN]
    OBVIOUS
  <2> QED BY <1>1, <2>1 DEF H!TryCreate
<1>2. CASE H!WritePid(p)
  <2>1. srvLock' = Nothing \/ srvLock' \in [by : Procs, full : BOOLEAN]
    BY <1>2 DEF H!WritePid, H!Mine
  <2> QED BY <1>2, <2>1 DEF H!WritePid
<1>3. CASE H!RemoveStale(p)
  <2>1. /\ srvTries[p] \in 0..Reclaims /\ srvTries[p] < Reclaims /\ Reclaims \in Nat
    BY <1>3 DEF H!RemoveStale, H!ProcessAssumption
  <2>2. srvTries[p] + 1 \in 0..Reclaims /\ (srvTries[p] + 1 # Reclaims => srvTries[p] + 1 < Reclaims)
    BY <2>1
  <2>3. srvStolen' \in BOOLEAN
    BY <1>3 DEF H!RemoveStale
  <2> QED BY <1>3, <2>2, <2>3 DEF H!RemoveStale
<1>4. CASE H!Unlock(p)
  BY <1>4 DEF H!Unlock
<1>5. CASE H!Announce(p)
  <2>1. srvAnnounced' \subseteq Restarts \X Procs
    BY <1>5 DEF H!Announce
  <2> QED BY <1>5, <2>1 DEF H!Announce
<1> QED BY <1>1, <1>2, <1>3, <1>4, <1>5

\* Every step keeps the types.
LEMMA ProcessTypesKept ==
  ASSUME H!ProcessAssumption, ProcessTypes, [H!Next]_(H!vars)
  PROVE  ProcessTypes'
<1>1. CASE UNCHANGED H!vars
  BY <1>1 DEF H!vars, ProcessTypes, H!TypeOK
<1>2. CASE \E r \in Restarts : H!WriteMarker(r) \/ H!ControlReturns(r) \/ H!Expires(r)
  BY <1>2 DEF H!WriteMarker, H!ControlReturns, H!Expires, ProcessTypes, H!TypeOK, H!files
<1> QED BY <1>1, <1>2, PlainTypes, LockTypes DEF H!Next

----------------------------------------
(* The pidfile and the socket                                              *)

\* The process created a pidfile and is not dead.
Owning(p) ==
  srvPc[p] \in {"writing", "held", "listening", "serving", "closing", "releasing", "unlocking"}

\* A pidfile names who created it; unless a live process lost its own, it names all who did,
\* hence one, and the socket at the path is the one of that process.
LockInv ==
  /\ srvLock # Nothing => srvLock.by \in Procs /\ (Owning(srvLock.by) \/ srvPc[srvLock.by] = "dead")
  /\ ~srvStolen => \A p \in Procs : Owning(p) => H!Mine(p)
  /\ ~srvStolen => \A p \in Procs : srvPc[p] \in {"listening", "serving"} => srvSocket = p

\* A process that only moves on.
LEMMA MovesOn ==
  ASSUME ProcessTypes, LockInv, NEW p \in Procs, NEW to, H!Go(p, to), UNCHANGED Files,
         \/ to = "dead" \/ (~Owning(p) /\ srvPc[p] # "dead" /\ to \in {"loading", "preflight", "acquiring", "removing", "exists"})
         \/ (Owning(p) /\ to \in {"closing", "unlocking"}) \/ (srvPc[p] = "listening" /\ to = "serving")
  PROVE  LockInv'
<1>1. srvPc'[p] = to /\ \A q \in Procs : q # p => srvPc'[q] = srvPc[q]
  BY DEF H!Go, ProcessTypes, H!TypeOK
<1>2. UNCHANGED <<srvLock, srvSocket, srvStolen>>
  BY DEF Files
<1>3. srvLock # Nothing /\ srvLock.by = p => Owning(p) \/ srvPc[p] = "dead"
  BY DEF LockInv
<1> QED BY <1>1, <1>2, <1>3 DEF LockInv, Owning, H!Mine

\* The steps of a process that leave the pidfile and the socket alone.
LEMMA PlainLock ==
  ASSUME ProcessTypes, LockInv, NEW p \in Procs,
         \/ H!ReadMarker(p) \/ H!DropMarker(p) \/ H!Preflight(p) \/ H!ReadHolder(p)
         \/ H!StartDispatchers(p) \/ H!Signal(p) \/ H!ReadOwn(p) \/ H!Dies(p)
  PROVE  LockInv'
<1>1. UNCHANGED Files
  BY DEF H!ReadMarker, H!DropMarker, H!Preflight, H!ReadHolder, H!StartDispatchers, H!Signal,
         H!ReadOwn, H!Dies, H!files, Files
<1>2. CASE H!ReadMarker(p) \/ H!DropMarker(p) \/ H!Preflight(p) \/ H!ReadHolder(p)
  BY <1>1, <1>2, MovesOn DEF H!ReadMarker, H!DropMarker, H!Preflight, H!ReadHolder, H!At, Owning
<1>3. CASE H!StartDispatchers(p) \/ H!Signal(p) \/ H!ReadOwn(p) \/ H!Dies(p)
  BY <1>1, <1>3, MovesOn DEF H!StartDispatchers, H!Signal, H!ReadOwn, H!Dies, H!At, Owning
<1> QED BY <1>2, <1>3

\* A pidfile is created where there is none, so that nobody owned one that was not lost.
LEMMA CreatesLock ==
  ASSUME H!ProcessAssumption, ProcessTypes, LockInv, NEW p \in Procs, H!TryCreate(p)
  PROVE  LockInv'
<1>1. srvPc[p] = "acquiring" /\ srvStolen' = srvStolen /\ srvSocket' = srvSocket
  BY DEF H!TryCreate, H!At
<1>2. \A q \in Procs : q # p => srvPc'[q] = srvPc[q]
  BY DEF H!TryCreate, H!Go, ProcessTypes, H!TypeOK
<1>3. CASE srvLock = Nothing
  <2>1. srvLock' = [by |-> p, full |-> FALSE] /\ srvPc'[p] = "writing"
    BY <1>3 DEF H!TryCreate, H!Go, ProcessTypes, H!TypeOK
  <2>2. [by |-> p, full |-> FALSE] \in [by : Procs, full : BOOLEAN]
    OBVIOUS
  <2>3. srvLock' # Nothing
    BY <2>1, <2>2 DEF H!ProcessAssumption
  <2> QED BY <1>1, <1>2, <1>3, <2>1, <2>3 DEF LockInv, Owning, H!Mine
<1>4. CASE srvLock # Nothing
  <2>1. srvLock' = srvLock /\ srvPc'[p] = "exists"
    BY <1>4 DEF H!TryCreate, H!Go, ProcessTypes, H!TypeOK
  <2> QED BY <1>1, <1>2, <1>4, <2>1 DEF LockInv, Owning, H!Mine
<1> QED BY <1>3, <1>4

\* The pid goes to the file that was opened.
LEMMA WritesLock ==
  ASSUME H!ProcessAssumption, ProcessTypes, LockInv, NEW p \in Procs, H!WritePid(p)
  PROVE  LockInv'
<1>1. srvPc[p] = "writing" /\ srvPc'[p] = "held" /\ srvStolen' = srvStolen /\ srvSocket' = srvSocket
  BY DEF H!WritePid, H!At, H!Go, ProcessTypes, H!TypeOK
<1>2. \A q \in Procs : q # p => srvPc'[q] = srvPc[q]
  BY DEF H!WritePid, H!Go, ProcessTypes, H!TypeOK
<1>3. srvLock = Nothing \/ srvLock \in [by : Procs, full : BOOLEAN]
  BY DEF ProcessTypes, H!TypeOK
<1>4. srvLock' = srvLock \/ (srvLock # Nothing /\ srvLock' = [srvLock EXCEPT !.full = TRUE])
  BY DEF H!WritePid, H!Mine
<1>5. srvLock # Nothing => srvLock' # Nothing /\ srvLock'.by = srvLock.by
  BY <1>3, <1>4 DEF H!ProcessAssumption
<1>6. srvLock = Nothing => srvLock' = Nothing
  BY <1>4
<1> QED BY <1>1, <1>2, <1>5, <1>6 DEF LockInv, Owning, H!Mine

\* A pidfile is removed by path: either it was not that of another live process, or the loss is
\* recorded.
LEMMA RemovesLock ==
  ASSUME ProcessTypes, LockInv, NEW p \in Procs, H!RemoveStale(p) \/ H!Unlock(p)
  PROVE  LockInv'
<1>1. /\ srvLock' = Nothing /\ srvSocket' = srvSocket
      /\ ~srvStolen' => ~srvStolen /\ (srvLock = Nothing \/ srvLock.by = p \/ ~H!Alive(srvLock.by))
  BY DEF H!RemoveStale, H!Unlock
<1>2. /\ \A q \in Procs : q # p => srvPc'[q] = srvPc[q]
      /\ srvPc'[p] \in {"dead", "acquiring"}
  BY DEF H!RemoveStale, H!Unlock, H!Go, ProcessTypes, H!TypeOK
<1>3. ASSUME ~srvStolen', NEW q \in Procs PROVE ~Owning(q)'
  <2>1. Owning(q)' => q # p /\ Owning(q)
    BY <1>2 DEF Owning
  <2>2. Owning(q) => srvLock # Nothing /\ srvLock.by = q /\ H!Alive(q)
    BY <1>1, <1>3 DEF LockInv, H!Mine, Owning, H!Alive
  <2> QED BY <1>1, <1>3, <2>1, <2>2
<1> QED BY <1>1, <1>3 DEF LockInv, Owning

\* Whoever listens at the path, or clears it, owns the pidfile, so that nobody else serves.
LEMMA MovesSocket ==
  ASSUME ProcessTypes, LockInv, NEW p \in Procs, H!Listen(p) \/ H!ListenFails(p) \/ H!CloseSocket(p)
  PROVE  LockInv'
<1>1. /\ srvPc[p] \in {"held", "closing"} /\ srvPc'[p] \in {"listening", "releasing"}
      /\ srvPc'[p] = "listening" => srvSocket' = p
      /\ UNCHANGED <<srvLock, srvStolen>>
  BY DEF H!Listen, H!ListenFails, H!CloseSocket, H!At, H!Go, ProcessTypes, H!TypeOK
<1>2. \A q \in Procs : q # p => srvPc'[q] = srvPc[q]
  BY DEF H!Listen, H!ListenFails, H!CloseSocket, H!Go, ProcessTypes, H!TypeOK
<1>3. ~srvStolen => \A q \in Procs : Owning(q) => q = p
  BY <1>1 DEF LockInv, H!Mine, Owning
<1>4. \A q \in Procs : Owning(q)' <=> Owning(q)
  BY <1>1, <1>2 DEF Owning
<1>5. \A q \in Procs : srvPc'[q] \in {"listening", "serving"} => Owning(q)
  BY <1>4 DEF Owning
<1>6. ~srvStolen' => \A q \in Procs : srvPc'[q] \in {"listening", "serving"} => srvSocket' = q
  BY <1>1, <1>3, <1>5
<1>7. srvLock' # Nothing => srvLock'.by \in Procs /\ (Owning(srvLock.by)' \/ srvPc'[srvLock.by] = "dead")
  BY <1>1, <1>2, <1>4 DEF LockInv
<1>8. ~srvStolen' => \A q \in Procs : Owning(q)' => H!Mine(q)'
  BY <1>1, <1>4 DEF LockInv, H!Mine
<1> QED BY <1>1, <1>6, <1>7, <1>8 DEF LockInv, Owning

\* Every step keeps what is said of pidfile and socket.
LEMMA LockKept ==
  ASSUME H!ProcessAssumption, ProcessTypes, LockInv, [H!Next]_(H!vars)
  PROVE  LockInv'
<1>1. CASE \/ UNCHANGED H!vars
           \/ \E r \in Restarts : H!WriteMarker(r) \/ H!ControlReturns(r) \/ H!Expires(r)
           \/ \E p \in Procs : H!Announce(p)
  <2>1. UNCHANGED <<srvPc, srvLock, srvSocket, srvStolen>>
    BY <1>1 DEF H!vars, H!WriteMarker, H!ControlReturns, H!Expires, H!Announce, H!files
  <2> QED BY <2>1 DEF LockInv, Owning, H!Mine
<1> QED BY <1>1, PlainLock, CreatesLock, WritesLock, RemovesLock, MovesSocket DEF H!Next

----------------------------------------
(* The restart marker                                                      *)

\* A marker is written once; a process that is past its boot and holds a notice has seen its
\* marker go, and so has one that gave it.
MarkerInv ==
  /\ \A p \in Procs : srvPc[p] = "off" => srvNotice[p] = Nothing
  /\ \A r \in Restarts : srvMarker = r => srvCli[r] # "none"
  /\ \A p \in Procs, r \in Restarts :
       srvNotice[p] = r => srvCli[r] # "none" /\ (srvPc[p] \notin {"loading", "dead"} => srvMarker # r)
  /\ \A p \in Procs, r \in Restarts : <<r, p>> \in srvAnnounced => srvCli[r] # "none"
  /\ H!NeverReplayed

\* The steps of a process between its boot and its end leave marker and notices alone.
LEMMA PlainMarker ==
  ASSUME ProcessTypes, MarkerInv, NEW p \in Procs,
         \/ H!Preflight(p) \/ H!TryCreate(p) \/ H!WritePid(p) \/ H!ReadHolder(p) \/ H!RemoveStale(p)
         \/ H!Listen(p) \/ H!ListenFails(p) \/ H!StartDispatchers(p) \/ H!Signal(p) \/ H!CloseSocket(p)
         \/ H!ReadOwn(p) \/ H!Unlock(p) \/ H!Dies(p)
  PROVE  MarkerInv'
<1>1. UNCHANGED <<srvMarker, srvNotice, srvCli, srvAnnounced>>
  BY DEF H!Preflight, H!TryCreate, H!WritePid, H!ReadHolder, H!RemoveStale, H!Listen, H!ListenFails,
         H!StartDispatchers, H!Signal, H!CloseSocket, H!ReadOwn, H!Unlock, H!Dies, H!restart
<1>2. /\ \A q \in Procs : q # p => srvPc'[q] = srvPc[q]
      /\ srvPc[p] # "off" /\ srvPc'[p] \notin {"off", "loading"}
      /\ srvPc[p] \in {"loading", "dead"} => srvPc'[p] = "dead"
  <2>1. CASE H!Preflight(p) \/ H!TryCreate(p) \/ H!WritePid(p) \/ H!ReadHolder(p) \/ H!RemoveStale(p)
    BY <2>1 DEF H!Preflight, H!TryCreate, H!WritePid, H!ReadHolder, H!RemoveStale, H!At, H!Go,
                ProcessTypes, H!TypeOK
  <2>2. CASE H!Listen(p) \/ H!ListenFails(p) \/ H!StartDispatchers(p) \/ H!Signal(p) \/ H!CloseSocket(p)
    BY <2>2 DEF H!Listen, H!ListenFails, H!StartDispatchers, H!Signal, H!CloseSocket, H!At, H!Go,
                ProcessTypes, H!TypeOK
  <2>3. CASE H!ReadOwn(p) \/ H!Unlock(p) \/ H!Dies(p)
    BY <2>3 DEF H!ReadOwn, H!Unlock, H!Dies, H!Alive, H!At, H!Go, ProcessTypes, H!TypeOK
  <2> QED BY <2>1, <2>2, <2>3
<1> QED BY <1>1, <1>2 DEF MarkerInv, H!NeverReplayed

\* A boot reads the marker and removes what is there; a notice is given from then on.
LEMMA BootMarker ==
  ASSUME H!ProcessAssumption, ProcessTypes, MarkerInv, NEW p \in Procs,
         H!ReadMarker(p) \/ H!DropMarker(p) \/ H!Announce(p)
  PROVE  MarkerInv'
<1>0. Nothing \notin Restarts /\ srvNotice \in [Procs -> Restarts \cup {Nothing}]
  BY DEF ProcessTypes, H!TypeOK, H!ProcessAssumption
<1>1. srvCli' = srvCli
  BY DEF H!ReadMarker, H!DropMarker, H!Announce
<1>2. \A q \in Procs : q # p => srvPc'[q] = srvPc[q] /\ srvNotice'[q] = srvNotice[q]
  BY <1>0 DEF H!ReadMarker, H!DropMarker, H!Announce, H!Go, ProcessTypes, H!TypeOK
<1>3. CASE H!ReadMarker(p)
  <2>1. srvPc'[p] = "loading" /\ srvNotice'[p] = srvMarker /\ UNCHANGED <<srvMarker, srvAnnounced>>
    BY <1>0, <1>3 DEF H!ReadMarker, H!Go, ProcessTypes, H!TypeOK
  <2> QED BY <1>1, <1>2, <2>1 DEF MarkerInv, H!NeverReplayed
<1>4. CASE H!DropMarker(p)
  <2>1. /\ srvPc'[p] = "preflight" /\ srvMarker' = Nothing /\ srvAnnounced' = srvAnnounced
        /\ srvNotice'[p] = srvNotice[p] \/ srvNotice'[p] = Nothing
    BY <1>0, <1>4 DEF H!DropMarker, H!Go, ProcessTypes, H!TypeOK
  <2> QED BY <1>0, <1>1, <1>2, <2>1 DEF MarkerInv, H!NeverReplayed
<1>5. CASE H!Announce(p)
  <2>1. /\ UNCHANGED <<srvPc, srvMarker>> /\ srvPc[p] = "serving" /\ srvNotice'[p] = Nothing
        /\ srvAnnounced' \subseteq srvAnnounced \cup {<<srvNotice[p], p>>}
    BY <1>0, <1>5 DEF H!Announce, H!At
  <2>2. ASSUME NEW q \in Procs, NEW r \in Restarts, <<r, q>> \in srvAnnounced'
        PROVE  srvCli[r] # "none" /\ srvMarker # r
    <3>1. <<r, q>> \in srvAnnounced \/ (q = p /\ srvNotice[p] = r)
      BY <2>1, <2>2
    <3> QED BY <2>1, <3>1 DEF MarkerInv, H!NeverReplayed
  <2> QED BY <1>0, <1>1, <1>2, <2>1, <2>2 DEF MarkerInv, H!NeverReplayed
<1> QED BY <1>3, <1>4, <1>5

\* A restart writes its marker once, before any process can have read it.
LEMMA RestartMarker ==
  ASSUME H!ProcessAssumption, ProcessTypes, MarkerInv, NEW r \in Restarts,
         H!WriteMarker(r) \/ H!ControlReturns(r) \/ H!Expires(r)
  PROVE  MarkerInv'
<1>0. Nothing \notin Restarts
  BY DEF H!ProcessAssumption
<1>1. UNCHANGED <<srvPc, srvNotice, srvAnnounced>>
  BY DEF H!WriteMarker, H!ControlReturns, H!Expires
<1>2. \A q \in Restarts : srvCli[q] # "none" => srvCli'[q] # "none"
  BY DEF H!WriteMarker, H!ControlReturns, H!Expires, ProcessTypes, H!TypeOK
<1>3. \/ srvMarker' = srvMarker \/ srvMarker' = Nothing
      \/ srvMarker' = r /\ srvCli[r] = "none" /\ srvCli'[r] # "none"
  BY DEF H!WriteMarker, H!ControlReturns, H!Expires, ProcessTypes, H!TypeOK
<1> QED BY <1>0, <1>1, <1>2, <1>3 DEF MarkerInv, H!NeverReplayed

\* Every step keeps what is said of the marker.
LEMMA MarkerKept ==
  ASSUME H!ProcessAssumption, ProcessTypes, MarkerInv, [H!Next]_(H!vars)
  PROVE  MarkerInv'
<1>1. CASE UNCHANGED H!vars
  BY <1>1 DEF H!vars, MarkerInv, H!NeverReplayed
<1> QED BY <1>1, PlainMarker, BootMarker, RestartMarker DEF H!Next

----------------------------------------
(* The theorems about processes                                            *)

ProcessInv == ProcessTypes /\ LockInv /\ MarkerInv

\* The invariant is inductive, so it always holds.
LEMMA AlwaysProcessInv ==
  ASSUME H!ProcessAssumption
  PROVE  H!Spec => []ProcessInv
<1>1. H!Init => ProcessInv
  <2> SUFFICES ASSUME H!Init PROVE ProcessInv
    OBVIOUS
  <2>1. 0 \in 0..Reclaims /\ 0 < Reclaims
    BY DEF H!ProcessAssumption
  <2>2. ProcessTypes
    BY <2>1 DEF H!Init, ProcessTypes, H!TypeOK
  <2>3. LockInv
    BY DEF H!Init, LockInv, Owning
  <2>4. MarkerInv
    BY DEF H!Init, H!ProcessAssumption, MarkerInv, H!NeverReplayed
  <2> QED BY <2>2, <2>3, <2>4 DEF ProcessInv
<1>2. ProcessInv /\ [H!Next]_(H!vars) => ProcessInv'
  BY ProcessTypesKept, LockKept, MarkerKept DEF ProcessInv
<1> QED BY <1>1, <1>2, PTL DEF H!Spec

\* The types of the processes and their files.
THEOREM ProcessTypeCorrect == EdgesSpec => []H!TypeOK
<1>1. ProcessInv => H!TypeOK
  BY DEF ProcessInv, ProcessTypes
<1> QED BY <1>1, ProcessesAlone, AlwaysProcessInv, EdgesAssumption, PTL

\* Unless a live process lost its pidfile, the socket at the path is the one of the process that
\* serves; a restart notice that was given is gone from the disk (server.ts, restart-intent.ts).
THEOREM OneServerAlwaysAnswers == EdgesSpec => []OneServerAnswers
<1>1. ProcessInv => H!OneServerAnswers
  <2> SUFFICES ASSUME ProcessInv PROVE H!OneServerAnswers
    OBVIOUS
  <2>1. H!ServesItsSocket
    BY DEF ProcessInv, LockInv, H!ServesItsSocket, H!At
  <2> QED BY <2>1 DEF ProcessInv, MarkerInv, H!OneServerAnswers
<1>2. H!TypeOK /\ H!OneServerAnswers <=> OneServerAnswers
  BY DEF OneServerAnswers
<1> QED BY <1>1, <1>2, ProcessesAlone, AlwaysProcessInv, ProcessTypeCorrect, EdgesAssumption, PTL

\* Nor are there ever two that hold the lock: what can be stolen is all that can break "one wins"
\* (platform/instance-lock.ts:12-15).
THEOREM OneHolderUnlessStolen == EdgesSpec => [](~srvStolen => \A p, q \in H!Holding : p = q)
<1>1. ProcessInv => (~srvStolen => \A p, q \in H!Holding : p = q)
  BY DEF ProcessInv, LockInv, Owning, H!Mine, H!Holding
<1> QED BY <1>1, ProcessesAlone, AlwaysProcessInv, EdgesAssumption, PTL

----------------------------------------
(* A session of the Channel                                                *)

Click == [stage : {"none", "ended"}] \union [stage : {"checking"}, round : Rounds, kind : F!Kinds]

SessionTypes == F!TypeOK /\ sesClick \in [Clicks -> Click]

\* A round is opened once, by a call that has not returned, and in a session that lives; nothing
\* is asked before initialize.
RoundInv ==
  /\ \A r \in Rounds : /\ sesAsk[r] # "ended" => sesRound[r] = "none"
                       /\ sesRound[r] \in {"none", "open"} => sesOutcome[r] = {}
  /\ sesInit = "none" => F!Tracked = {} /\ \A r \in Rounds : sesAsk[r] = "none"

\* Who has waited for what is tracked finds nothing tracked, and no start under way.
TeardownInv ==
  /\ sesCloser # "none" \/ (\E c \in F!Callers : sesTd[c] # "none") => ~sesLive
  /\ \A c \in F!Callers : sesTd[c] \in {"extensions", "end"} => F!Tracked = {} /\ sesStarter # "extensions"
  /\ \A c \in F!Callers : sesTd[c] = "end" => sesExt # "started"
  /\ sesCloser \in {"bot", "closed"} => F!Tracked = {} /\ sesStarter # "extensions" /\ sesExt # "started"
  /\ sesExt = "closed" => ~sesLive
  /\ sesInit # "done" => sesStarter = "none"
  /\ sesInit = "none" => sesExt = "none"
  /\ sesCloser = "closed" /\ sesStarter # "connecting" => sesWs \in {"none", "down"}

SessionInv ==
  /\ SessionTypes /\ RoundInv /\ F!SettledOnce /\ F!EndedSessionAsksNothing
  /\ TeardownInv /\ F!ExtensionOutlivesItsCalls

\* The first half of a teardown.
LEMMA TeardownBegins ==
  ASSUME SessionInv, NEW c \in F!Callers, F!BeginTeardown(c)
  PROVE  /\ sesLive' = FALSE /\ sesTimer' = {} /\ sesCards' \in {"open", "draining", "drained"}
         /\ UNCHANGED <<sesAsk, sesClick, sesAnswered, sesOutcome, sesDelivery>>
         /\ sesRound' \in [Rounds -> {"none", "open", "settled", "abandoned"}]
         /\ \A r \in Rounds : sesRound'[r] = IF sesRound[r] = "open" THEN "abandoned" ELSE sesRound[r]
         /\ sesTd' \in [F!Callers -> {"none", "cards", "drain", "extensions", "end"}]
         /\ sesTd'[c] \in {"cards", "drain"}
         /\ \A d \in F!Callers : d # c => sesTd'[d] = sesTd[d]
  BY DEF SessionInv, SessionTypes, F!TypeOK, F!BeginTeardown

LEMMA SessionStarts == F!Init => SessionInv
<1> SUFFICES ASSUME F!Init PROVE SessionInv
  OBVIOUS
<1>1. [stage |-> "none"] \in Click
  BY DEF Click
<1>2. SessionTypes
  BY <1>1 DEF F!Init, SessionTypes, F!TypeOK, F!Callers
<1>3. RoundInv /\ F!SettledOnce /\ F!EndedSessionAsksNothing
  BY DEF F!Init, RoundInv, F!SettledOnce, F!EndedSessionAsksNothing, F!Tracked
<1>4. TeardownInv /\ F!ExtensionOutlivesItsCalls
  BY DEF F!Init, TeardownInv, F!ExtensionOutlivesItsCalls
<1> QED BY <1>2, <1>3, <1>4 DEF SessionInv

\* The three calls that begin and end a session.
LEMMA SessionBoots ==
  ASSUME SessionInv, F!Initialize \/ F!Start \/ F!Close \/ F!Booting
  PROVE  SessionInv'
<1> USE DEF SessionInv, F!Callers
<1>1. CASE F!Initialize \/ F!Loaded \/ F!ExtensionsReady \/ F!InitFailed
  BY <1>1 DEF F!Initialize, F!Loaded, F!ExtensionsReady, F!InitFailed, F!asking, SessionTypes, F!TypeOK,
              RoundInv, F!SettledOnce, F!EndedSessionAsksNothing, TeardownInv, F!ExtensionOutlivesItsCalls, F!Tracked
<1>2. CASE F!Start \/ F!Connecting \/ F!StartFailed
  BY <1>2 DEF F!Start, F!Connecting, F!StartFailed, F!asking, SessionTypes, F!TypeOK,
              RoundInv, F!SettledOnce, F!EndedSessionAsksNothing, TeardownInv, F!ExtensionOutlivesItsCalls, F!Tracked
<1>3. CASE sesStarter = "connecting" /\ sesLive /\ sesWs \in {"opening", "up"} /\ F!Connected
  BY <1>3 DEF F!Connected, F!asking, SessionTypes, F!TypeOK,
              RoundInv, F!SettledOnce, F!EndedSessionAsksNothing, TeardownInv, F!ExtensionOutlivesItsCalls, F!Tracked
<1>4. CASE F!Started /\ UNCHANGED <<sesLive, sesTd, sesCards, sesWs, F!asking>>
  BY <1>4 DEF F!Started, F!BeginTeardown, F!asking, SessionTypes, F!TypeOK,
              RoundInv, F!SettledOnce, F!EndedSessionAsksNothing, TeardownInv, F!ExtensionOutlivesItsCalls, F!Tracked
<1>5. CASE F!Close /\ sesInit = "none"
  <2>1. /\ sesLive' = FALSE /\ sesCards' = "drained" /\ sesCloser' = "bot"
        /\ UNCHANGED <<sesTd, F!asking, sesInit, sesStarter, sesWs, sesExt>>
    BY <1>5 DEF F!Close, F!AbortOnly
  <2>2. F!Tracked' = F!Tracked /\ F!Tracked = {} /\ sesStarter = "none" /\ sesExt = "none"
    BY <1>5, <2>1 DEF F!Tracked, F!asking, RoundInv, TeardownInv
  <2>3. SessionTypes'
    BY <2>1 DEF SessionTypes, F!TypeOK, F!asking
  <2>4. RoundInv' /\ F!SettledOnce'
    BY <2>1, <2>2 DEF RoundInv, F!SettledOnce, F!asking
  <2>5. F!EndedSessionAsksNothing'
    BY <1>5, <2>1 DEF F!EndedSessionAsksNothing, RoundInv, SessionTypes, F!TypeOK, F!asking
  <2>6. TeardownInv' /\ F!ExtensionOutlivesItsCalls'
    BY <2>1, <2>2 DEF TeardownInv, F!ExtensionOutlivesItsCalls
  <2> QED BY <2>3, <2>4, <2>5, <2>6
<1>6. ASSUME NEW c \in F!Callers, F!BeginTeardown(c),
             F!ExtensionsFail \/ F!Connected \/ F!ConnectFails \/ F!Started \/ (F!Close /\ sesInit # "none")
      PROVE  SessionInv'
  <2>1. /\ sesLive' = FALSE /\ sesTimer' = {} /\ sesCards' \in {"open", "draining", "drained"}
        /\ UNCHANGED <<sesAsk, sesClick, sesAnswered, sesOutcome, sesDelivery>>
        /\ sesRound' \in [Rounds -> {"none", "open", "settled", "abandoned"}]
        /\ \A r \in Rounds : sesRound'[r] = IF sesRound[r] = "open" THEN "abandoned" ELSE sesRound[r]
        /\ sesTd' \in [F!Callers -> {"none", "cards", "drain", "extensions", "end"}]
        /\ sesTd'[c] \in {"cards", "drain"}
        /\ \A d \in F!Callers : d # c => sesTd'[d] = sesTd[d]
    BY <1>6, TeardownBegins
  <2>2. /\ sesInit' \in {sesInit, "ending"} /\ (sesInit' # sesInit => sesInit = "extensions")
        /\ sesStarter' \in {sesStarter, "ending"}
        /\ sesStarter' # sesStarter => sesStarter \in {"connecting", "extensions"}
        /\ sesCloser' \in {sesCloser, "ending"} /\ (sesCloser' # sesCloser => sesCloser = "none")
        /\ sesWs' \in {sesWs, "none", "down"}
        /\ sesWs' # sesWs => sesWs' \in {"none", "down"}
        /\ sesStarter = "connecting" /\ sesStarter' # sesStarter => sesWs' \in {"none", "down"}
        /\ sesExt' \in {sesExt, "ready", "started"}
        /\ sesExt' # sesExt /\ sesExt' = "started" => sesStarter = "extensions"
        /\ sesExt' # sesExt /\ sesExt' = "ready" => sesInit = "extensions"
    <3>1. CASE F!ExtensionsFail \/ F!ConnectFails \/ (F!Close /\ sesInit # "none")
      BY <3>1 DEF F!ExtensionsFail, F!ConnectFails, F!Close
    <3>2. CASE F!Connected \/ F!Started
      BY <2>1, <3>2 DEF F!Connected, F!Started, F!Down
    <3> QED BY <1>6, <3>1, <3>2
  <2>3. SessionTypes'
    <3>1. /\ sesInit' \in {"none", "loading", "extensions", "ending", "done", "failed"}
          /\ sesStarter' \in {"none", "identity", "connecting", "extensions", "ending", "done", "failed"}
          /\ sesCloser' \in {"none", "ending", "bot", "closed"}
          /\ sesWs' \in {"none", "opening", "up", "down"} /\ sesExt' \in {"none", "ready", "started", "closed"}
      BY <2>2 DEF SessionTypes, F!TypeOK
    <3> QED BY <2>1, <3>1 DEF SessionTypes, F!TypeOK
  <2>4. F!Tracked' = F!Tracked
    BY <2>1 DEF F!Tracked
  <2>5. RoundInv'
    BY <2>1, <2>2, <2>4 DEF RoundInv
  <2>6. F!SettledOnce' /\ F!EndedSessionAsksNothing'
    BY <2>1 DEF F!SettledOnce, F!EndedSessionAsksNothing
  <2>7. TeardownInv'
    BY <2>1, <2>2, <2>4 DEF TeardownInv, SessionTypes, F!TypeOK
  <2>8. F!ExtensionOutlivesItsCalls'
    BY <2>2, <2>4 DEF F!ExtensionOutlivesItsCalls
  <2> QED BY <2>3, <2>5, <2>6, <2>7, <2>8
<1>7. CASE F!Initialize \/ F!Start \/ F!Loaded \/ F!ExtensionsReady \/ F!InitFailed \/ F!Connecting \/ F!StartFailed
  BY <1>1, <1>2, <1>7
<1>8. CASE F!Connected \/ F!ConnectFails \/ F!ExtensionsFail \/ F!Started \/ F!Close
  BY <1>3, <1>4, <1>5, <1>6, <1>8 DEF F!Connected, F!ConnectFails, F!ExtensionsFail, F!Started, F!Close
<1> QED BY <1>7, <1>8 DEF F!Booting

\* What a teardown waits for, and its end.
LEMMA SessionEnding ==
  ASSUME SessionInv, F!Ending
  PROVE  SessionInv'
<1> USE DEF SessionInv
<1>1. ASSUME NEW c \in F!Callers, F!CardsDrained(c) \/ F!Drained(c) \/ F!ExtensionsClosed(c)
      PROVE  SessionInv'
  <2>1. /\ UNCHANGED <<sesLive, F!boot, sesWs, F!asking>>
        /\ sesCards' \in {sesCards, "drained"}
        /\ sesTd' \in [F!Callers -> {"none", "cards", "drain", "extensions", "end"}]
        /\ \A d \in F!Callers : d # c => sesTd'[d] = sesTd[d]
        /\ sesTd[c] # "none"
    BY <1>1 DEF F!CardsDrained, F!Drained, F!ExtensionsClosed, SessionTypes, F!TypeOK
  <2>2. /\ sesTd'[c] \in {"extensions", "end"} => F!Tracked = {} /\ sesStarter # "extensions"
        /\ \/ sesExt' = sesExt /\ (sesTd'[c] # "end" \/ sesExt = "none")
           \/ sesExt' = "closed" /\ sesExt # "none" /\ F!Tracked = {}
    <3>1. CASE F!CardsDrained(c)
      BY <3>1 DEF F!CardsDrained, SessionTypes, F!TypeOK
    <3>2. CASE F!Drained(c)
      BY <3>2 DEF F!Drained, SessionTypes, F!TypeOK
    <3>3. CASE F!ExtensionsClosed(c)
      BY <3>3 DEF F!ExtensionsClosed, TeardownInv, SessionTypes, F!TypeOK
    <3> QED BY <1>1, <3>1, <3>2, <3>3
  <2>3. /\ F!Tracked' = F!Tracked /\ ~sesLive
    BY <2>1 DEF F!asking, F!Tracked, TeardownInv
  <2>4. SessionTypes'
    BY <2>1, <2>2 DEF SessionTypes, F!TypeOK, F!asking, F!boot
  <2>5. RoundInv' /\ F!SettledOnce' /\ F!EndedSessionAsksNothing' /\ F!ExtensionOutlivesItsCalls'
    BY <2>1, <2>2, <2>3 DEF RoundInv, F!SettledOnce, F!EndedSessionAsksNothing, F!ExtensionOutlivesItsCalls, F!asking, F!boot
  <2>6. TeardownInv'
    BY <2>1, <2>2, <2>3 DEF TeardownInv, F!asking, F!boot
  <2> QED BY <2>4, <2>5, <2>6
<1>2. CASE F!ClosesBot
  BY <1>2 DEF F!ClosesBot, F!Down, F!Callers, F!asking, SessionTypes, F!TypeOK, RoundInv, F!SettledOnce,
              F!EndedSessionAsksNothing, TeardownInv, F!ExtensionOutlivesItsCalls, F!Tracked
<1> QED BY <1>1, <1>2 DEF F!Ending

\* A question that is asked.
LEMMA SessionAsks ==
  ASSUME SessionInv, NEW r \in Rounds, F!AskUserQuestion(r) \/ F!CardSent(r) \/ F!CardFails(r) \/ F!Activate(r)
  PROVE  SessionInv'
<1> USE DEF SessionInv
<1>1. /\ UNCHANGED <<sesLive, F!boot, sesTd, sesCards, sesWs, sesExt, sesClick, sesAnswered, sesOutcome, sesDelivery>>
      /\ sesAsk' \in [Rounds -> {"none", "sending", "landed", "ended"}]
      /\ sesAsk[r] # "ended" /\ sesAsk'[r] # "none"
      /\ \A q \in Rounds : q # r => sesAsk'[q] = sesAsk[q]
      /\ sesAsk[r] = "none" => sesLive /\ sesInit = "done"
  BY DEF F!AskUserQuestion, F!CardSent, F!CardFails, F!Activate, SessionTypes, F!TypeOK
<1>2. /\ sesRound[r] = "none" /\ sesOutcome[r] = {}
      /\ \/ sesRound' = sesRound /\ sesTimer' = sesTimer
         \/ /\ sesLive /\ sesAsk'[r] = "ended" /\ sesRound' = [sesRound EXCEPT ![r] = "open"]
            /\ sesTimer' = sesTimer \union {r}
  BY DEF F!AskUserQuestion, F!CardSent, F!CardFails, F!Activate, SessionTypes, F!TypeOK, RoundInv
<1>3. SessionTypes'
  BY <1>1, <1>2 DEF SessionTypes, F!TypeOK, F!boot
<1>4. RoundInv' /\ F!SettledOnce' /\ F!EndedSessionAsksNothing'
  BY <1>1, <1>2 DEF RoundInv, F!SettledOnce, F!EndedSessionAsksNothing, SessionTypes, F!TypeOK, F!boot
<1>5. F!Tracked = {} /\ ~sesLive => F!Tracked' = {}
  BY <1>1 DEF F!Tracked, SessionTypes, F!TypeOK
<1>6. TeardownInv'
  BY <1>1, <1>5 DEF TeardownInv, F!boot
<1>7. F!ExtensionOutlivesItsCalls'
  BY <1>1, <1>5 DEF F!ExtensionOutlivesItsCalls, TeardownInv
<1> QED BY <1>3, <1>4, <1>6, <1>7

\* A question that is answered, or not.
LEMMA SessionAnswers ==
  ASSUME SessionInv,
         \/ \E k \in Clicks : F!ClickArrives(k) \/ F!ClickHandled(k)
         \/ \E r \in Rounds : F!Expire(r) \/ F!DeliverSettlement(r) \/ F!DeliveryFails(r)
  PROVE  SessionInv'
<1> USE DEF SessionInv
<1> DEFINE Applied(j) == /\ F!ClickHandled(j) /\ sesRound[sesClick[j].round] = "open"
                         /\ F!Apply(sesClick[j].round, sesClick[j].kind)
<1>0. ASSUME NEW k \in Clicks, Applied(k)
      PROVE  sesClick[k].round \in Rounds /\ sesClick[k].kind \in F!Kinds
  <2>1. sesClick[k] \in Click /\ sesClick[k].stage = "checking"
    BY <1>0 DEF F!ClickHandled, SessionTypes
  <2> QED BY <2>1 DEF Click
<1>1. /\ UNCHANGED <<sesLive, F!boot, sesTd, sesCards, sesWs, sesExt, sesAsk>>
      /\ sesDelivery' \in [Rounds -> {"none", "pending", "sent", "dropped"}]
  <2>1. ASSUME NEW k \in Clicks, Applied(k)
        PROVE  sesDelivery' \in [Rounds -> {"none", "pending", "sent", "dropped"}]
    BY <1>0, <2>1 DEF F!Apply, F!CloseRound, F!Kinds, SessionTypes, F!TypeOK
  <2> QED
    BY <2>1 DEF F!ClickArrives, F!ClickHandled, F!Expire, F!DeliverSettlement, F!DeliveryFails, F!CloseRound,
                SessionTypes, F!TypeOK
<1>2. /\ sesClick' \in [Clicks -> Click]
      /\ ~sesLive => \A j \in Clicks : sesClick'[j].stage = "checking" => sesClick[j].stage = "checking"
      /\ sesInit = "none" => \A j \in Clicks : sesClick'[j].stage # "checking"
  <2>1. ASSUME NEW k \in Clicks, F!ClickArrives(k)
        PROVE  sesLive /\ sesInit # "none" /\ sesClick' \in [Clicks -> Click]
    <3>1. PICK q \in Rounds, kind \in F!Kinds :
            /\ sesAsk[q] = "landed" \/ sesRound[q] # "none"
            /\ sesClick' = [sesClick EXCEPT ![k] = [stage |-> "checking", round |-> q, kind |-> kind]]
      BY <2>1 DEF F!ClickArrives
    <3>2. [stage |-> "checking", round |-> q, kind |-> kind] \in Click
      BY DEF Click
    <3>3. sesInit # "none"
      BY <3>1 DEF RoundInv
    <3> QED BY <2>1, <3>1, <3>2, <3>3 DEF F!ClickArrives, SessionTypes
  <2>2. ASSUME NEW k \in Clicks, F!ClickHandled(k)
        PROVE  /\ sesClick' \in [Clicks -> Click] /\ sesClick'[k].stage # "checking"
               /\ \A j \in Clicks : j # k => sesClick'[j] = sesClick[j]
    <3>1. [stage |-> "ended"] \in Click /\ [stage |-> "ended"].stage # "checking"
      BY DEF Click
    <3> QED BY <2>2, <3>1 DEF F!ClickHandled, SessionTypes
  <2>3. CASE UNCHANGED sesClick
    BY <2>3 DEF SessionTypes, RoundInv, F!Tracked
  <2> QED BY <2>1, <2>2, <2>3 DEF F!Expire, F!DeliverSettlement, F!DeliveryFails, RoundInv, F!Tracked
<1> DEFINE Outcome ==
      \/ UNCHANGED <<sesRound, sesTimer, sesOutcome, sesAnswered>>
      \/ UNCHANGED <<sesRound, sesOutcome, sesAnswered>> /\ sesTimer' \subseteq sesTimer
      \/ \E q \in Rounds : /\ sesRound[q] = "open" /\ UNCHANGED <<sesRound, sesTimer, sesOutcome>>
                           /\ sesAnswered' \in {sesAnswered \union {q}, sesAnswered \ {q}}
      \/ \E q \in Rounds, how \in {"submitted", "cancelled", "expired"} :
           /\ sesRound[q] = "open" /\ F!CloseRound(q, how) /\ sesAnswered' = sesAnswered
           /\ how = "submitted" => q \in sesAnswered
<1>3. Outcome
  <2>1. ASSUME NEW k \in Clicks, Applied(k)
        PROVE  Outcome
    BY <1>0, <2>1 DEF F!Apply, F!Kinds
  <2>2. ASSUME NEW k \in Clicks, F!ClickArrives(k) \/ (F!ClickHandled(k) /\ ~Applied(k))
        PROVE  UNCHANGED <<sesRound, sesTimer, sesOutcome, sesAnswered>>
    BY <2>2 DEF F!ClickArrives, F!ClickHandled
  <2>3. ASSUME NEW r \in Rounds, F!Expire(r) \/ F!DeliverSettlement(r) \/ F!DeliveryFails(r)
        PROVE  Outcome
    BY <2>3 DEF F!Expire, F!DeliverSettlement, F!DeliveryFails
  <2> QED BY <2>1, <2>2, <2>3
<1>4. SessionTypes' /\ RoundInv' /\ F!SettledOnce' /\ F!EndedSessionAsksNothing'
  <2>0. /\ sesInit = "none" => F!Tracked' = {}
        /\ sesDelivery' \in [Rounds -> {"none", "pending", "sent", "dropped"}]
    BY <1>1, <1>2 DEF RoundInv, F!Tracked
  <2>1. CASE UNCHANGED <<sesRound, sesOutcome>> /\ sesTimer' \subseteq sesTimer
             /\ (sesAnswered' = sesAnswered \/ \E q \in Rounds : /\ sesRound[q] = "open"
                                                 /\ sesAnswered' \in {sesAnswered \union {q}, sesAnswered \ {q}})
    <3>1. SessionTypes'
      BY <1>1, <1>2, <2>0, <2>1 DEF SessionTypes, F!TypeOK, F!boot
    <3>2. RoundInv' /\ F!EndedSessionAsksNothing'
      BY <1>1, <2>0, <2>1 DEF RoundInv, F!EndedSessionAsksNothing, F!boot
    <3>3. F!SettledOnce'
      BY <2>1 DEF F!SettledOnce, RoundInv
    <3> QED BY <3>1, <3>2, <3>3
  <2>2. ASSUME NEW q \in Rounds, NEW how \in {"submitted", "cancelled", "expired"},
               sesRound[q] = "open", F!CloseRound(q, how), sesAnswered' = sesAnswered,
               how = "submitted" => q \in sesAnswered
        PROVE  SessionTypes' /\ RoundInv' /\ F!SettledOnce' /\ F!EndedSessionAsksNothing'
    <3>1. /\ sesRound' \in [Rounds -> {"none", "open", "settled", "abandoned"}]
          /\ sesRound'[q] = "settled" /\ \A p \in Rounds : p # q => sesRound'[p] = sesRound[p]
          /\ sesTimer' = sesTimer \ {q}
          /\ sesOutcome' \in [Rounds -> SUBSET {"submitted", "cancelled", "expired"}]
          /\ sesOutcome'[q] = {how} /\ \A p \in Rounds : p # q => sesOutcome'[p] = sesOutcome[p]
      BY <2>2 DEF F!CloseRound, SessionTypes, F!TypeOK, RoundInv
    <3>2. SessionTypes'
      BY <1>1, <1>2, <2>0, <2>2, <3>1 DEF SessionTypes, F!TypeOK, F!boot
    <3>3. RoundInv' /\ F!EndedSessionAsksNothing'
      BY <1>1, <2>0, <2>2, <3>1 DEF RoundInv, F!EndedSessionAsksNothing, F!boot, SessionTypes, F!TypeOK
    <3>4. F!SettledOnce'
      BY <2>2, <3>1 DEF F!SettledOnce
    <3> QED BY <3>2, <3>3, <3>4
  <2> QED BY <1>3, <2>1, <2>2
<1>5. F!Tracked = {} /\ ~sesLive => F!Tracked' = {}
  BY <1>1, <1>2 DEF F!Tracked
<1>6. TeardownInv'
  BY <1>1, <1>5 DEF TeardownInv, F!boot
<1>7. F!ExtensionOutlivesItsCalls'
  BY <1>1, <1>5 DEF F!ExtensionOutlivesItsCalls, TeardownInv
<1> QED BY <1>4, <1>6, <1>7

LEMMA SessionKept ==
  ASSUME SessionInv, [F!Next]_(F!vars)
  PROVE  SessionInv'
<1>1. CASE UNCHANGED F!vars
  BY <1>1 DEF F!vars, SessionInv, SessionTypes, F!TypeOK, RoundInv, F!SettledOnce, F!EndedSessionAsksNothing,
              TeardownInv, F!ExtensionOutlivesItsCalls, F!Tracked
<1>2. CASE F!Initialize \/ F!Start \/ F!Close \/ F!Booting \/ F!Ending
  BY <1>2, SessionBoots, SessionEnding
<1>3. ASSUME NEW r \in Rounds, F!AskUserQuestion(r) \/ F!Question(r)
      PROVE  SessionInv'
  <2>1. CASE F!AskUserQuestion(r) \/ F!CardSent(r) \/ F!CardFails(r) \/ F!Activate(r)
    BY <2>1, SessionAsks
  <2>2. CASE F!Expire(r) \/ F!DeliverSettlement(r) \/ F!DeliveryFails(r)
    BY <2>2, SessionAnswers
  <2> QED BY <1>3, <2>1, <2>2 DEF F!Question
<1>4. ASSUME NEW k \in Clicks, F!ClickArrives(k) \/ F!ClickHandled(k)
      PROVE  SessionInv'
  BY <1>4, SessionAnswers
<1> QED BY <1>1, <1>2, <1>3, <1>4 DEF F!Next

\* What EdgesSpec does to the session is what its own specification does.
LEMMA AlwaysSessionInv == EdgesSpec => []SessionInv
<1>1. SessionInv /\ [F!Next]_(F!vars) => SessionInv'
  BY SessionKept
<1> QED BY SessionStarts, <1>1, SessionAlone, PTL

----------------------------------------
(* The routing of a Channel                                                *)

Job == [op : {"none", "bind", "unbind", "bindSpace", "unbindSpace", "subscribe", "unsubscribe",
              "forget", "fill"},
        team : R!Teams \union {Nothing}, target : R!Targets, owner : R!Teams \union {Nothing},
        for : Messages \union {Nothing}]

Stages == {"none", "routed", "filling", "building", "creating", "refused", "waiting", "binding",
           "submitting", "final", "falling", "ended"}

RoutingTypes ==
  /\ rouQueue \in Seq(Job)
  /\ rouStage \in [Messages -> Stages]
  /\ rouAdmitted \in [Messages -> SUBSET (R!Teams \union {Nothing})]
  /\ rouTold \subseteq Messages
  /\ rouSession \in {"live", "fenced", "draining", "closed"}

\* The stage of a message that waits for a commit, by what the commit does.
WaitsFor == {<<"fill", "filling">>, <<"forget", "falling">>, <<"bind", "binding">>}

\* A commit that a message waits for is the only one, and it waits where that commit finds it.
JobInv ==
  /\ \A i \in 1 .. Len(rouQueue) : rouQueue[i].for # Nothing =>
       <<rouQueue[i].op, rouStage[rouQueue[i].for]>> \in WaitsFor
  /\ \A i, j \in 1 .. Len(rouQueue) : rouQueue[i].for = rouQueue[j].for /\ rouQueue[i].for # Nothing => i = j

\* Who has a message, or was told that nobody has, is settled with its end.
RecipientInv ==
  \A m \in Messages :
    /\ rouAdmitted[m] # {} => rouStage[m] = "ended" /\ \E who : rouAdmitted[m] = {who}
    /\ m \in rouTold => rouAdmitted[m] = {} /\ rouStage[m] = "ended"

\* A session that drains has nothing in Core.
DrainInv ==
  /\ rouSession \in {"draining", "closed"} =>
       \A m \in Messages : rouStage[m] \notin {"creating", "submitting", "final"}
  /\ R!EndedSessionWritesNothing

RoutingInv == RoutingTypes /\ JobInv /\ RecipientInv /\ DrainInv

LEMMA RoutingStarts == R!Init => RoutingInv
<1> SUFFICES ASSUME R!Init PROVE RoutingInv
  OBVIOUS
<1>1. rouQueue = <<>> /\ <<>> \in Seq(Job) /\ Len(<<>>) = 0
  BY DEF R!Init
<1>2. RoutingTypes
  BY <1>1 DEF R!Init, RoutingTypes, Stages
<1>3. JobInv
  BY <1>1 DEF JobInv
<1>4. RecipientInv /\ DrainInv
  BY DEF R!Init, RecipientInv, DrainInv, R!EndedSessionWritesNothing
<1> QED BY <1>2, <1>3, <1>4 DEF RoutingInv

\* A commit that is queued is the one its message waits for, and the message waited for none.
LEMMA RoutingEnqueues ==
  ASSUME RoutingInv, NEW job \in Job, R!Enqueue(job), rouStage' \in [Messages -> Stages],
         \A n \in Messages : n # job.for => rouStage'[n] = rouStage[n],
         job.for # Nothing => /\ <<job.op, rouStage'[job.for]>> \in WaitsFor
                              /\ rouStage[job.for] \notin {"filling", "falling", "binding"}
  PROVE  rouQueue' \in Seq(Job) /\ JobInv'
<1>1. /\ rouQueue \in Seq(Job) /\ Len(rouQueue) \in Nat
      /\ rouQueue' \in Seq(Job) /\ Len(rouQueue') = Len(rouQueue) + 1 /\ rouQueue'[Len(rouQueue) + 1] = job
      /\ \A i \in 1 .. Len(rouQueue) : rouQueue'[i] = rouQueue[i] /\ rouQueue[i] \in Job
  BY DEF RoutingInv, RoutingTypes, R!Enqueue
<1>2. \A i \in 1 .. Len(rouQueue) : rouQueue[i].for # Nothing =>
        rouQueue[i].for # job.for /\ <<rouQueue'[i].op, rouStage'[rouQueue'[i].for]>> \in WaitsFor
  <2> SUFFICES ASSUME NEW i \in 1 .. Len(rouQueue), rouQueue[i].for # Nothing
               PROVE  rouQueue[i].for # job.for /\ <<rouQueue'[i].op, rouStage'[rouQueue'[i].for]>> \in WaitsFor
    OBVIOUS
  <2>1. <<rouQueue[i].op, rouStage[rouQueue[i].for]>> \in WaitsFor /\ rouQueue[i].for \in Messages
    BY <1>1 DEF RoutingInv, JobInv, Job
  <2>2. rouQueue[i].for # job.for
    BY <2>1 DEF WaitsFor
  <2> QED BY <1>1, <2>1, <2>2
<1>3. \A i \in 1 .. Len(rouQueue') : i \in 1 .. Len(rouQueue) \/ i = Len(rouQueue) + 1
  BY <1>1
<1>4. \A i \in 1 .. Len(rouQueue') : rouQueue'[i].for # Nothing => <<rouQueue'[i].op, rouStage'[rouQueue'[i].for]>> \in WaitsFor
  BY <1>1, <1>2, <1>3
<1>5. \A i, j \in 1 .. Len(rouQueue') : rouQueue'[i].for = rouQueue'[j].for /\ rouQueue'[i].for # Nothing => i = j
  <2> SUFFICES ASSUME NEW i \in 1 .. Len(rouQueue'), NEW j \in 1 .. Len(rouQueue'),
                      rouQueue'[i].for = rouQueue'[j].for, rouQueue'[i].for # Nothing
               PROVE  i = j
    OBVIOUS
  <2>1. CASE i \in 1 .. Len(rouQueue) /\ j \in 1 .. Len(rouQueue)
    BY <1>1, <2>1 DEF RoutingInv, JobInv
  <2>2. CASE i = Len(rouQueue) + 1 \/ j = Len(rouQueue) + 1
    BY <1>1, <1>2, <1>3, <2>2
  <2> QED BY <1>3, <2>1, <2>2
<1> QED BY <1>1, <1>4, <1>5 DEF JobInv

\* Who waits for no commit may go on.
LEMMA RoutingQueue ==
  ASSUME RoutingInv, rouQueue' = rouQueue, NEW m \in Messages, rouStage' \in [Messages -> Stages],
         \A n \in Messages : n # m => rouStage'[n] = rouStage[n],
         rouStage'[m] = rouStage[m] \/ rouStage[m] \notin {"filling", "falling", "binding"}
  PROVE  JobInv'
<1>1. \A i \in 1 .. Len(rouQueue) : rouQueue[i].for # Nothing =>
        rouStage'[rouQueue[i].for] = rouStage[rouQueue[i].for]
  <2> SUFFICES ASSUME NEW i \in 1 .. Len(rouQueue), rouQueue[i].for # Nothing
               PROVE  rouStage'[rouQueue[i].for] = rouStage[rouQueue[i].for]
    OBVIOUS
  <2>1. rouQueue[i] \in Job
    BY DEF RoutingInv, RoutingTypes
  <2>2. <<rouQueue[i].op, rouStage[rouQueue[i].for]>> \in WaitsFor /\ rouQueue[i].for \in Messages
    BY <2>1 DEF RoutingInv, JobInv, Job
  <2> QED BY <2>2 DEF WaitsFor
<1> QED BY <1>1 DEF RoutingInv, JobInv

\* Tools, commands, Core and the session: no message moves.
LEMMA RoutingOutside ==
  ASSUME R!RoutingAssumption, RoutingInv,
         \/ \E team \in R!Teams, t \in R!Targets : R!BindChannel(team, t)
         \/ \E t \in R!Targets : R!UnbindChannel(t)
         \/ R!BindSpace \/ R!UnbindSpace \/ R!CloseAdmission \/ R!Abort \/ R!Drained
         \/ \E team \in R!Teams : R!Subscribe(team) \/ R!Unsubscribe(team) \/ R!TeamCloses(team) \/ R!TeamState(team)
  PROVE  RoutingInv'
<1> USE DEF RoutingInv
<1>1. UNCHANGED <<rouStage, rouAdmitted, rouTo, rouTold>>
  BY DEF R!BindChannel, R!UnbindChannel, R!BindSpace, R!UnbindSpace, R!CloseAdmission, R!Abort, R!Drained,
         R!Subscribe, R!Unsubscribe, R!TeamCloses, R!TeamState, R!Edit
<1>2. \/ UNCHANGED <<rouQueue, rouSession>>
      \/ rouSession' = rouSession /\ rouSession \in {"live", "fenced"} /\ \E job \in Job : R!Enqueue(job) /\ job.for = Nothing
      \/ rouSession' = "fenced" /\ rouQueue' = rouQueue
      \/ rouSession' = "draining" /\ R!InCore = {} /\ rouQueue' = rouQueue
      \/ rouSession = "draining" /\ rouSession' = "closed" /\ rouQueue = <<>> /\ rouQueue' = rouQueue
  <2>0. R!NoJob \in Job /\ R!NoJob.for = Nothing
    BY DEF R!NoJob, Job, R!Targets
  <2>1. ASSUME NEW team \in R!Teams, NEW t \in R!Targets, R!BindChannel(team, t)
        PROVE  rouSession' = rouSession /\ rouSession = "live" /\ \E job \in Job : R!Enqueue(job) /\ job.for = Nothing
    <3>1. PICK owner \in R!Authorities(team) :
            R!Edit([R!NoJob EXCEPT !.op = "bind", !.team = team, !.target = t, !.owner = owner])
      BY <2>1 DEF R!BindChannel
    <3>2. /\ [R!NoJob EXCEPT !.op = "bind", !.team = team, !.target = t, !.owner = owner] \in Job
          /\ [R!NoJob EXCEPT !.op = "bind", !.team = team, !.target = t, !.owner = owner].for = Nothing
      BY <2>0 DEF Job, R!Authorities
    <3> QED BY <3>1, <3>2 DEF R!Edit
  <2>2. ASSUME NEW t \in R!Targets, R!UnbindChannel(t)
        PROVE  rouSession' = rouSession /\ rouSession = "live" /\ \E job \in Job : R!Enqueue(job) /\ job.for = Nothing
    <3>1. PICK owner \in {Nothing} \union R!Teams :
            R!Edit([R!NoJob EXCEPT !.op = "unbind", !.target = t, !.owner = owner])
      BY <2>2 DEF R!UnbindChannel
    <3>2. /\ [R!NoJob EXCEPT !.op = "unbind", !.target = t, !.owner = owner] \in Job
          /\ [R!NoJob EXCEPT !.op = "unbind", !.target = t, !.owner = owner].for = Nothing
      BY <2>0 DEF Job
    <3> QED BY <3>1, <3>2 DEF R!Edit
  <2>3. CASE R!BindSpace \/ R!UnbindSpace
    <3>1. \A o \in {"bindSpace", "unbindSpace"} :
            [R!NoJob EXCEPT !.op = o] \in Job /\ [R!NoJob EXCEPT !.op = o].for = Nothing
      BY <2>0 DEF Job
    <3> QED BY <2>3, <3>1 DEF R!BindSpace, R!UnbindSpace, R!Edit
  <2>4. ASSUME NEW team \in R!Teams, R!Subscribe(team) \/ R!Unsubscribe(team) \/ R!TeamCloses(team) \/ R!TeamState(team)
        PROVE  \/ UNCHANGED <<rouQueue, rouSession>>
               \/ rouSession' = rouSession /\ rouSession \in {"live", "fenced"} /\ \E job \in Job : R!Enqueue(job) /\ job.for = Nothing
    <3>1. \A o \in {"subscribe", "unsubscribe", "forget"} :
            /\ [R!NoJob EXCEPT !.op = o, !.team = team] \in Job
            /\ [R!NoJob EXCEPT !.op = o, !.team = team].for = Nothing
      BY <2>0 DEF Job
    <3> QED BY <2>4, <3>1 DEF R!Subscribe, R!Unsubscribe, R!TeamCloses, R!TeamState, R!Edit, R!Live
  <2>5. CASE R!CloseAdmission \/ R!Abort \/ R!Drained
    BY <2>5 DEF R!CloseAdmission, R!Abort, R!Drained
  <2> QED BY <2>1, <2>2, <2>3, <2>4, <2>5
<1>3. rouQueue' \in Seq(Job) /\ JobInv'
  <2>1. CASE rouQueue' = rouQueue
    BY <1>1, <2>1 DEF RoutingTypes, JobInv
  <2>2. ASSUME NEW job \in Job, R!Enqueue(job), job.for = Nothing
        PROVE  rouQueue' \in Seq(Job) /\ JobInv'
    BY <1>1, <2>2, RoutingEnqueues DEF RoutingTypes
  <2> QED BY <1>2, <2>1, <2>2
<1>4. RoutingTypes'
  BY <1>1, <1>2, <1>3 DEF RoutingTypes
<1>5. RecipientInv'
  BY <1>1 DEF RecipientInv
<1>6. DrainInv'
  BY <1>1, <1>2 DEF DrainInv, R!EndedSessionWritesNothing, R!InCore
<1> QED BY <1>3, <1>4, <1>5, <1>6

\* A message that moves by itself: where it goes, and what is queued for it.
Moved(m) ==
  /\ rouStage[m] \notin {"filling", "falling", "binding", "ended"}
  /\ rouStage' \in [Messages -> Stages]
  /\ \A n \in Messages : n # m => rouStage'[n] = rouStage[n]
  /\ rouStage'[m] \in {"creating", "submitting", "final"} => rouSession = "live"
  /\ \/ rouAdmitted' = rouAdmitted /\ rouTold' \in {rouTold, rouTold \union {m}} /\ (rouTold' = rouTold \/ rouStage'[m] = "ended")
     \/ /\ rouStage'[m] = "ended" /\ rouTold' = rouTold
        /\ \E who \in R!Teams \union {Nothing} : rouAdmitted' = [rouAdmitted EXCEPT ![m] = @ \union {who}]
  /\ rouSession' = rouSession
  /\ \/ rouQueue' = rouQueue
     \/ /\ rouSession # "closed"
        /\ \E job \in Job : R!Enqueue(job) /\ job.for = m /\ <<job.op, rouStage'[m]>> \in WaitsFor

LEMMA RoutingMoved ==
  ASSUME R!RoutingAssumption, RoutingInv, NEW m \in Messages, Moved(m)
  PROVE  RoutingInv'
<1> USE DEF RoutingInv
<1>1. rouQueue' \in Seq(Job) /\ JobInv'
  <2>1. CASE rouQueue' = rouQueue
    BY <2>1, RoutingQueue DEF RoutingTypes, Moved
  <2>2. ASSUME NEW job \in Job, R!Enqueue(job), job.for = m, <<job.op, rouStage'[m]>> \in WaitsFor
        PROVE  rouQueue' \in Seq(Job) /\ JobInv'
    BY <2>2, RoutingEnqueues DEF Moved
  <2> QED BY <2>1, <2>2 DEF Moved
<1>2. rouAdmitted[m] = {} /\ m \notin rouTold
  BY DEF Moved, RecipientInv
<1>3. RoutingTypes'
  BY <1>1 DEF RoutingTypes, Moved
<1>4. RecipientInv'
  <2>1. ASSUME NEW n \in Messages, n # m
        PROVE  rouAdmitted'[n] = rouAdmitted[n] /\ rouStage'[n] = rouStage[n] /\ (n \in rouTold' <=> n \in rouTold)
    BY <2>1 DEF Moved, RoutingTypes
  <2>2. CASE rouAdmitted' = rouAdmitted
    BY <1>2, <2>1, <2>2 DEF RecipientInv, Moved
  <2>3. ASSUME NEW who \in R!Teams \union {Nothing}, rouStage'[m] = "ended", rouTold' = rouTold,
               rouAdmitted' = [rouAdmitted EXCEPT ![m] = @ \union {who}]
        PROVE  RecipientInv'
    <3>1. rouAdmitted'[m] = {who}
      BY <1>2, <2>3 DEF RoutingTypes
    <3> QED BY <1>2, <2>1, <2>3, <3>1 DEF RecipientInv
  <2> QED BY <2>2, <2>3 DEF Moved
<1>5. DrainInv'
  BY DEF DrainInv, R!EndedSessionWritesNothing, Moved, RoutingTypes
<1> QED BY <1>1, <1>3, <1>4, <1>5

\* Submit leaves the message with a recipient, or over.
LEMMA RoutingSubmits ==
  ASSUME RoutingTypes, NEW m \in Messages, NEW team,
         NEW kind \in {"submitting", "final"}, R!Submit(m, team, kind)
  PROVE  /\ rouStage' \in [Messages -> Stages]
         /\ \A n \in Messages : n # m => rouStage'[n] = rouStage[n]
         /\ rouStage'[m] \in {"ended", kind} /\ (rouStage'[m] = kind => rouSession = "live")
  BY DEF R!Submit, RoutingTypes, Stages

\* What a message does of itself is such a move.
LEMMA RoutingMessages ==
  ASSUME R!RoutingAssumption, RoutingInv, NEW m \in Messages, R!Arrive(m) \/ R!Handling(m)
  PROVE  Moved(m)
<1> USE DEF RoutingInv
<1>0. R!NoJob \in Job /\ TargetOf[m] \in R!Targets
  BY DEF R!RoutingAssumption, R!NoJob, Job, R!Targets
<1>1. CASE R!Arrive(m) \/ R!CreateFails(m) \/ R!NotAdmitted(m) \/ R!RejectedFinally(m)
  BY <1>1 DEF R!Arrive, R!CreateFails, R!NotAdmitted, R!RejectedFinally, R!Over, R!Tell, Moved, RoutingTypes, Stages
<1>2. CASE R!LearnTopicRoot(m)
  <2>1. /\ [R!NoJob EXCEPT !.op = "fill", !.target = TargetOf[m], !.for = m] \in Job
        /\ [R!NoJob EXCEPT !.op = "fill", !.target = TargetOf[m], !.for = m].op = "fill"
        /\ [R!NoJob EXCEPT !.op = "fill", !.target = TargetOf[m], !.for = m].for = m
    BY <1>0 DEF Job
  <2>2. \/ rouQueue' = rouQueue /\ rouStage'[m] \in {"ended", "building"}
        \/ /\ rouSession # "closed" /\ rouStage'[m] = "filling"
           /\ R!Enqueue([R!NoJob EXCEPT !.op = "fill", !.target = TargetOf[m], !.for = m])
    BY <1>2 DEF R!LearnTopicRoot, R!Live, RoutingTypes
  <2>3. rouQueue' = rouQueue \/ \E job \in Job : R!Enqueue(job) /\ job.for = m /\ <<job.op, rouStage'[m]>> \in WaitsFor
    BY <2>1, <2>2 DEF WaitsFor
  <2> QED BY <1>2, <2>2, <2>3 DEF R!LearnTopicRoot, Moved, RoutingTypes, Stages
<1>3. CASE R!Deliver(m)
  <2>1. PICK canProvision \in BOOLEAN :
          LET t == TargetOf[m]
              plan == R!Plan(t, canProvision)
          IN CASE m \in R!Tracked /\ ~R!Live -> rouStage' = [rouStage EXCEPT ![m] = "ended"] /\ UNCHANGED <<rouTo, rouRunning>>
               [] (m \in Settlements \/ R!Live) /\ plan = "dispatcher" ->
                    R!Submit(m, R!Dispatcher, "final") /\ UNCHANGED rouRunning
               [] (m \in Settlements \/ R!Live) /\ plan = "bound" ->
                    R!Submit(m, R!Serving(rouDoc, t), "submitting") /\ UNCHANGED rouRunning
               [] (m \in Settlements \/ R!Live) /\ plan = "provision" ->
                    /\ UNCHANGED rouTo
                    /\ IF rouRunning[t] = Nothing /\ rouSession = "live"
                       THEN rouStage' = [rouStage EXCEPT ![m] = "creating"]
                            /\ rouRunning' = [rouRunning EXCEPT ![t] = m]
                       ELSE rouStage' = [rouStage EXCEPT ![m] = IF rouRunning[t] = Nothing THEN "refused"
                                                                                   ELSE "waiting"]
                            /\ UNCHANGED rouRunning
    BY <1>3 DEF R!Deliver
  <2>2. /\ rouStage' \in [Messages -> Stages]
        /\ \A n \in Messages : n # m => rouStage'[n] = rouStage[n]
        /\ rouStage'[m] \in {"creating", "submitting", "final"} => rouSession = "live"
    <3> DEFINE plan == R!Plan(TargetOf[m], canProvision)
    <3>0. plan \in {"bound", "provision", "dispatcher"} /\ (m \in R!Tracked <=> m \notin Settlements)
      BY DEF R!Plan, R!Tracked
    <3> HIDE DEF plan
    <3>1. CASE m \in R!Tracked /\ ~R!Live
      BY <2>1, <3>0, <3>1 DEF RoutingTypes, Stages
    <3>2. CASE (m \in Settlements \/ R!Live) /\ plan = "dispatcher"
      <4>1. R!Submit(m, R!Dispatcher, "final")
        BY <2>1, <3>0, <3>2 DEF plan
      <4> QED BY <4>1, RoutingSubmits
    <3>3. CASE (m \in Settlements \/ R!Live) /\ plan = "bound"
      <4>1. R!Submit(m, R!Serving(rouDoc, TargetOf[m]), "submitting")
        BY <2>1, <3>0, <3>3 DEF plan
      <4> QED BY <4>1, RoutingSubmits
    <3>4. CASE (m \in Settlements \/ R!Live) /\ plan = "provision"
      BY <2>1, <3>0, <3>4 DEF plan, RoutingTypes, Stages
    <3> QED BY <3>0, <3>1, <3>2, <3>3, <3>4
  <2> QED BY <1>3, <2>2 DEF R!Deliver, Moved
<1>4. CASE R!TeamCreated(m)
  <2>1. PICK team \in Fresh :
          R!Enqueue([R!NoJob EXCEPT !.op = "bind", !.team = team, !.target = TargetOf[m], !.for = m])
    BY <1>4 DEF R!TeamCreated
  <2>2. /\ [R!NoJob EXCEPT !.op = "bind", !.team = team, !.target = TargetOf[m], !.for = m] \in Job
        /\ [R!NoJob EXCEPT !.op = "bind", !.team = team, !.target = TargetOf[m], !.for = m].op = "bind"
        /\ [R!NoJob EXCEPT !.op = "bind", !.team = team, !.target = TargetOf[m], !.for = m].for = m
    BY <1>0 DEF Job, R!Teams
  <2>3. rouSession # "closed"
    BY <1>4 DEF R!TeamCreated, DrainInv
  <2>4. /\ rouSession # "closed"
        /\ \E job \in Job : R!Enqueue(job) /\ job.for = m /\ <<job.op, "binding">> \in WaitsFor
    BY <2>1, <2>2, <2>3 DEF WaitsFor
  <2> QED BY <1>4, <2>4 DEF R!TeamCreated, Moved, RoutingTypes, Stages
<1>5. CASE R!DeliverAfterRun(m)
  <2>1. CASE rouDoc.bind[TargetOf[m]] # Nothing
    BY <1>5, <2>1, RoutingSubmits DEF R!DeliverAfterRun, Moved
  <2>2. CASE rouDoc.bind[TargetOf[m]] = Nothing
    BY <1>5, <2>2 DEF R!DeliverAfterRun, R!Tell, Moved, RoutingTypes, Stages
  <2> QED BY <2>1, <2>2
<1>6. CASE R!Admitted(m)
  BY <1>6 DEF R!Admitted, R!Dispatcher, R!Over, Moved, RoutingTypes, Stages
<1>7. CASE R!Rejected(m)
  <2>1. /\ [R!NoJob EXCEPT !.op = "forget", !.team = rouTo[m], !.for = m] \in Job
        /\ [R!NoJob EXCEPT !.op = "forget", !.team = rouTo[m], !.for = m].op = "forget"
        /\ [R!NoJob EXCEPT !.op = "forget", !.team = rouTo[m], !.for = m].for = m
    BY <1>0, <1>7 DEF Job, R!Rejected, R!ClosedTeams
  <2>2. rouSession # "closed"
    BY <1>7 DEF R!Rejected, DrainInv
  <2>3. /\ rouSession # "closed"
        /\ \E job \in Job : R!Enqueue(job) /\ job.for = m /\ <<job.op, "falling">> \in WaitsFor
    BY <1>7, <2>1, <2>2 DEF R!Rejected, WaitsFor
  <2> QED BY <1>7, <2>3 DEF R!Rejected, Moved, RoutingTypes, Stages
<1> QED BY <1>1, <1>2, <1>3, <1>4, <1>5, <1>6, <1>7 DEF R!Handling, R!Answers

\* A commit, and what waited for it.
LEMMA RoutingCommits ==
  ASSUME R!RoutingAssumption, RoutingInv, R!Commit
  PROVE  RoutingInv'
<1> USE DEF RoutingInv
<1> DEFINE job == Head(rouQueue)
           m == job.for
<1>1. /\ rouQueue # <<>> /\ Len(rouQueue) \in Nat \ {0} /\ job = rouQueue[1] /\ job \in Job
      /\ rouQueue' \in Seq(Job) /\ Len(rouQueue') = Len(rouQueue) - 1
      /\ \A i \in 1 .. Len(rouQueue') : i + 1 \in 1 .. Len(rouQueue) /\ rouQueue'[i] = rouQueue[i + 1]
  <2>1. rouQueue \in Seq(Job) /\ rouQueue # <<>> /\ rouQueue' = Tail(rouQueue)
    BY DEF R!Commit, RoutingTypes
  <2>2. Len(rouQueue) \in Nat \ {0}
    BY <2>1
  <2> QED BY <2>1, <2>2
<1>2. /\ UNCHANGED <<rouSession, rouAdmitted>>
      /\ \E ok \in BOOLEAN : R!Continue(job, ok)
  <2>1. UNCHANGED <<rouSession, rouAdmitted>>
    BY DEF R!Commit
  <2>2. PICK written \in BOOLEAN : R!Continue(job, ~R!Refused(rouDoc, job) /\ written)
    BY DEF R!Commit
  <2> QED BY <2>1, <2>2
<1>3. \A i \in 1 .. Len(rouQueue') : rouQueue'[i].for # Nothing =>
        /\ rouQueue'[i].for \in Messages /\ rouQueue'[i].for # m
        /\ <<rouQueue'[i].op, rouStage[rouQueue'[i].for]>> \in WaitsFor
  <2> SUFFICES ASSUME NEW i \in 1 .. Len(rouQueue'), rouQueue'[i].for # Nothing
               PROVE  /\ rouQueue'[i].for \in Messages /\ rouQueue'[i].for # m
                      /\ <<rouQueue'[i].op, rouStage[rouQueue'[i].for]>> \in WaitsFor
    OBVIOUS
  <2>1. i + 1 \in 1 .. Len(rouQueue) /\ rouQueue'[i] = rouQueue[i + 1] /\ i + 1 # 1 /\ 1 \in 1 .. Len(rouQueue)
    BY <1>1
  <2>2. rouQueue[i + 1] \in Job
    BY <2>1 DEF RoutingTypes
  <2>3. rouQueue[i + 1].for # rouQueue[1].for
    BY <2>1 DEF JobInv
  <2> QED BY <1>1, <2>1, <2>2, <2>3 DEF JobInv, Job
<1>4. \A i, j \in 1 .. Len(rouQueue') : rouQueue'[i].for = rouQueue'[j].for /\ rouQueue'[i].for # Nothing => i = j
  <2> SUFFICES ASSUME NEW i \in 1 .. Len(rouQueue'), NEW j \in 1 .. Len(rouQueue'),
                      rouQueue'[i].for = rouQueue'[j].for, rouQueue'[i].for # Nothing
               PROVE  i = j
    OBVIOUS
  <2>1. i + 1 = j + 1
    BY <1>1 DEF JobInv
  <2> QED BY <2>1
<1>5. /\ rouStage' \in [Messages -> Stages]
      /\ \A n \in Messages : n # m => rouStage'[n] = rouStage[n] /\ (n \in rouTold' <=> n \in rouTold)
      /\ m \in Messages =>
           /\ rouStage[m] \in {"filling", "falling", "binding"}
           /\ rouStage'[m] \in {"creating", "submitting", "final"} => rouSession = "live"
           /\ m \in rouTold' => m \in rouTold \/ rouStage'[m] = "ended"
      /\ rouTold' \subseteq Messages
  <2>1. PICK ok \in BOOLEAN : R!Continue(job, ok)
    BY <1>2
  <2>2. CASE m = Nothing
    BY <2>1, <2>2 DEF R!Continue, RoutingTypes, R!RoutingAssumption
  <2>3. CASE m # Nothing
    <3>1. m \in Messages /\ <<job.op, rouStage[m]>> \in WaitsFor
      BY <1>1, <2>3 DEF Job, JobInv
    <3> HIDE DEF job
    <3>2. CASE job.op = "fill"
      BY <2>1, <2>3, <3>1, <3>2 DEF R!Continue, RoutingTypes, Stages, WaitsFor
    <3>3. CASE job.op = "forget"
      <4>1. R!Submit(m, R!Dispatcher, "final") /\ rouTold' = rouTold
        BY <2>1, <2>3, <3>3 DEF R!Continue
      <4> QED BY <3>1, <3>3, <4>1, RoutingSubmits DEF WaitsFor, RoutingTypes
    <3>4. CASE job.op = "bind" /\ ok
      <4>1. R!Submit(m, job.team, "final") /\ rouTold' = rouTold
        BY <2>1, <2>3, <3>4 DEF R!Continue
      <4> QED BY <3>1, <3>4, <4>1, RoutingSubmits DEF WaitsFor, RoutingTypes
    <3>5. CASE job.op = "bind" /\ ~ok
      BY <2>1, <2>3, <3>1, <3>5 DEF R!Continue, R!Tell, RoutingTypes, Stages, WaitsFor
    <3> QED BY <3>1, <3>2, <3>3, <3>4, <3>5 DEF WaitsFor
  <2> QED BY <2>2, <2>3
<1> HIDE DEF job
<1>6. RoutingTypes'
  BY <1>1, <1>2, <1>5 DEF RoutingTypes
<1>7. JobInv'
  BY <1>3, <1>4, <1>5 DEF JobInv
<1>8. RecipientInv'
  BY <1>2, <1>5 DEF RecipientInv
<1>9. DrainInv'
  BY <1>1, <1>2, <1>5 DEF DrainInv, R!EndedSessionWritesNothing
<1> QED BY <1>6, <1>7, <1>8, <1>9

LEMMA RoutingKept ==
  ASSUME R!RoutingAssumption, RoutingInv, [R!Next]_(R!vars)
  PROVE  RoutingInv'
<1>1. CASE UNCHANGED R!vars
  BY <1>1 DEF R!vars, RoutingInv, RoutingTypes, JobInv, RecipientInv, DrainInv, R!EndedSessionWritesNothing
<1>2. CASE R!Commit
  BY <1>2, RoutingCommits
<1>3. CASE \E m \in Messages : R!Arrive(m) \/ R!Handling(m)
  BY <1>3, RoutingMessages, RoutingMoved
<1>4. CASE ~R!Commit /\ ~(\E m \in Messages : R!Arrive(m) \/ R!Handling(m)) /\ R!Next
  BY <1>4, RoutingOutside DEF R!Next
<1> QED BY <1>1, <1>2, <1>3, <1>4

\* A message has one recipient at most.
LEMMA OneRecipientHolds ==
  ASSUME RoutingInv
  PROVE  R!OneRecipient
<1> SUFFICES ASSUME NEW m \in Messages
             PROVE  Cardinality(rouAdmitted[m]) <= 1 /\ (m \in rouTold => rouAdmitted[m] = {} /\ rouStage[m] = "ended")
  BY SameCardinality DEF R!OneRecipient
<1>1. CASE rouAdmitted[m] = {}
  BY <1>1, FS_EmptySet DEF RoutingInv, RecipientInv
<1>2. CASE rouAdmitted[m] # {}
  <2>1. PICK who : rouAdmitted[m] = {who}
    BY <1>2 DEF RoutingInv, RecipientInv
  <2>2. Cardinality({who}) = 1
    BY FS_Singleton
  <2> QED BY <1>2, <2>1, <2>2 DEF RoutingInv, RecipientInv
<1> QED BY <1>1, <1>2

LEMMA AlwaysRoutingInv == EdgesSpec => []RoutingInv
<1>1. RoutingInv /\ [R!Next]_(R!vars) => RoutingInv'
  BY RoutingKept, EdgesAssumption
<1> QED BY RoutingStarts, <1>1, RoutingAlone, PTL

\* A route's document, Teams and runs.
Document ==
  [bind : [R!Targets -> R!Teams \union {Nothing}], root : SUBSET Topics, space : BOOLEAN,
   docs : SUBSET R!Teams]

RouteTypes ==
  /\ rouDoc \in Document /\ rouCore \in [R!Teams -> {"none", "open", "closed"}]
  /\ rouRunning \in [Topics -> Messages \union {Nothing}] /\ rouDisturbed \in BOOLEAN
  /\ \A team \in Fresh, t \in Topics : <<team, t>> \in rouMade => rouCore[team] # "none"

\* A commit that gives a topic the Team that was created for it.
Awaited(job) == job.op = "bind" /\ job.for # Nothing

\* What a commit names: a Team that is bound or subscribed, a topic that has a root.
NamesWell(job) ==
  /\ job.op # "none"
  /\ job.op \in {"bind", "subscribe"} => job.team \in R!Teams
  /\ job.op = "fill" \/ Awaited(job) => job.target \in Topics

\* What a commit that is queued was asked for.
AskedFor(job) ==
  /\ NamesWell(job)
  /\ job.op \in {"bind", "unbind"} /\ job.for = Nothing => rouDisturbed
  /\ job.op = "forget" => job.team \in R!Teams /\ rouCore[job.team] = "closed"
  /\ Awaited(job) => /\ job.team \in Fresh /\ job.owner = Nothing
                     /\ job.target = TargetOf[job.for]
                     /\ rouRunning[job.target] = job.for

AskedInv == \A i \in 1 .. Len(rouQueue) : AskedFor(rouQueue[i])

\* A Team is created by the run its topic has.
CreatingInv ==
  \A m \in Messages : rouStage[m] = "creating" =>
    TargetOf[m] \in Topics /\ rouRunning[TargetOf[m]] = m

TeamsFor(t) == {team \in Fresh : <<team, t>> \in rouMade /\ rouCore[team] = "open"}

\* The Team of a topic is bound to it, or the commit that will bind it is queued.
MadeInv ==
  ~rouDisturbed =>
    /\ \A m \in Messages : rouStage[m] = "creating" => TeamsFor(TargetOf[m]) = {}
    /\ \A i \in 1 .. Len(rouQueue) : Awaited(rouQueue[i]) =>
         \A team \in TeamsFor(rouQueue[i].target) : team = rouQueue[i].team
    /\ \A t \in Topics : \A team \in TeamsFor(t) :
         \/ rouDoc.bind[t] = team
         \/ \E i \in 1 .. Len(rouQueue) :
              Awaited(rouQueue[i]) /\ rouQueue[i].target = t /\ rouQueue[i].team = team

\* Who presents: a session that is over has no fence left.
RuleInv ==
  /\ R!OneRuleForTheChat /\ R!OwnRouteMayPresent
  /\ rouFence \subseteq R!Teams \X R!Targets
  /\ ~R!Live => rouFence = {}

OwnerInv == RouteTypes /\ AskedInv /\ CreatingInv /\ MadeInv /\ RuleInv

LEMMA OwnerStarts == R!Init => OwnerInv
<1> SUFFICES ASSUME R!Init PROVE OwnerInv
  OBVIOUS
<1>1. rouDoc \in Document
  BY DEF R!Init, Document
<1>2. RouteTypes
  BY <1>1 DEF R!Init, RouteTypes
<1>3. Len(rouQueue) = 0 /\ \A t \in Topics : TeamsFor(t) = {}
  BY DEF R!Init, TeamsFor
<1>4. AskedInv /\ CreatingInv /\ MadeInv
  BY <1>3 DEF R!Init, AskedInv, CreatingInv, MadeInv
<1>5. RuleInv
  BY DEF R!Init, RuleInv, R!OneRuleForTheChat, R!OwnRouteMayPresent, R!Targets
<1> QED BY <1>2, <1>4, <1>5 DEF OwnerInv

\* The queue with one commit more.
LEMMA RoutingQueueMore ==
  ASSUME rouQueue \in Seq(Job), NEW job \in Job, R!Enqueue(job)
  PROVE  /\ Len(rouQueue) \in Nat /\ Len(rouQueue') = Len(rouQueue) + 1
         /\ \A i \in 1 .. Len(rouQueue) : i \in 1 .. Len(rouQueue') /\ rouQueue'[i] = rouQueue[i] /\ rouQueue[i] \in Job
         /\ \A i \in 1 .. Len(rouQueue') : i \in 1 .. Len(rouQueue) \/ rouQueue'[i] = job
         /\ Len(rouQueue) + 1 \in 1 .. Len(rouQueue') /\ rouQueue'[Len(rouQueue) + 1] = job
<1>1. Len(rouQueue) \in Nat /\ rouQueue' = Append(rouQueue, job) /\ Len(rouQueue') = Len(rouQueue) + 1
  BY DEF R!Enqueue
<1> QED BY <1>1

\* A step that changes no route and creates no Team.
RoutingQuiet ==
  /\ UNCHANGED <<rouDoc, rouMade>>
  /\ rouFence' \subseteq rouFence /\ (~R!Live' => rouFence' = {})
  /\ rouDisturbed' \in BOOLEAN /\ (rouDisturbed => rouDisturbed')
  /\ rouCore' \in [R!Teams -> {"none", "open", "closed"}]
  /\ \A team \in R!Teams : /\ rouCore'[team] = "open" => rouCore[team] = "open"
                           /\ rouCore[team] = "closed" => rouCore'[team] = "closed"
                           /\ rouCore[team] # "none" => rouCore'[team] # "none"
  /\ rouRunning' \in [Topics -> Messages \union {Nothing}]
  /\ \/ rouQueue' = rouQueue
     \/ \E job \in Job : R!Enqueue(job) /\ ~Awaited(job) /\ AskedFor(job)'
  /\ \A n \in Messages : rouStage[n] = "binding" /\ TargetOf[n] \in Topics =>
       (rouRunning[TargetOf[n]] = n => rouRunning'[TargetOf[n]] = n)
  /\ \A n \in Messages : rouStage'[n] = "creating" =>
       \/ rouStage[n] = "creating" /\ rouRunning'[TargetOf[n]] = rouRunning[TargetOf[n]]
       \/ /\ TargetOf[n] \in Topics /\ rouRunning'[TargetOf[n]] = n
          /\ rouDoc.bind[TargetOf[n]] = Nothing /\ rouRunning[TargetOf[n]] = Nothing

LEMMA RoutingQuietKeeps ==
  ASSUME R!RoutingAssumption, RoutingInv, OwnerInv, RoutingQuiet
  PROVE  OwnerInv'
<1> USE DEF OwnerInv
<1>1. RouteTypes'
  BY DEF RoutingQuiet, RouteTypes, R!Teams
<1>2. rouQueue \in Seq(Job) /\ \A i \in 1 .. Len(rouQueue) : rouQueue[i] \in Job
  BY DEF RoutingInv, RoutingTypes
<1>3. ASSUME NEW job \in Job, AskedFor(job), Awaited(job) => rouStage[job.for] = "binding"
      PROVE  AskedFor(job)'
  <2>1. job.team \in R!Teams \union {Nothing} /\ job.for \in Messages \union {Nothing}
    BY DEF Job
  <2> QED BY <1>3, <2>1 DEF AskedFor, NamesWell, Awaited, RoutingQuiet
<1>4. \A i \in 1 .. Len(rouQueue) : Awaited(rouQueue[i]) => rouStage[rouQueue[i].for] = "binding"
  BY <1>2 DEF RoutingInv, JobInv, Awaited, WaitsFor
<1>5. \A i \in 1 .. Len(rouQueue') : i \notin 1 .. Len(rouQueue) \/ rouQueue'[i] # rouQueue[i] => ~Awaited(rouQueue'[i])
  BY <1>2, RoutingQueueMore DEF RoutingQuiet
<1>6. \A i \in 1 .. Len(rouQueue) : i \in 1 .. Len(rouQueue') /\ rouQueue'[i] = rouQueue[i]
  BY <1>2, RoutingQueueMore DEF RoutingQuiet
<1>7. AskedInv'
  <2> SUFFICES ASSUME NEW i \in 1 .. Len(rouQueue') PROVE AskedFor(rouQueue[i])'
    BY DEF AskedInv
  <2>1. PICK job \in Job : job = rouQueue'[i] /\ AskedFor(job)'
    <3>1. CASE i \in 1 .. Len(rouQueue)
      <4>1. PICK job \in Job : job = rouQueue[i]
        BY <1>2, <3>1
      <4>2. AskedFor(job) /\ (Awaited(job) => rouStage[job.for] = "binding")
        BY <1>4, <3>1, <4>1 DEF AskedInv
      <4> QED BY <1>3, <1>6, <3>1, <4>1, <4>2
    <3>2. CASE i \notin 1 .. Len(rouQueue)
      <4>1. PICK job \in Job : R!Enqueue(job) /\ AskedFor(job)'
        BY <3>2 DEF RoutingQuiet
      <4>2. rouQueue'[i] = job
        BY <1>2, <3>2, <4>1, RoutingQueueMore
      <4> QED BY <4>1, <4>2
    <3> QED BY <3>1, <3>2
  <2> QED BY <2>1 DEF AskedFor, NamesWell, Awaited
<1>8. CreatingInv'
  BY DEF CreatingInv, RoutingQuiet
<1>9. MadeInv'
  <2> SUFFICES ASSUME ~rouDisturbed'
               PROVE  /\ \A n \in Messages : rouStage'[n] = "creating" => TeamsFor(TargetOf[n])' = {}
                      /\ \A i \in 1 .. Len(rouQueue') : Awaited(rouQueue'[i]) =>
                           \A team \in TeamsFor(rouQueue[i].target)' : team = rouQueue'[i].team
                      /\ \A t \in Topics : \A team \in TeamsFor(t)' :
                           \/ rouDoc'.bind[t] = team
                           \/ \E i \in 1 .. Len(rouQueue') :
                                Awaited(rouQueue'[i]) /\ rouQueue'[i].target = t /\ rouQueue'[i].team = team
    BY DEF MadeInv, Awaited
  <2>0. ~rouDisturbed /\ rouDoc' = rouDoc
    BY DEF RoutingQuiet
  <2>1. \A t : TeamsFor(t)' \subseteq TeamsFor(t)
    BY DEF TeamsFor, RoutingQuiet, R!Teams
  <2>2. \A i \in 1 .. Len(rouQueue') : Awaited(rouQueue'[i]) => i \in 1 .. Len(rouQueue) /\ rouQueue'[i] = rouQueue[i]
    BY <1>5
  <2>3. ASSUME NEW n \in Messages, rouStage'[n] = "creating" PROVE TeamsFor(TargetOf[n]) = {}
    <3>1. CASE rouStage[n] = "creating"
      BY <2>0, <3>1 DEF MadeInv
    <3>2. CASE /\ TargetOf[n] \in Topics /\ rouDoc.bind[TargetOf[n]] = Nothing
               /\ rouRunning[TargetOf[n]] = Nothing
      <4> SUFFICES ASSUME NEW team \in TeamsFor(TargetOf[n]) PROVE FALSE
        OBVIOUS
      <4>1. team # Nothing
        BY DEF TeamsFor, R!RoutingAssumption
      <4>2. PICK i \in 1 .. Len(rouQueue) : Awaited(rouQueue[i]) /\ rouQueue[i].target = TargetOf[n]
        BY <2>0, <3>2, <4>1 DEF MadeInv
      <4>3. AskedFor(rouQueue[i])
        BY DEF AskedInv
      <4> QED BY <3>2, <4>2, <4>3 DEF AskedFor, Awaited
    <3> QED BY <2>3, <3>1, <3>2 DEF RoutingQuiet
  <2>4. \A n \in Messages : rouStage'[n] = "creating" => TeamsFor(TargetOf[n])' = {}
    BY <2>1, <2>3
  <2>5. \A i \in 1 .. Len(rouQueue') : Awaited(rouQueue'[i]) =>
           \A team \in TeamsFor(rouQueue[i].target)' : team = rouQueue'[i].team
    <3> SUFFICES ASSUME NEW i \in 1 .. Len(rouQueue'), Awaited(rouQueue'[i])
                 PROVE  \A team \in TeamsFor(rouQueue[i].target)' : team = rouQueue'[i].team
      OBVIOUS
    <3>1. i \in 1 .. Len(rouQueue) /\ rouQueue'[i] = rouQueue[i] /\ Awaited(rouQueue[i])
      BY <2>2
    <3>2. PICK t : t = rouQueue[i].target
      OBVIOUS
    <3>3. \A team \in TeamsFor(t) : team = rouQueue[i].team
      BY <2>0, <3>1, <3>2 DEF MadeInv
    <3>4. TeamsFor(rouQueue[i].target)' = TeamsFor(t)'
      BY <3>1, <3>2
    <3> QED BY <2>1, <3>1, <3>3, <3>4
  <2>6. \A t \in Topics : \A team \in TeamsFor(t)' :
           \/ rouDoc'.bind[t] = team
           \/ \E i \in 1 .. Len(rouQueue') :
                Awaited(rouQueue'[i]) /\ rouQueue'[i].target = t /\ rouQueue'[i].team = team
    <3> SUFFICES ASSUME NEW t \in Topics, NEW team \in TeamsFor(t)', rouDoc.bind[t] # team
                 PROVE  \E i \in 1 .. Len(rouQueue') :
                          Awaited(rouQueue'[i]) /\ rouQueue'[i].target = t /\ rouQueue'[i].team = team
      BY <2>0
    <3>1. PICK i \in 1 .. Len(rouQueue) : Awaited(rouQueue[i]) /\ rouQueue[i].target = t /\ rouQueue[i].team = team
      BY <2>0, <2>1 DEF MadeInv
    <3> QED BY <1>6, <3>1
  <2> QED BY <2>4, <2>5, <2>6
<1>10. RuleInv'
  <2>1. rouDoc' = rouDoc /\ rouFence' \subseteq rouFence /\ (~R!Live' => rouFence' = {})
    BY DEF RoutingQuiet
  <2> QED BY <2>1 DEF RuleInv, R!OneRuleForTheChat, R!OwnRouteMayPresent
<1> QED BY <1>1, <1>7, <1>8, <1>9, <1>10

\* Tools, commands, Core and the session change no route by themselves.
LEMMA RoutingEdits ==
  ASSUME R!RoutingAssumption, RoutingInv, OwnerInv, NEW job \in Job, R!Edit(job), job.for = Nothing,
         job.op # "forget", NamesWell(job)
  PROVE  RoutingQuiet
<1>1. /\ UNCHANGED <<rouDoc, rouMade, rouFence, rouCore, rouRunning, rouStage, rouSession>> /\ R!Enqueue(job)
      /\ rouDisturbed' = (rouDisturbed \/ job.op \in {"bind", "unbind"})
  BY DEF R!Edit
<1>2. ~Awaited(job)
  BY DEF Awaited
<1>3. AskedFor(job)'
  BY <1>1, <1>2 DEF AskedFor, Awaited
<1>4. rouDisturbed' \in BOOLEAN /\ (rouDisturbed => rouDisturbed')
  BY <1>1 DEF OwnerInv, RouteTypes
<1> QED BY <1>1, <1>2, <1>3, <1>4 DEF RoutingQuiet, OwnerInv, RouteTypes, RuleInv, CreatingInv, R!Live

LEMMA RoutingOutsideQuiet ==
  ASSUME R!RoutingAssumption, RoutingInv, OwnerInv,
         \/ \E team \in R!Teams, t \in R!Targets : R!BindChannel(team, t)
         \/ \E t \in R!Targets : R!UnbindChannel(t)
         \/ R!BindSpace \/ R!UnbindSpace \/ R!CloseAdmission \/ R!Abort \/ R!Drained
         \/ \E team \in R!Teams : R!Subscribe(team) \/ R!Unsubscribe(team) \/ R!TeamCloses(team) \/ R!TeamState(team)
  PROVE  RoutingQuiet
<1>0. R!NoJob \in Job /\ R!NoJob.for = Nothing
  BY DEF R!NoJob, Job, R!Targets
<1>1. ASSUME NEW team \in R!Teams, NEW t \in R!Targets, R!BindChannel(team, t) PROVE RoutingQuiet
  <2>1. PICK owner \in R!Authorities(team) :
          R!Edit([R!NoJob EXCEPT !.op = "bind", !.team = team, !.target = t, !.owner = owner])
    BY <1>1 DEF R!BindChannel
  <2> DEFINE job == [R!NoJob EXCEPT !.op = "bind", !.team = team, !.target = t, !.owner = owner]
  <2>2. job \in Job /\ job.for = Nothing /\ job.op = "bind" /\ NamesWell(job)
    BY <1>0 DEF Job, R!Authorities, NamesWell, Awaited
  <2>3. R!Edit(job)
    BY <2>1
  <2> HIDE DEF job
  <2> QED BY <2>2, <2>3, RoutingEdits
<1>2. ASSUME NEW t \in R!Targets, R!UnbindChannel(t) PROVE RoutingQuiet
  <2>1. PICK owner \in {Nothing} \union R!Teams :
          R!Edit([R!NoJob EXCEPT !.op = "unbind", !.target = t, !.owner = owner])
    BY <1>2 DEF R!UnbindChannel
  <2> DEFINE job == [R!NoJob EXCEPT !.op = "unbind", !.target = t, !.owner = owner]
  <2>2. job \in Job /\ job.for = Nothing /\ job.op = "unbind" /\ NamesWell(job)
    BY <1>0 DEF Job, NamesWell, Awaited
  <2>3. R!Edit(job)
    BY <2>1
  <2> HIDE DEF job
  <2> QED BY <2>2, <2>3, RoutingEdits
<1>3. CASE R!BindSpace \/ R!UnbindSpace
  <2>1. PICK o \in {"bindSpace", "unbindSpace"} : R!Edit([R!NoJob EXCEPT !.op = o])
    BY <1>3 DEF R!BindSpace, R!UnbindSpace
  <2> DEFINE job == [R!NoJob EXCEPT !.op = o]
  <2>2. job \in Job /\ job.for = Nothing /\ job.op = o /\ NamesWell(job)
    BY <1>0 DEF Job, NamesWell, Awaited
  <2>3. R!Edit(job)
    BY <2>1
  <2> HIDE DEF job
  <2> QED BY <2>2, <2>3, RoutingEdits
<1>4. ASSUME NEW team \in R!Teams, R!Subscribe(team) \/ R!Unsubscribe(team) PROVE RoutingQuiet
  <2>1. PICK o \in {"subscribe", "unsubscribe"} : R!Edit([R!NoJob EXCEPT !.op = o, !.team = team])
    BY <1>4 DEF R!Subscribe, R!Unsubscribe
  <2> DEFINE job == [R!NoJob EXCEPT !.op = o, !.team = team]
  <2>2. job \in Job /\ job.for = Nothing /\ job.op = o /\ NamesWell(job)
    BY <1>0 DEF Job, NamesWell, Awaited
  <2>3. R!Edit(job)
    BY <2>1
  <2> HIDE DEF job
  <2> QED BY <2>2, <2>3, RoutingEdits
<1>5. ASSUME NEW team \in R!Teams, R!TeamCloses(team) PROVE RoutingQuiet
  <2> DEFINE job == [R!NoJob EXCEPT !.op = "forget", !.team = team]
  <2>1. job \in Job /\ job.for = Nothing /\ job.op = "forget" /\ job.team = team
    BY <1>0 DEF Job
  <2>2. /\ rouCore[team] = "open" /\ rouCore' = [rouCore EXCEPT ![team] = "closed"]
        /\ R!Enqueue(job) \/ rouQueue' = rouQueue
        /\ UNCHANGED <<rouDoc, rouFence, rouStage, rouRunning, rouSession, rouMade, rouDisturbed>>
    BY <1>5 DEF R!TeamCloses
  <2> HIDE DEF job
  <2>3. rouCore'[team] = "closed"
    BY <2>2 DEF OwnerInv, RouteTypes
  <2>4. ~Awaited(job) /\ AskedFor(job)'
    BY <2>1, <2>3 DEF Awaited, AskedFor, NamesWell
  <2>5. /\ rouCore' \in [R!Teams -> {"none", "open", "closed"}]
        /\ \A other \in R!Teams : /\ rouCore'[other] = "open" => rouCore[other] = "open"
                                  /\ rouCore[other] = "closed" => rouCore'[other] = "closed"
                                  /\ rouCore[other] # "none" => rouCore'[other] # "none"
    BY <2>2 DEF OwnerInv, RouteTypes
  <2> QED BY <2>1, <2>2, <2>4, <2>5 DEF RoutingQuiet, OwnerInv, RouteTypes, RuleInv, CreatingInv, R!Live
<1>6. CASE R!CloseAdmission \/ R!Abort \/ R!Drained \/ \E team \in R!Teams : R!TeamState(team)
  <2>1. UNCHANGED <<rouDoc, rouMade, rouDisturbed, rouCore, rouRunning, rouQueue, rouStage>>
    BY <1>6 DEF R!CloseAdmission, R!Abort, R!Drained, R!TeamState
  <2>2. rouFence' \subseteq rouFence /\ (~R!Live' => rouFence' = {})
    BY <1>6 DEF R!CloseAdmission, R!Abort, R!Drained, R!TeamState, R!Live, OwnerInv, RuleInv
  <2> QED BY <2>1, <2>2 DEF RoutingQuiet, OwnerInv, RouteTypes, CreatingInv
<1> QED BY <1>1, <1>2, <1>3, <1>4, <1>5, <1>6

\* A message that moves changes no route, but by the commit that gives its topic a Team.
LEMMA RoutingMessageQuiet ==
  ASSUME R!RoutingAssumption, RoutingInv, OwnerInv, NEW m \in Messages,
         R!Arrive(m) \/ R!Handling(m), ~R!TeamCreated(m)
  PROVE  RoutingQuiet
<1> USE DEF OwnerInv
<1>0. /\ Moved(m) /\ R!NoJob \in Job /\ R!NoJob.for = Nothing /\ TargetOf[m] \in R!Targets
      /\ m # Nothing
  BY RoutingMessages DEF R!NoJob, Job, R!Targets, R!RoutingAssumption
<1>1. UNCHANGED <<rouDoc, rouMade, rouFence, rouCore, rouDisturbed, rouSession>>
  BY DEF R!Arrive, R!Handling, R!LearnTopicRoot, R!Deliver, R!TeamCreated, R!CreateFails, R!DeliverAfterRun,
         R!Answers, R!Admitted, R!NotAdmitted, R!Rejected, R!RejectedFinally
<1>2. ~R!Live' => rouFence' = {}
  BY <1>1 DEF RuleInv, R!Live
<1>3. rouQueue' = rouQueue \/ \E job \in Job : R!Enqueue(job) /\ ~Awaited(job) /\ AskedFor(job)'
  <2>1. CASE R!Arrive(m) \/ R!Deliver(m) \/ R!CreateFails(m) \/ R!DeliverAfterRun(m) \/ R!Admitted(m)
             \/ R!NotAdmitted(m) \/ R!RejectedFinally(m)
    BY <2>1 DEF R!Arrive, R!Deliver, R!CreateFails, R!DeliverAfterRun, R!Admitted, R!NotAdmitted, R!RejectedFinally
  <2>2. CASE R!LearnTopicRoot(m)
    <3> DEFINE job == [R!NoJob EXCEPT !.op = "fill", !.target = TargetOf[m], !.for = m]
    <3>1. job \in Job /\ job.op = "fill" /\ job.target = TargetOf[m]
      BY <1>0 DEF Job
    <3>2. (R!Enqueue(job) /\ TargetOf[m] \in Topics) \/ rouQueue' = rouQueue
      BY <2>2 DEF R!LearnTopicRoot
    <3> HIDE DEF job
    <3>3. TargetOf[m] \in Topics => ~Awaited(job) /\ AskedFor(job)'
      BY <3>1 DEF Awaited, AskedFor, NamesWell
    <3> QED BY <3>1, <3>2, <3>3
  <2>3. CASE R!Rejected(m)
    <3> DEFINE job == [R!NoJob EXCEPT !.op = "forget", !.team = rouTo[m], !.for = m]
    <3>1. rouTo[m] \in R!Teams /\ rouCore[rouTo[m]] = "closed" /\ R!Enqueue(job)
      BY <2>3 DEF R!Rejected, R!ClosedTeams
    <3>2. job \in Job /\ job.op = "forget" /\ job.team = rouTo[m]
      BY <1>0, <3>1 DEF Job
    <3> HIDE DEF job
    <3>3. PICK team \in R!Teams : team = rouTo[m]
      BY <3>1
    <3>4. PICK some \in Job : some = job
      BY <3>2
    <3>5. ~Awaited(some) /\ AskedFor(some)'
      BY <1>1, <3>1, <3>2, <3>3, <3>4 DEF Awaited, AskedFor, NamesWell
    <3> QED BY <3>1, <3>4, <3>5
  <2> QED BY <2>1, <2>2, <2>3 DEF R!Handling, R!Answers
<1>4. \/ rouRunning' = rouRunning /\ (rouStage'[m] = "creating" => FALSE)
      \/ rouRunning' = R!RunOver(m) /\ (rouStage'[m] = "creating" => FALSE)
      \/ /\ TargetOf[m] \in Topics /\ rouRunning[TargetOf[m]] = Nothing
         /\ rouDoc.bind[TargetOf[m]] = Nothing /\ rouStage[m] = "building"
         /\ rouRunning' = [rouRunning EXCEPT ![TargetOf[m]] = m]
  <2>1. CASE R!Arrive(m) \/ R!LearnTopicRoot(m) \/ R!CreateFails(m) \/ R!DeliverAfterRun(m) \/ R!Answers(m)
    <3>1. rouRunning' = rouRunning \/ rouRunning' = R!RunOver(m)
      BY <2>1 DEF R!Arrive, R!LearnTopicRoot, R!CreateFails, R!DeliverAfterRun, R!Answers, R!Admitted,
                  R!NotAdmitted, R!Rejected, R!RejectedFinally, R!Over
    <3>2. rouStage'[m] # "creating"
      BY <2>1, <1>0 DEF R!Arrive, R!LearnTopicRoot, R!CreateFails, R!DeliverAfterRun, R!Answers, R!Admitted, R!Submit,
                  R!NotAdmitted, R!Rejected, R!RejectedFinally, R!Over, RoutingInv, RoutingTypes
    <3> QED BY <3>1, <3>2
  <2>2. CASE R!Deliver(m)
    <3> DEFINE t == TargetOf[m]
    <3>1. PICK canProvision \in BOOLEAN :
            LET plan == R!Plan(t, canProvision)
            IN CASE m \in R!Tracked /\ ~R!Live ->
                      rouStage' = [rouStage EXCEPT ![m] = "ended"] /\ UNCHANGED <<rouTo, rouRunning>>
                 [] (m \in Settlements \/ R!Live) /\ plan = "dispatcher" ->
                      R!Submit(m, R!Dispatcher, "final") /\ UNCHANGED rouRunning
                 [] (m \in Settlements \/ R!Live) /\ plan = "bound" ->
                      R!Submit(m, R!Serving(rouDoc, t), "submitting") /\ UNCHANGED rouRunning
                 [] (m \in Settlements \/ R!Live) /\ plan = "provision" ->
                      /\ UNCHANGED rouTo
                      /\ IF rouRunning[t] = Nothing /\ rouSession = "live"
                         THEN rouStage' = [rouStage EXCEPT ![m] = "creating"]
                              /\ rouRunning' = [rouRunning EXCEPT ![t] = m]
                         ELSE rouStage' = [rouStage EXCEPT ![m] = IF rouRunning[t] = Nothing THEN "refused"
                                                                                     ELSE "waiting"]
                              /\ UNCHANGED rouRunning
      BY <2>2 DEF R!Deliver
    <3> DEFINE plan == R!Plan(t, canProvision)
    <3>2. plan \in {"bound", "provision", "dispatcher"}
      BY DEF R!Plan
    <3>3. plan = "provision" => t \in Topics /\ rouDoc.bind[t] = Nothing
      BY DEF R!Plan, R!Serving
    <3>4. rouStage[m] = "building" /\ rouStage \in [Messages -> Stages]
      BY <2>2 DEF R!Deliver, RoutingInv, RoutingTypes
    <3> HIDE DEF plan, t
    <3>5. CASE m \in R!Tracked /\ ~R!Live
      <4>1. rouStage' = [rouStage EXCEPT ![m] = "ended"] /\ rouRunning' = rouRunning
        BY <3>1, <3>5 DEF R!Tracked
      <4> QED BY <3>4, <4>1
    <3>6. CASE ~(m \in R!Tracked /\ ~R!Live) /\ plan \in {"dispatcher", "bound"}
      <4>1. m \in Settlements \/ R!Live
        BY <3>6 DEF R!Tracked
      <4>2. /\ rouRunning' = rouRunning
            /\ R!Submit(m, R!Dispatcher, "final") \/ R!Submit(m, R!Serving(rouDoc, t), "submitting")
        BY <3>1, <3>6, <4>1 DEF plan
      <4> QED BY <3>4, <4>2 DEF R!Submit
    <3>7. CASE ~(m \in R!Tracked /\ ~R!Live) /\ plan = "provision"
      <4>1. m \in Settlements \/ R!Live
        BY <3>7 DEF R!Tracked
      <4>2. IF rouRunning[t] = Nothing /\ rouSession = "live"
            THEN rouStage' = [rouStage EXCEPT ![m] = "creating"] /\ rouRunning' = [rouRunning EXCEPT ![t] = m]
            ELSE rouStage' = [rouStage EXCEPT ![m] = IF rouRunning[t] = Nothing THEN "refused" ELSE "waiting"]
                 /\ UNCHANGED rouRunning
        BY <3>1, <3>7, <4>1 DEF plan
      <4> QED BY <3>3, <3>4, <3>7, <4>2 DEF t
    <3> QED BY <3>2, <3>5, <3>6, <3>7
  <2> QED BY <2>1, <2>2 DEF R!Handling
<1>5. rouRunning' \in [Topics -> Messages \union {Nothing}]
  BY <1>4 DEF R!RunOver, RouteTypes
<1>6. rouStage[m] # "binding" /\ \A n \in Messages : n # m => rouStage'[n] = rouStage[n]
  BY <1>0 DEF Moved
<1>7. ASSUME NEW n \in Messages, n # m, TargetOf[n] \in Topics, rouRunning[TargetOf[n]] = n
      PROVE  rouRunning'[TargetOf[n]] = n
  BY <1>0, <1>4, <1>7 DEF R!RunOver, RouteTypes, R!RoutingAssumption
<1>8. \A n \in Messages : rouStage[n] = "binding" /\ TargetOf[n] \in Topics =>
        (rouRunning[TargetOf[n]] = n => rouRunning'[TargetOf[n]] = n)
  BY <1>6, <1>7
<1>9. \A n \in Messages : rouStage'[n] = "creating" =>
        \/ rouStage[n] = "creating" /\ rouRunning'[TargetOf[n]] = rouRunning[TargetOf[n]]
        \/ /\ TargetOf[n] \in Topics /\ rouRunning'[TargetOf[n]] = n
           /\ rouDoc.bind[TargetOf[n]] = Nothing /\ rouRunning[TargetOf[n]] = Nothing
  <2> SUFFICES ASSUME NEW n \in Messages, rouStage'[n] = "creating"
               PROVE  \/ rouStage[n] = "creating" /\ rouRunning'[TargetOf[n]] = rouRunning[TargetOf[n]]
                      \/ /\ TargetOf[n] \in Topics /\ rouRunning'[TargetOf[n]] = n
                         /\ rouDoc.bind[TargetOf[n]] = Nothing /\ rouRunning[TargetOf[n]] = Nothing
    OBVIOUS
  <2>1. CASE n = m
    BY <1>4, <2>1 DEF RouteTypes
  <2>2. CASE n # m
    BY <1>6, <1>7, <2>2 DEF CreatingInv
  <2> QED BY <2>1, <2>2
<1> QED BY <1>1, <1>2, <1>3, <1>5, <1>8, <1>9 DEF RoutingQuiet, RouteTypes

\* Core has created a Team for a topic, and the commit that gives it the topic is queued.
LEMMA RoutingCreates ==
  ASSUME R!RoutingAssumption, RoutingInv, OwnerInv, NEW m \in Messages, R!TeamCreated(m)
  PROVE  OwnerInv'
<1> USE DEF OwnerInv
<1> DEFINE t == TargetOf[m]
<1>0. t \in Topics /\ t \in R!Targets /\ rouRunning[t] = m /\ rouStage[m] = "creating" /\ m # Nothing
  BY DEF R!TeamCreated, CreatingInv, R!Targets, R!RoutingAssumption
<1>1. PICK team \in Fresh :
        /\ rouCore[team] = "none" /\ rouCore' = [rouCore EXCEPT ![team] = "open"]
        /\ rouMade' = rouMade \union {<<team, t>>}
        /\ R!Enqueue([R!NoJob EXCEPT !.op = "bind", !.team = team, !.target = t, !.for = m])
  BY DEF R!TeamCreated
<1>2. /\ UNCHANGED <<rouDoc, rouFence, rouTo, rouRunning, rouSession, rouDisturbed>>
      /\ rouStage' = [rouStage EXCEPT ![m] = "binding"]
  BY DEF R!TeamCreated
<1>3. PICK job \in Job :
        /\ job.op = "bind" /\ job.team = team /\ job.target = t /\ job.for = m /\ job.owner = Nothing
        /\ R!Enqueue(job)
  <2> DEFINE new == [R!NoJob EXCEPT !.op = "bind", !.team = team, !.target = t, !.for = m]
  <2>1. /\ new \in Job /\ new.op = "bind" /\ new.team = team /\ new.target = t /\ new.for = m
        /\ new.owner = Nothing
    BY <1>0 DEF R!NoJob, Job, R!Targets, R!Teams
  <2> HIDE DEF new
  <2>2. R!Enqueue(new)
    BY <1>1 DEF new
  <2> QED BY <2>1, <2>2
<1>4. team \in R!Teams /\ team # Nothing
  BY DEF R!Teams, R!RoutingAssumption
<1> HIDE DEF t
<1>5. rouQueue \in Seq(Job) /\ rouStage \in [Messages -> Stages]
  BY DEF RoutingInv, RoutingTypes
<1>6. /\ rouCore' \in [R!Teams -> {"none", "open", "closed"}] /\ rouCore'[team] = "open"
      /\ \A other \in R!Teams : other # team => rouCore'[other] = rouCore[other]
  BY <1>1, <1>4 DEF RouteTypes
<1>7. RouteTypes'
  BY <1>1, <1>2, <1>6 DEF RouteTypes, R!Teams
<1>8. AskedInv'
  <2> SUFFICES ASSUME NEW i \in 1 .. Len(rouQueue') PROVE AskedFor(rouQueue[i])'
    BY DEF AskedInv
  <2>1. CASE i \in 1 .. Len(rouQueue)
    <3>1. rouQueue'[i] = rouQueue[i] /\ AskedFor(rouQueue[i])
      BY <1>3, <1>5, <2>1, RoutingQueueMore DEF AskedInv
    <3>2. rouCore[rouQueue[i].team] = "closed" => rouQueue[i].team # team
      BY <1>1
    <3> QED BY <1>2, <1>6, <3>1, <3>2 DEF AskedFor, NamesWell, Awaited
  <2>2. CASE rouQueue'[i] = job
    BY <1>0, <1>2, <1>3, <1>4, <2>2 DEF AskedFor, NamesWell, Awaited, t
  <2> QED BY <1>3, <1>5, <2>1, <2>2, RoutingQueueMore
<1>9. CreatingInv'
  BY <1>2, <1>5 DEF CreatingInv
<1>10. \A x \in Topics : x # t => TeamsFor(x)' = TeamsFor(x)
  <2> SUFFICES ASSUME NEW x \in Topics, x # t PROVE TeamsFor(x)' = TeamsFor(x)
    OBVIOUS
  <2>1. \A other \in Fresh : <<other, x>> \in rouMade' <=> <<other, x>> \in rouMade
    BY <1>1
  <2>2. <<team, x>> \notin rouMade
    BY <1>1 DEF RouteTypes
  <2>3. \A other \in Fresh : other \in R!Teams
    BY DEF R!Teams
  <2> QED BY <1>6, <2>1, <2>2, <2>3 DEF TeamsFor
<1>11. ~rouDisturbed => \A other \in TeamsFor(t)' : other = team
  <2> SUFFICES ASSUME ~rouDisturbed, NEW other \in TeamsFor(t)', other # team PROVE FALSE
    OBVIOUS
  <2>1. other \in Fresh /\ <<other, t>> \in rouMade /\ rouCore[other] = "open"
    BY <1>1, <1>6 DEF TeamsFor, R!Teams
  <2>2. TeamsFor(t) = {}
    BY <1>0 DEF MadeInv, t
  <2> QED BY <2>1, <2>2 DEF TeamsFor
<1>12. MadeInv'
  <2> SUFFICES ASSUME ~rouDisturbed
               PROVE  /\ \A n \in Messages : rouStage'[n] = "creating" => TeamsFor(TargetOf[n])' = {}
                      /\ \A i \in 1 .. Len(rouQueue') : Awaited(rouQueue'[i]) =>
                           \A x \in TeamsFor(rouQueue[i].target)' : x = rouQueue'[i].team
                      /\ \A y \in Topics : \A x \in TeamsFor(y)' :
                           \/ rouDoc'.bind[y] = x
                           \/ \E i \in 1 .. Len(rouQueue') :
                                Awaited(rouQueue'[i]) /\ rouQueue'[i].target = y /\ rouQueue'[i].team = x
    BY <1>2 DEF MadeInv, Awaited
  <2>1. ASSUME NEW n \in Messages, rouStage'[n] = "creating" PROVE TeamsFor(TargetOf[n])' = {}
    <3>1. n # m /\ rouStage[n] = "creating"
      BY <1>2, <1>5, <2>1
    <3>2. TargetOf[n] \in Topics /\ TargetOf[n] # t
      BY <1>0, <3>1 DEF CreatingInv
    <3> QED BY <1>10, <3>1, <3>2 DEF MadeInv
  <2>2. ASSUME NEW i \in 1 .. Len(rouQueue'), Awaited(rouQueue'[i]), NEW x \in TeamsFor(rouQueue[i].target)'
        PROVE  x = rouQueue'[i].team
    <3>1. CASE i \in 1 .. Len(rouQueue)
      <4>1. rouQueue'[i] = rouQueue[i] /\ AskedFor(rouQueue[i]) /\ Awaited(rouQueue[i]) /\ rouQueue[i] \in Job
        BY <1>3, <1>5, <2>2, <3>1, RoutingQueueMore DEF AskedInv
      <4>2. rouQueue[i].for # Nothing /\ rouQueue[i].for \in Messages
        BY <4>1 DEF Awaited, Job
      <4>3. rouStage[rouQueue[i].for] = "binding"
        BY <3>1, <4>1, <4>2 DEF RoutingInv, JobInv, WaitsFor, Awaited
      <4>4. PICK y \in Topics : y = rouQueue[i].target /\ y # t
        BY <1>0, <4>1, <4>3 DEF AskedFor, NamesWell
      <4>5. x \in TeamsFor(y)'
        BY <2>2, <4>1, <4>4
      <4> QED BY <1>10, <3>1, <4>1, <4>4, <4>5 DEF MadeInv
    <3>2. CASE rouQueue'[i] = job
      <4>1. x \in TeamsFor(t)'
        BY <1>3, <2>2, <3>2 DEF t
      <4> QED BY <1>3, <1>11, <3>2, <4>1
    <3> QED BY <1>3, <1>5, <3>1, <3>2, RoutingQueueMore
  <2>3. ASSUME NEW y \in Topics, NEW x \in TeamsFor(y)', rouDoc'.bind[y] # x
        PROVE  \E i \in 1 .. Len(rouQueue') :
                 Awaited(rouQueue'[i]) /\ rouQueue'[i].target = y /\ rouQueue'[i].team = x
    <3>1. CASE y = t
      <4>1. x = team
        BY <1>11, <2>3, <3>1
      <4>2. Len(rouQueue) + 1 \in 1 .. Len(rouQueue') /\ rouQueue'[Len(rouQueue) + 1] = job
        BY <1>3, <1>5, RoutingQueueMore
      <4>3. Awaited(job)
        BY <1>0, <1>3 DEF Awaited
      <4> QED BY <1>3, <3>1, <4>1, <4>2, <4>3
    <3>2. CASE y # t
      <4>1. PICK i \in 1 .. Len(rouQueue) : Awaited(rouQueue[i]) /\ rouQueue[i].target = y /\ rouQueue[i].team = x
        BY <1>2, <1>10, <2>3, <3>2 DEF MadeInv
      <4> QED BY <1>3, <1>5, <4>1, RoutingQueueMore
    <3> QED BY <3>1, <3>2
  <2> QED BY <2>1, <2>2, <2>3
<1>13. RuleInv'
  BY <1>2 DEF RuleInv, R!OneRuleForTheChat, R!OwnRouteMayPresent, R!Live
<1> QED BY <1>7, <1>8, <1>9, <1>12, <1>13

\* A document that says one thing of its chat.
OneRule(d) ==
  /\ ~(d.space /\ d.bind[Chat] # Nothing)
  /\ \A t \in d.root : d.bind[t] # Nothing

\* The rows that a commit takes away.
RowsGone(d, job) ==
  IF job.op = "unbind" THEN {job.target}
  ELSE IF job.op = "forget" THEN R!RoutesOf(d, job.team) ELSE {}

LEMMA DocumentOf ==
  ASSUME NEW b \in [R!Targets -> R!Teams \union {Nothing}], NEW r \in SUBSET Topics, NEW s \in BOOLEAN,
         NEW c \in SUBSET R!Teams
  PROVE  [bind |-> b, root |-> r, space |-> s, docs |-> c] \in Document
  BY DEF Document

\* What each commit makes of the document's rows.
LEMMA MutatedFacts ==
  ASSUME R!RoutingAssumption, NEW d \in Document, NEW job \in Job, NamesWell(job)
  PROVE  /\ R!Mutated(d, job) \in Document
         /\ job.op = "bind" => /\ \A t \in R!Targets : R!Mutated(d, job).bind[t] =
                                    IF t = job.target THEN job.team ELSE d.bind[t]
                               /\ R!Mutated(d, job).root \subseteq d.root \union {job.target}
                               /\ R!Mutated(d, job).space = d.space
         /\ job.op \in {"unbind", "forget"} =>
              /\ \A t \in R!Targets :
                   R!Mutated(d, job).bind[t] = IF t \in RowsGone(d, job) THEN Nothing ELSE d.bind[t]
              /\ R!Mutated(d, job).root = d.root \ RowsGone(d, job)
              /\ R!Mutated(d, job).space = d.space
         /\ job.op \notin {"bind", "unbind", "forget"} =>
              /\ R!Mutated(d, job).bind = d.bind
              /\ \A t \in R!Mutated(d, job).root : t \in d.root \/ d.bind[t] # Nothing
              /\ R!Mutated(d, job).space => d.space \/ job.op = "bindSpace"
<1>0. /\ job.op \in {"bind", "unbind", "bindSpace", "unbindSpace", "subscribe", "unsubscribe",
                     "forget", "fill"}
      /\ job.target \in R!Targets /\ job.team \in R!Teams \union {Nothing}
      /\ job.op \in {"bind", "subscribe"} => job.team \in R!Teams
      /\ job.op = "fill" \/ (job.op = "bind" /\ job.for # Nothing) => job.target \in Topics
      /\ d.bind \in [R!Targets -> R!Teams \union {Nothing}] /\ d.root \in SUBSET Topics
      /\ d.space \in BOOLEAN /\ d.docs \in SUBSET R!Teams
  BY DEF Job, Document, NamesWell, Awaited
<1>1. CASE job.op = "bind"
  <2> DEFINE b == [d.bind EXCEPT ![job.target] = job.team]
             r == IF job.for # Nothing THEN d.root \union {job.target} ELSE d.root
  <2>1. R!Mutated(d, job) = [d EXCEPT !.bind[job.target] = job.team,
                                      !.root = IF job.for # Nothing THEN @ \union {job.target} ELSE @]
    BY <1>1 DEF R!Mutated
  <2>2. R!Mutated(d, job) = [bind |-> b, root |-> r, space |-> d.space, docs |-> d.docs]
    BY <2>1 DEF Document
  <2>3. b \in [R!Targets -> R!Teams \union {Nothing}] /\ r \in SUBSET Topics
        /\ r \subseteq d.root \union {job.target}
    BY <1>0, <1>1
  <2> HIDE DEF r
  <2>4. R!Mutated(d, job) \in Document
    <3> HIDE DEF b
    <3> QED BY <1>0, <2>2, <2>3, DocumentOf
  <2> QED BY <1>1, <2>2, <2>3, <2>4
<1>2. CASE job.op \in {"unbind", "forget"}
  <2> DEFINE gone == RowsGone(d, job)
             b == [t \in R!Targets |-> IF t \in gone THEN Nothing ELSE d.bind[t]]
  <2>1. \E c \in SUBSET R!Teams :
          R!Mutated(d, job) = [bind |-> b, root |-> d.root \ gone, space |-> d.space, docs |-> c]
    <3>1. R!Without(d, gone) = [bind |-> b, root |-> d.root \ gone, space |-> d.space, docs |-> d.docs]
      <4>1. R!Without(d, gone) = [d EXCEPT !.bind = b, !.root = @ \ gone]
        BY Zenon DEF R!Without
      <4> HIDE DEF b, gone
      <4> QED BY <4>1 DEF Document
    <3>2. CASE job.op = "unbind"
      <4>1. R!Mutated(d, job) = R!Without(d, gone)
        BY <3>2 DEF R!Mutated, RowsGone
      <4> QED BY <1>0, <3>1, <4>1
    <3>3. CASE job.op = "forget"
      <4>1. R!Mutated(d, job) = [R!Without(d, gone) EXCEPT !.docs = @ \ {job.team}]
        BY <3>3 DEF R!Mutated, RowsGone
      <4> HIDE DEF b, gone
      <4>2. R!Mutated(d, job) =
              [bind |-> b, root |-> d.root \ gone, space |-> d.space, docs |-> d.docs \ {job.team}]
        BY <3>1, <4>1
      <4> QED BY <1>0, <4>2
    <3> QED BY <1>2, <3>2, <3>3
  <2>2. b \in [R!Targets -> R!Teams \union {Nothing}] /\ d.root \ gone \in SUBSET Topics
    BY <1>0
  <2>3. R!Mutated(d, job) \in Document
    <3> HIDE DEF b, gone
    <3> QED BY <1>0, <2>1, <2>2, DocumentOf
  <2> QED BY <1>2, <2>1, <2>3
<1>4. CASE job.op = "fill"
  <2>1. R!Mutated(d, job) =
          [d EXCEPT !.root = IF d.bind[job.target] # Nothing THEN @ \union {job.target} ELSE @]
    BY <1>4 DEF R!Mutated
  <2> QED BY <1>0, <1>4, <2>1 DEF Document
<1>5. CASE job.op \in {"bindSpace", "unbindSpace"}
  <2>1. R!Mutated(d, job) = [d EXCEPT !.space = (job.op = "bindSpace")]
    BY <1>5 DEF R!Mutated
  <2> QED BY <1>0, <1>5, <2>1 DEF Document
<1>6. CASE job.op \in {"subscribe", "unsubscribe"}
  <2>1. /\ job.op = "subscribe" => R!Mutated(d, job) = [d EXCEPT !.docs = @ \union {job.team}]
        /\ job.op = "unsubscribe" => R!Mutated(d, job) = [d EXCEPT !.docs = @ \ {job.team}]
    BY DEF R!Mutated
  <2>2. PICK c : /\ R!Mutated(d, job) = [bind |-> d.bind, root |-> d.root, space |-> d.space, docs |-> c]
                 /\ c \in SUBSET R!Teams
    <3>1. CASE job.op = "subscribe"
      <4>1. R!Mutated(d, job) = [bind |-> d.bind, root |-> d.root, space |-> d.space,
                                 docs |-> d.docs \union {job.team}]
        BY <2>1, <3>1 DEF Document
      <4>2. d.docs \union {job.team} \in SUBSET R!Teams
        BY <1>0, <3>1
      <4> QED BY <4>1, <4>2
    <3>2. CASE job.op = "unsubscribe"
      <4>1. R!Mutated(d, job) = [bind |-> d.bind, root |-> d.root, space |-> d.space,
                                 docs |-> d.docs \ {job.team}]
        BY <2>1, <3>2 DEF Document
      <4> QED BY <1>0, <4>1
    <3> QED BY <1>6, <3>1, <3>2
  <2> QED BY <1>0, <1>6, <2>2, DocumentOf
<1> QED BY <1>0, <1>1, <1>2, <1>4, <1>5, <1>6

\* A change that is not refused leaves the document saying one thing.
LEMMA MutatedRule ==
  ASSUME R!RoutingAssumption, NEW d \in Document, NEW job \in Job, NamesWell(job), OneRule(d), ~R!Refused(d, job)
  PROVE  OneRule(R!Mutated(d, job))
<1>0. job.target \in R!Targets /\ Chat \in R!Targets /\ Nothing \notin R!Teams
      /\ d.bind \in [R!Targets -> R!Teams \union {Nothing}] /\ d.root \subseteq R!Targets
      /\ (job.op = "bind" => job.team \in R!Teams)
  BY DEF Job, R!Targets, R!RoutingAssumption, R!Teams, Document, NamesWell
<1>1. CASE job.op = "bind"
  <2>1. job.target = Chat => ~d.space
    BY <1>1 DEF R!Refused
  <2>2. /\ \A t \in R!Targets :
             R!Mutated(d, job).bind[t] = IF t = job.target THEN job.team ELSE d.bind[t]
        /\ R!Mutated(d, job).root \subseteq d.root \union {job.target}
        /\ R!Mutated(d, job).space = d.space /\ job.team # Nothing
    BY <1>0, <1>1, MutatedFacts
  <2> QED BY <1>0, <2>1, <2>2 DEF OneRule
<1>2. CASE job.op \in {"unbind", "forget"}
  <2>1. /\ \A t \in R!Targets :
             R!Mutated(d, job).bind[t] = IF t \in RowsGone(d, job) THEN Nothing ELSE d.bind[t]
        /\ R!Mutated(d, job).root = d.root \ RowsGone(d, job) /\ R!Mutated(d, job).space = d.space
    BY <1>2, MutatedFacts
  <2> QED BY <1>0, <2>1 DEF OneRule
<1>3. CASE job.op \notin {"bind", "unbind", "forget"}
  <2>1. job.op = "bindSpace" => d.bind[Chat] = Nothing
    BY DEF R!Refused
  <2> QED BY <1>3, <2>1, MutatedFacts DEF OneRule
<1> QED BY <1>1, <1>2, <1>3

\* A commit fences no Team where it has a row.
LEMMA PresentedKeeps ==
  ASSUME R!RoutingAssumption, NEW job \in Job, rouDoc \in Document, NamesWell(job), R!OwnRouteMayPresent, NEW leaders,
         NEW t \in R!Targets, R!Mutated(rouDoc, job).bind[t] # Nothing
  PROVE  <<R!Mutated(rouDoc, job).bind[t], t>> \notin R!Presented(rouDoc, job, leaders)
<1> DEFINE served == R!Serving(rouDoc, job.target)
           left == R!Serving(R!Mutated(rouDoc, job), job.target)
<1>0. job.target \in R!Targets /\ rouDoc.bind \in [R!Targets -> R!Teams \union {Nothing}]
  BY DEF Job, Document
<1>1. CASE job.op = "bind"
  <2>1. R!Presented(rouDoc, job, leaders) =
          R!Claimed(IF served # job.team THEN R!Released(rouFence, served, job.target, leaders) ELSE rouFence,
                    job.team, job.target)
    BY <1>1 DEF R!Presented
  <2> HIDE DEF served
  <2>2. CASE t = job.target
    <3>1. R!Mutated(rouDoc, job).bind[t] = job.team
      BY <1>0, <1>1, <2>2, MutatedFacts
    <3> QED BY <2>1, <2>2, <3>1 DEF R!Claimed
  <2>3. CASE t # job.target
    <3>1. R!Mutated(rouDoc, job).bind[t] = rouDoc.bind[t] /\ <<rouDoc.bind[t], t>> \notin rouFence
      BY <1>0, <1>1, <2>3, MutatedFacts DEF R!OwnRouteMayPresent
    <3> QED BY <2>1, <2>3, <3>1 DEF R!Claimed, R!Released
  <2> QED BY <2>2, <2>3
<1>2. CASE job.op = "unbind"
  <2>1. t # job.target /\ R!Mutated(rouDoc, job).bind[t] = rouDoc.bind[t] /\ <<rouDoc.bind[t], t>> \notin rouFence
    <3>1. R!Mutated(rouDoc, job).bind[t] = IF t \in {job.target} THEN Nothing ELSE rouDoc.bind[t]
      BY <1>2, MutatedFacts DEF RowsGone
    <3> QED BY <3>1 DEF R!OwnRouteMayPresent
  <2>2. \/ R!Presented(rouDoc, job, leaders) = rouFence
        \/ R!Presented(rouDoc, job, leaders) =
             R!Claimed(R!Released(rouFence, rouDoc.bind[job.target], job.target, leaders), left, job.target)
    <3>1. CASE rouDoc.bind[job.target] # Nothing
      BY <1>2, <3>1 DEF R!Presented
    <3>2. CASE rouDoc.bind[job.target] = Nothing
      BY <1>2, <3>2 DEF R!Presented
    <3> QED BY <3>1, <3>2
  <2> HIDE DEF left
  <2> QED BY <2>1, <2>2 DEF R!Claimed, R!Released
<1>3. CASE job.op = "forget"
  <2>1. t \notin R!RoutesOf(rouDoc, job.team) /\ R!Mutated(rouDoc, job).bind[t] = rouDoc.bind[t]
        /\ <<rouDoc.bind[t], t>> \notin rouFence
    <3> DEFINE gone == R!RoutesOf(rouDoc, job.team)
    <3>1. R!Mutated(rouDoc, job).bind[t] = IF t \in gone THEN Nothing ELSE rouDoc.bind[t]
      BY <1>3, MutatedFacts DEF RowsGone
    <3> QED BY <3>1 DEF R!OwnRouteMayPresent
  <2>2. R!Presented(rouDoc, job, leaders) =
          rouFence \union {<<job.team, x>> : x \in IF job.team \in leaders
                                                   THEN R!RoutesOf(rouDoc, job.team) ELSE {}}
    BY <1>3 DEF R!Presented
  <2> QED BY <2>1, <2>2
<1>4. CASE job.op \notin {"bind", "unbind", "forget"}
  <2>1. R!Presented(rouDoc, job, leaders) = rouFence
    BY <1>4 DEF R!Presented
  <2> QED BY <1>4, <2>1, MutatedFacts DEF R!OwnRouteMayPresent
<1> QED BY <1>1, <1>2, <1>3, <1>4

\* A commit fences Teams, where there is something to present.
LEMMA PresentedTypes ==
  ASSUME R!RoutingAssumption, NEW job \in Job, rouDoc \in Document, NamesWell(job),
         rouFence \subseteq R!Teams \X R!Targets, NEW leaders \in SUBSET R!Routed, job.op = "forget" => job.team \in R!Teams
  PROVE  R!Presented(rouDoc, job, leaders) \subseteq R!Teams \X R!Targets
<1> DEFINE served == R!Serving(rouDoc, job.target)
           left == R!Serving(R!Mutated(rouDoc, job), job.target)
           held == rouDoc.bind[job.target]
<1>0. /\ job.target \in R!Targets /\ Chat \in R!Targets /\ Nothing \notin R!Teams
      /\ rouDoc.bind \in [R!Targets -> R!Teams \union {Nothing}]
  BY DEF Job, Document, R!RoutingAssumption, R!Teams, R!Targets
<1>1. served \in R!Teams \union {Nothing} /\ held \in R!Teams \union {Nothing}
  BY <1>0 DEF R!Serving
<1>2. ASSUME NEW team \in R!Teams \union {Nothing}
      PROVE  R!Released(rouFence, team, job.target, leaders) \subseteq R!Teams \X R!Targets
  BY <1>0 DEF R!Released
<1>3. ASSUME NEW f \in SUBSET (R!Teams \X R!Targets), NEW team PROVE R!Claimed(f, team, job.target) \subseteq R!Teams \X R!Targets
  BY DEF R!Claimed
<1>4. CASE job.op = "bind"
  <2>1. R!Presented(rouDoc, job, leaders) =
          R!Claimed(IF served # job.team THEN R!Released(rouFence, served, job.target, leaders) ELSE rouFence,
                    job.team, job.target)
    BY <1>4 DEF R!Presented
  <2> HIDE DEF served
  <2> QED BY <1>1, <1>2, <1>3, <2>1
<1>5. CASE job.op = "unbind" /\ held # Nothing
  <2>1. R!Presented(rouDoc, job, leaders) =
          R!Claimed(R!Released(rouFence, held, job.target, leaders), left, job.target)
    BY <1>5 DEF R!Presented
  <2> HIDE DEF left, held
  <2> QED BY <1>1, <1>2, <1>3, <2>1
<1>6. CASE job.op = "forget"
  <2>1. R!Presented(rouDoc, job, leaders) =
          rouFence \union {<<job.team, x>> : x \in IF job.team \in leaders
                                                   THEN R!RoutesOf(rouDoc, job.team) ELSE {}}
    BY <1>6 DEF R!Presented
  <2> QED BY <1>6, <2>1 DEF R!RoutesOf
<1>7. CASE job.op \notin {"bind", "unbind", "forget"} \/ (job.op = "unbind" /\ held = Nothing)
  <2>1. R!Presented(rouDoc, job, leaders) = rouFence
    BY <1>7 DEF R!Presented
  <2> QED BY <2>1
<1> QED BY <1>4, <1>5, <1>6, <1>7

\* A commit keeps a Team's only topic its own.
LEMMA RoutingCommitsOwner ==
  ASSUME R!RoutingAssumption, RoutingInv, OwnerInv, R!Commit
  PROVE  OwnerInv'
<1> USE DEF OwnerInv
<1> DEFINE job == Head(rouQueue)
           m == job.for
<1>1. /\ rouQueue # <<>> /\ Len(rouQueue) \in Nat \ {0} /\ 1 \in 1 .. Len(rouQueue)
      /\ job = rouQueue[1] /\ job \in Job /\ Len(rouQueue') = Len(rouQueue) - 1
      /\ \A i \in 1 .. Len(rouQueue') : i + 1 \in 1 .. Len(rouQueue) /\ rouQueue'[i] = rouQueue[i + 1] /\ i + 1 # 1
      /\ \A i \in 1 .. Len(rouQueue) : i # 1 => i - 1 \in 1 .. Len(rouQueue') /\ rouQueue'[i - 1] = rouQueue[i]
  <2>1. rouQueue \in Seq(Job) /\ rouQueue # <<>> /\ rouQueue' = Tail(rouQueue)
    BY DEF R!Commit, RoutingInv, RoutingTypes
  <2>2. Len(rouQueue) \in Nat \ {0}
    BY <2>1
  <2>3. Len(rouQueue') = Len(rouQueue) - 1 /\ \A i \in 1 .. Len(rouQueue') : rouQueue'[i] = rouQueue[i + 1]
    BY <2>1, <2>2
  <2>4. \A i \in 1 .. Len(rouQueue) : i # 1 => i - 1 \in 1 .. Len(rouQueue') /\ (i - 1) + 1 = i
    BY <2>2, <2>3
  <2>5. 1 \in 1 .. Len(rouQueue) /\ \A i \in 1 .. Len(rouQueue') : i + 1 \in 1 .. Len(rouQueue) /\ i + 1 # 1
    BY <2>2, <2>3
  <2> QED BY <2>1, <2>2, <2>3, <2>4, <2>5
<1>2. PICK written \in BOOLEAN :
        /\ rouDoc' = IF ~R!Refused(rouDoc, job) /\ written THEN R!Mutated(rouDoc, job) ELSE rouDoc
        /\ rouDisturbed' = (rouDisturbed \/ ~written)
        /\ \E leaders \in SUBSET R!Routed : rouFence' = IF ~R!Refused(rouDoc, job) /\ written /\ R!Live
                                  THEN R!Presented(rouDoc, job, leaders) ELSE rouFence
        /\ R!Continue(job, ~R!Refused(rouDoc, job) /\ written)
  BY DEF R!Commit
<1>3. UNCHANGED <<rouCore, rouSession, rouMade>>
  BY DEF R!Commit
<1>4. AskedFor(job)
  BY <1>1 DEF AskedInv
<1>5. NamesWell(job)
  BY <1>4 DEF AskedFor
<1>6. m # Nothing => m \in Messages /\ <<job.op, rouStage[m]>> \in WaitsFor
  BY <1>1 DEF Job, RoutingInv, JobInv
<1> HIDE DEF job
<1>7. /\ rouRunning' = rouRunning \/ rouRunning' = R!RunOver(m)
      /\ \A n \in Messages : rouStage'[n] = "creating" => rouStage[n] = "creating" /\ n # m
  <2>0. rouStage \in [Messages -> Stages]
    BY DEF RoutingInv, RoutingTypes
  <2>1. CASE m = Nothing
    BY <1>2, <2>1 DEF R!Continue, R!RoutingAssumption
  <2>2. CASE m # Nothing /\ job.op = "fill"
    BY <1>2, <2>0, <2>2 DEF R!Continue
  <2>3. CASE m # Nothing /\ job.op = "forget"
    BY <1>2, <2>0, <2>3 DEF R!Continue, R!Submit
  <2>4. CASE m # Nothing /\ job.op = "bind"
    BY <1>2, <2>0, <2>4 DEF R!Continue, R!Submit
  <2> QED BY <1>6, <2>1, <2>2, <2>3, <2>4 DEF WaitsFor
<1>8. rouDoc' \in Document /\ OneRule(rouDoc')
  <2>1. OneRule(rouDoc)
    BY DEF RuleInv, R!OneRuleForTheChat, OneRule
  <2> QED BY <1>1, <1>2, <1>5, <2>1, MutatedFacts, MutatedRule DEF RouteTypes
<1>9. RouteTypes'
  BY <1>2, <1>3, <1>7, <1>8 DEF RouteTypes, R!RunOver
<1>10. \A i \in 1 .. Len(rouQueue') : Awaited(rouQueue'[i]) => rouQueue'[i].for \in Messages /\ rouQueue'[i].for # m
  <2> SUFFICES ASSUME NEW i \in 1 .. Len(rouQueue'), Awaited(rouQueue'[i])
               PROVE  rouQueue'[i].for \in Messages /\ rouQueue'[i].for # m
    OBVIOUS
  <2>1. i + 1 \in 1 .. Len(rouQueue) /\ rouQueue'[i] = rouQueue[i + 1] /\ i + 1 # 1
    BY <1>1
  <2>2. rouQueue[i + 1] \in Job
    BY <2>1 DEF RoutingInv, RoutingTypes
  <2>3. rouQueue[i + 1].for # Nothing
    BY <2>1 DEF Awaited
  <2> QED BY <1>1, <2>1, <2>2, <2>3 DEF RoutingInv, JobInv, Job
<1>11. AskedInv'
  <2> SUFFICES ASSUME NEW i \in 1 .. Len(rouQueue') PROVE AskedFor(rouQueue[i])'
    BY DEF AskedInv
  <2>1. i + 1 \in 1 .. Len(rouQueue) /\ rouQueue'[i] = rouQueue[i + 1]
    BY <1>1
  <2>2. PICK other : other = rouQueue'[i] /\ AskedFor(other)
    BY <2>1 DEF AskedInv
  <2>3. Awaited(other) => rouRunning'[other.target] = other.for
    BY <1>7, <1>10, <2>2 DEF R!RunOver, AskedFor, NamesWell
  <2>4. rouDisturbed => rouDisturbed'
    BY <1>2
  <2> QED BY <1>3, <2>2, <2>3, <2>4 DEF AskedFor, NamesWell, Awaited
<1>12. CreatingInv'
  BY <1>7 DEF CreatingInv, R!RunOver
<1>13. MadeInv'
  <2> SUFFICES ASSUME ~rouDisturbed'
               PROVE  /\ \A n \in Messages : rouStage'[n] = "creating" => TeamsFor(TargetOf[n])' = {}
                      /\ \A i \in 1 .. Len(rouQueue') : Awaited(rouQueue'[i]) =>
                           \A team \in TeamsFor(rouQueue[i].target)' : team = rouQueue'[i].team
                      /\ \A t \in Topics : \A team \in TeamsFor(t)' :
                           \/ rouDoc'.bind[t] = team
                           \/ \E i \in 1 .. Len(rouQueue') :
                                Awaited(rouQueue'[i]) /\ rouQueue'[i].target = t /\ rouQueue'[i].team = team
    BY DEF MadeInv, Awaited
  <2>0. ~rouDisturbed /\ written
    BY <1>2
  <2>1. \A t : TeamsFor(t)' = TeamsFor(t)
    BY <1>3 DEF TeamsFor
  <2>2. \A n \in Messages : rouStage'[n] = "creating" => TeamsFor(TargetOf[n])' = {}
    BY <1>7, <2>0, <2>1 DEF MadeInv
  <2>3. \A i \in 1 .. Len(rouQueue') : Awaited(rouQueue'[i]) =>
           \A team \in TeamsFor(rouQueue[i].target)' : team = rouQueue'[i].team
    <3> SUFFICES ASSUME NEW i \in 1 .. Len(rouQueue'), Awaited(rouQueue'[i])
                 PROVE  \A team \in TeamsFor(rouQueue[i].target)' : team = rouQueue'[i].team
      OBVIOUS
    <3>1. i + 1 \in 1 .. Len(rouQueue) /\ rouQueue'[i] = rouQueue[i + 1]
      BY <1>1
    <3>2. PICK other : other = rouQueue'[i]
      OBVIOUS
    <3>3. PICK t : t = other.target
      OBVIOUS
    <3>4. \A team \in TeamsFor(t) : team = other.team
      BY <2>0, <3>1, <3>2, <3>3 DEF MadeInv
    <3>5. TeamsFor(rouQueue[i].target)' = TeamsFor(t)'
      BY <3>2, <3>3
    <3> QED BY <2>1, <3>2, <3>4, <3>5
  <2>4. ASSUME NEW t \in Topics, NEW team \in TeamsFor(t)', rouDoc'.bind[t] # team
        PROVE  \E i \in 1 .. Len(rouQueue') :
                 Awaited(rouQueue'[i]) /\ rouQueue'[i].target = t /\ rouQueue'[i].team = team
    <3>0. /\ team \in TeamsFor(t) /\ team \in Fresh /\ rouCore[team] = "open" /\ t \in R!Targets
          /\ rouDoc.bind \in [R!Targets -> R!Teams \union {Nothing}] /\ team \in R!Teams
      BY <2>1 DEF TeamsFor, R!Targets, RouteTypes, Document, R!Teams
    <3>1. ASSUME Awaited(job), job.target = t PROVE FALSE
      <4>1. team = job.team
        BY <1>1, <2>0, <3>0, <3>1 DEF MadeInv
      <4>2. ~R!Refused(rouDoc, job)
        BY <1>4, <3>1 DEF R!Refused, AskedFor, Awaited, R!RoutingAssumption
      <4>3. rouDoc' = R!Mutated(rouDoc, job) /\ job.op = "bind"
        BY <1>2, <2>0, <3>1, <4>2 DEF Awaited
      <4> QED BY <1>1, <1>5, <2>4, <3>0, <3>1, <4>1, <4>3, MutatedFacts DEF RouteTypes
    <3>2. ASSUME rouDoc.bind[t] = team PROVE FALSE
      <4>1. rouDoc' = R!Mutated(rouDoc, job)
        BY <1>2, <2>4, <3>2
      <4>2. CASE job.op = "bind"
        <5>1. job.target # t
          BY <1>4, <2>0, <3>1, <4>2 DEF AskedFor, Awaited
        <5> QED BY <1>1, <1>5, <2>4, <3>0, <3>2, <4>1, <4>2, <5>1, MutatedFacts DEF RouteTypes
      <4>3. CASE job.op = "unbind"
        BY <1>4, <1>6, <2>0, <4>3 DEF AskedFor, WaitsFor
      <4>4. CASE job.op = "forget"
        <5>1. t \notin RowsGone(rouDoc, job)
          BY <1>4, <3>0, <3>2, <4>4 DEF RowsGone, R!RoutesOf, AskedFor
        <5>2. rouDoc'.bind[t] = IF t \in RowsGone(rouDoc, job) THEN Nothing ELSE rouDoc.bind[t]
          BY <1>1, <1>5, <3>0, <4>1, <4>4, MutatedFacts DEF RouteTypes
        <5> QED BY <2>4, <3>2, <5>1, <5>2
      <4>5. CASE job.op \notin {"bind", "unbind", "forget"}
        BY <1>1, <1>5, <2>4, <3>2, <4>1, <4>5, MutatedFacts DEF RouteTypes
      <4> QED BY <4>2, <4>3, <4>4, <4>5
    <3>3. PICK i \in 1 .. Len(rouQueue) : Awaited(rouQueue[i]) /\ rouQueue[i].target = t /\ rouQueue[i].team = team
      BY <2>0, <3>0, <3>2 DEF MadeInv
    <3>4. i # 1
      BY <1>1, <3>1, <3>3
    <3> QED BY <1>1, <3>3, <3>4
  <2> QED BY <2>2, <2>3, <2>4
<1>14. RuleInv'
  <2>1. R!OneRuleForTheChat'
    BY <1>8 DEF R!OneRuleForTheChat, OneRule
  <2>2. R!OwnRouteMayPresent'
    <3>0. R!OwnRouteMayPresent /\ rouDoc \in Document /\ (~R!Live => rouFence = {})
      BY DEF RuleInv, RouteTypes
    <3>1. CASE ~R!Refused(rouDoc, job) /\ written /\ R!Live
      <4>1. PICK leaders \in SUBSET R!Routed : rouFence' = R!Presented(rouDoc, job, leaders) /\ rouDoc' = R!Mutated(rouDoc, job)
        BY <1>2, <3>1
      <4>2. \A t \in R!Targets : R!Mutated(rouDoc, job).bind[t] # Nothing =>
              <<R!Mutated(rouDoc, job).bind[t], t>> \notin R!Presented(rouDoc, job, leaders)
        BY <1>1, <1>5, <3>0, PresentedKeeps
      <4> QED BY <4>1, <4>2 DEF R!OwnRouteMayPresent
    <3>2. CASE ~(~R!Refused(rouDoc, job) /\ written /\ R!Live)
      <4>1. rouFence' = rouFence /\ (rouDoc' = rouDoc \/ rouFence = {})
        BY <1>2, <3>0, <3>2
      <4> QED BY <3>0, <4>1 DEF R!OwnRouteMayPresent
    <3> QED BY <3>1, <3>2
  <2>3. ~R!Live' => rouFence' = {}
    BY <1>2, <1>3 DEF RuleInv, R!Live
  <2>4. rouFence' \subseteq R!Teams \X R!Targets
    <3>1. rouFence \subseteq R!Teams \X R!Targets /\ (job.op = "forget" => job.team \in R!Teams)
      BY <1>4 DEF RuleInv, AskedFor
    <3>2. PICK leaders \in SUBSET R!Routed : rouFence' \in {rouFence, R!Presented(rouDoc, job, leaders)}
      BY <1>2
    <3>3. R!Presented(rouDoc, job, leaders) \subseteq R!Teams \X R!Targets
      BY <1>1, <1>5, <3>1, PresentedTypes DEF RouteTypes
    <3> QED BY <3>1, <3>2, <3>3
  <2> QED BY <2>1, <2>2, <2>3, <2>4 DEF RuleInv
<1> QED BY <1>9, <1>11, <1>12, <1>13, <1>14

LEMMA RouteKept ==
  ASSUME R!RoutingAssumption, RoutingInv, OwnerInv, [R!Next]_(R!vars)
  PROVE  OwnerInv'
<1>1. CASE UNCHANGED R!vars
  BY <1>1 DEF R!vars, OwnerInv, RouteTypes, AskedInv, AskedFor, Awaited, CreatingInv, MadeInv, TeamsFor,
              NamesWell, RuleInv, R!OneRuleForTheChat, R!OwnRouteMayPresent, R!Live
<1>2. CASE \/ \E team \in R!Teams, t \in R!Targets : R!BindChannel(team, t)
           \/ \E t \in R!Targets : R!UnbindChannel(t)
           \/ R!BindSpace \/ R!UnbindSpace \/ R!CloseAdmission \/ R!Abort \/ R!Drained
           \/ \E team \in R!Teams : R!Subscribe(team) \/ R!Unsubscribe(team) \/ R!TeamCloses(team) \/ R!TeamState(team)
  BY <1>2, RoutingOutsideQuiet, RoutingQuietKeeps
<1>3. CASE R!Commit
  BY <1>3, RoutingCommitsOwner
<1>4. ASSUME NEW m \in Messages, R!Arrive(m) \/ R!Handling(m) PROVE OwnerInv'
  <2>1. CASE R!TeamCreated(m)
    BY <2>1, RoutingCreates
  <2>2. CASE ~R!TeamCreated(m)
    BY <1>4, <2>2, RoutingMessageQuiet, RoutingQuietKeeps
  <2> QED BY <2>1, <2>2
<1> QED BY <1>1, <1>2, <1>3, <1>4 DEF R!Next

\* What the routing promises of its owners.
LEMMA OwnersMean ==
  ASSUME R!RoutingAssumption, OwnerInv, RoutingInv
  PROVE  R!OneRuleForTheChat /\ R!OwnRouteMayPresent /\ R!OneTeamPerTopic /\ R!TypeOK
<1>1. R!OneRuleForTheChat /\ R!OwnRouteMayPresent
  BY DEF OwnerInv, RuleInv
<1>2. ASSUME ~rouDisturbed, NEW t \in Topics
      PROVE  R!Cardinality(TeamsFor(t)) <= 1
  <2>1. \A x, y \in TeamsFor(t) : x = y
    <3> SUFFICES ASSUME NEW x \in TeamsFor(t), NEW y \in TeamsFor(t) PROVE x = y
      OBVIOUS
    <3>1. CASE rouDoc.bind[t] = x /\ rouDoc.bind[t] = y
      BY <3>1
    <3>2. ASSUME NEW i \in 1 .. Len(rouQueue), Awaited(rouQueue[i]), rouQueue[i].target = t PROVE x = y
      BY <1>2, <3>2 DEF OwnerInv, MadeInv
    <3> QED BY <1>2, <3>1, <3>2 DEF OwnerInv, MadeInv
  <2>2. TeamsFor(t) = {} \/ \E x : TeamsFor(t) = {x}
    BY <2>1
  <2>3. Cardinality(TeamsFor(t)) <= 1
    <3>1. CASE TeamsFor(t) = {}
      <4>1. Cardinality(TeamsFor(t)) = 0
        BY <3>1, FS_EmptySet, Zenon
      <4> QED BY <4>1
    <3>2. ASSUME NEW x, TeamsFor(t) = {x} PROVE Cardinality(TeamsFor(t)) <= 1
      <4>1. Cardinality(TeamsFor(t)) = 1
        BY <3>2, FS_Singleton, Zenon
      <4> QED BY <4>1
    <3> QED BY <2>2, <3>1, <3>2
  <2> QED BY <2>3, SameCardinality
<1>3. R!TypeOK
  BY DEF R!TypeOK, RoutingInv, RoutingTypes, OwnerInv, RouteTypes, RuleInv, Document
<1> QED BY <1>1, <1>2, <1>3 DEF R!OneTeamPerTopic, TeamsFor

\* A Team a topic was given, its route and what is queued for it stay of one story.
LEMMA AlwaysOwnerInv == EdgesSpec => [](RoutingInv /\ OwnerInv)
<1>1. R!Init => RoutingInv /\ OwnerInv
  BY RoutingStarts, OwnerStarts
<1>2. (RoutingInv /\ OwnerInv) /\ [R!Next]_(R!vars) => (RoutingInv /\ OwnerInv)'
  BY RoutingKept, RouteKept, EdgesAssumption
<1> QED BY <1>1, <1>2, RoutingAlone, PTL

----------------------------------------
(* The access of a Channel                                                 *)

\* An entry of a sender, and what is kept of a message.
Entry == [sender : Senders, card : Tokens \union {Nothing}, live : BOOLEAN]
Prompt == [stage : {"sending", "referring", "refreshing"}, sender : Senders, token : Tokens,
           resend : BOOLEAN]
Prompted == [stage : {"recording"}, sender : Senders, token : Tokens, resend : BOOLEAN, told : BOOLEAN]
Judged == [stage : {"none"}] \union [stage : {"deliver", "drop", "asked"}, sender : Senders]
Msg == Prompt \union Prompted \union Judged

AccessTypes ==
  /\ accPolicy \in [dm : A!DmPolicies, group : A!GroupPolicies, trusted : BOOLEAN, mention : BOOLEAN]
  /\ DOMAIN accPending \subseteq Tokens /\ IsFiniteSet(DOMAIN accPending)
  /\ accPending \in [DOMAIN accPending -> Entry]
  /\ accMsg \in [Messages -> Msg]

\* Who may speak was there or was approved, has no entry, and nobody has two, live or expired.
StoryInv ==
  /\ accAllowed = accApproved
  /\ \A t \in DOMAIN accPending : accPending[t].sender \notin accAllowed
  /\ \A t, u \in DOMAIN accPending : accPending[t].sender = accPending[u].sender => t = u

AccessInv == AccessTypes /\ StoryInv

LEMMA AccessStarts == A!Init => AccessInv
<1> SUFFICES ASSUME A!Init PROVE AccessInv
  OBVIOUS
<1>1. DOMAIN accPending = {} /\ accAllowed = accApproved /\ accPending \in [{} -> Entry] /\ IsFiniteSet({})
  BY FS_EmptySet DEF A!Init
<1>2. accMsg \in [Messages -> Msg]
  BY DEF A!Init, A!NoMsg, Msg, Judged
<1>3. accPolicy \in [dm : A!DmPolicies, group : A!GroupPolicies, trusted : BOOLEAN, mention : BOOLEAN]
  BY DEF A!Init
<1> QED BY <1>1, <1>2, <1>3 DEF AccessInv, AccessTypes, StoryInv

\* The gate delivers, drops or asks for pairing, and nothing else.
LEMMA GateAnswers ==
  ASSUME AccessTypes, NEW in \in A!Inbound
  PROVE  A!Gate(in) \in {"deliver", "drop", "pair"}
<1>1. accPolicy.dm \in A!DmPolicies /\ accPolicy.group \in A!GroupPolicies /\ {accPolicy.trusted, accPolicy.mention} \subseteq BOOLEAN
  BY DEF AccessTypes
<1>2. A!SenderGate(in) \in {"deliver", "drop", "pair"}
  BY <1>1 DEF A!SenderGate, A!DmPolicies
<1>3. A!GroupGate(in) \in {"deliver", "drop", "pair"}
  <2>1. CASE in.bot
    BY <2>1 DEF A!GroupGate
  <2>2. CASE ~in.bot /\ accPolicy.mention /\ ~in.mentioned
    BY <2>2 DEF A!GroupGate
  <2>3. CASE ~in.bot /\ ~(accPolicy.mention /\ ~in.mentioned)
    <3>1. A!GroupGate(in) = CASE accPolicy.group = "block" -> "drop"
                            [] accPolicy.group # "block" /\ accPolicy.trusted -> "deliver"
                            [] accPolicy.group = "allowlist" /\ ~accPolicy.trusted -> "drop"
                            [] accPolicy.group = "follow-user" /\ ~accPolicy.trusted -> A!SenderGate(in)
      BY <2>3 DEF A!GroupGate
    <3> QED BY <1>1, <1>2, <3>1 DEF A!GroupPolicies
  <2> QED BY <2>1, <2>2, <2>3
<1> QED BY <1>2, <1>3 DEF A!Gate

\* What has expired goes.
LEMMA PrunedFacts ==
  ASSUME AccessInv
  PROVE  /\ DOMAIN A!Pruned(accPending) = A!LiveOf(accPending) /\ A!LiveOf(accPending) \subseteq DOMAIN accPending
         /\ IsFiniteSet(A!LiveOf(accPending))
         /\ A!Pruned(accPending) \in [A!LiveOf(accPending) -> Entry]
         /\ \A t \in A!LiveOf(accPending) : A!Pruned(accPending)[t] = accPending[t]
  BY FS_Subset DEF A!Pruned, A!LiveOf, AccessInv, AccessTypes

\* What a message does before its prompt is recorded.
LEMMA AccessGates ==
  ASSUME A!AccessAssumption, AccessInv, NEW m \in Messages,
         A!GateMessage(m) \/ A!CardSent(m) \/ A!ReferenceSent(m) \/ A!Fails(m)
  PROVE  AccessInv'
<1> USE DEF AccessInv
<1>1. /\ UNCHANGED <<accPolicy, accAllowed, accApproved>> /\ accPending' \in {accPending, A!Pruned(accPending)}
      /\ accMsg' \in [Messages -> Msg]
  <2>0. accMsg[m] \in Msg
    BY DEF AccessTypes
  <2>1. CASE A!CardSent(m)
    <3>1. PICK told \in BOOLEAN :
            accMsg' = [accMsg EXCEPT ![m] = [stage |-> "recording", sender |-> @.sender,
                                             token |-> @.token, resend |-> @.resend, told |-> told]]
      BY <2>1 DEF A!CardSent
    <3>2. accMsg[m] \in Prompt
      BY <2>0, <2>1 DEF A!CardSent, Msg, Prompt, Prompted, Judged
    <3>3. [stage |-> "recording", sender |-> accMsg[m].sender, token |-> accMsg[m].token,
           resend |-> accMsg[m].resend, told |-> told] \in Prompted
      BY <3>2 DEF Prompt, Prompted
    <3> QED BY <2>1, <3>1, <3>3 DEF A!CardSent, AccessTypes, Msg
  <2>2. CASE A!ReferenceSent(m)
    <3>1. accMsg[m] \in Prompt
      BY <2>0, <2>2 DEF A!ReferenceSent, Msg, Prompt, Prompted, Judged
    <3>2. [accMsg[m] EXCEPT !.stage = "refreshing"] \in Prompt
      BY <3>1 DEF Prompt
    <3> QED BY <2>2, <3>2 DEF A!ReferenceSent, AccessTypes, Msg
  <2>3. CASE A!Fails(m)
    <3>1. accMsg[m] \in Prompt \union Prompted
      BY <2>0, <2>3 DEF A!Fails, Msg, Prompt, Prompted, Judged
    <3>2. [stage |-> "drop", sender |-> accMsg[m].sender] \in Judged
      BY <3>1 DEF Prompt, Prompted, Judged
    <3> QED BY <2>3, <3>2 DEF A!Fails, AccessTypes, Msg
  <2>4. CASE A!GateMessage(m)
    <3>1. PICK in \in A!Inbound :
            LET entries == A!EntriesOf(accPending, in.sender) IN
            CASE A!Gate(in) # "pair" ->
                   /\ accMsg' = [accMsg EXCEPT ![m] = [stage |-> A!Gate(in), sender |-> in.sender]]
                   /\ accPending' = A!Pruned(accPending) /\ UNCHANGED accUsed
              [] A!Gate(in) = "pair" /\ entries # {} ->
                   /\ \E t \in entries :
                        accMsg' = [accMsg EXCEPT ![m] =
                          [stage |-> IF accPending[t].card # Nothing THEN "referring" ELSE "sending",
                           sender |-> in.sender, token |-> t, resend |-> TRUE]]
                   /\ UNCHANGED <<accPending, accUsed>>
              [] A!Gate(in) = "pair" /\ entries = {} /\ A!Cardinality(A!LiveOf(accPending)) >= MaxPending ->
                   /\ accMsg' = [accMsg EXCEPT ![m] = [stage |-> "drop", sender |-> in.sender]]
                   /\ accPending' = A!Pruned(accPending) /\ UNCHANGED accUsed
              [] A!Gate(in) = "pair" /\ entries = {} /\ A!Cardinality(A!LiveOf(accPending)) < MaxPending ->
                   /\ \E t \in Tokens \ accUsed :
                        /\ accMsg' = [accMsg EXCEPT ![m] = [stage |-> "sending", sender |-> in.sender,
                                                            token |-> t, resend |-> FALSE]]
                        /\ accUsed' = accUsed \union {t}
                   /\ UNCHANGED accPending
      BY <2>4 DEF A!GateMessage
    <3>2. in.sender \in Senders /\ A!Gate(in) \in {"deliver", "drop", "pair"}
      BY GateAnswers DEF A!Inbound
    <3>3. A!Cardinality(A!LiveOf(accPending)) \in Nat /\ MaxPending \in Nat
      BY PrunedFacts, SameCardinality, FS_CardinalityType DEF A!AccessAssumption
    <3>4. \A g \in {"deliver", "drop"} : [stage |-> g, sender |-> in.sender] \in Msg
      BY <3>2 DEF Msg, Judged
    <3>5. \A g \in {"sending", "referring"}, t \in Tokens, b \in BOOLEAN :
            [stage |-> g, sender |-> in.sender, token |-> t, resend |-> b] \in Msg
      BY <3>2 DEF Msg, Prompt
    <3> DEFINE entries == A!EntriesOf(accPending, in.sender)
    <3>6. \A t \in entries : t \in Tokens
      BY DEF A!EntriesOf, A!LiveOf, AccessTypes
    <3> HIDE DEF entries
    <3>7. CASE A!Gate(in) # "pair"
      BY <2>4, <3>1, <3>2, <3>4, <3>7 DEF A!GateMessage, AccessTypes
    <3>8. CASE A!Gate(in) = "pair" /\ entries # {}
      <4>1. /\ \E t \in entries :
                 accMsg' = [accMsg EXCEPT ![m] =
                   [stage |-> IF accPending[t].card # Nothing THEN "referring" ELSE "sending",
                    sender |-> in.sender, token |-> t, resend |-> TRUE]]
            /\ accPending' = accPending
        BY <3>1, <3>8 DEF entries
      <4>2. PICK t \in entries :
              accMsg' = [accMsg EXCEPT ![m] =
                [stage |-> IF accPending[t].card # Nothing THEN "referring" ELSE "sending",
                 sender |-> in.sender, token |-> t, resend |-> TRUE]]
        BY <4>1
      <4>3. [stage |-> IF accPending[t].card # Nothing THEN "referring" ELSE "sending",
             sender |-> in.sender, token |-> t, resend |-> TRUE] \in Msg
        <5>1. CASE accPending[t].card # Nothing
          BY <3>5, <3>6, <4>2, <5>1
        <5>2. CASE ~(accPending[t].card # Nothing)
          BY <3>5, <3>6, <4>2, <5>2
        <5> QED BY <5>1, <5>2
      <4> QED BY <2>4, <4>1, <4>2, <4>3 DEF A!GateMessage, AccessTypes
    <3>9. CASE A!Gate(in) = "pair" /\ entries = {} /\ A!Cardinality(A!LiveOf(accPending)) >= MaxPending
      <4>0. ~(A!Cardinality(A!LiveOf(accPending)) < MaxPending) /\ ~(entries # {}) /\ ~(A!Gate(in) # "pair")
        BY <3>3, <3>9
      <4>1. accMsg' = [accMsg EXCEPT ![m] = [stage |-> "drop", sender |-> in.sender]] /\ accPending' = A!Pruned(accPending)
        BY <3>1, <3>9, <4>0 DEF entries
      <4> QED BY <2>4, <3>4, <4>1 DEF A!GateMessage, AccessTypes
    <3>10. CASE A!Gate(in) = "pair" /\ entries = {} /\ A!Cardinality(A!LiveOf(accPending)) < MaxPending
      <4>1. /\ \E t \in Tokens \ accUsed :
                 accMsg' = [accMsg EXCEPT ![m] = [stage |-> "sending", sender |-> in.sender,
                                                  token |-> t, resend |-> FALSE]]
            /\ accPending' = accPending
        BY <3>1, <3>3, <3>10 DEF entries
      <4> QED BY <2>4, <3>5, <4>1 DEF A!GateMessage, AccessTypes
    <3> QED BY <3>3, <3>7, <3>8, <3>9, <3>10
  <2> QED BY <2>1, <2>2, <2>3, <2>4 DEF A!CardSent, A!ReferenceSent, A!Fails
<1>2. CASE accPending' = accPending
  BY <1>1, <1>2 DEF AccessTypes, StoryInv
<1>3. CASE accPending' = A!Pruned(accPending)
  <2>1. /\ DOMAIN accPending' = A!LiveOf(accPending) /\ A!LiveOf(accPending) \subseteq DOMAIN accPending
        /\ IsFiniteSet(DOMAIN accPending') /\ accPending' \in [DOMAIN accPending' -> Entry]
        /\ \A t \in DOMAIN accPending' : accPending'[t] = accPending[t]
    BY <1>3, PrunedFacts
  <2> QED BY <1>1, <2>1 DEF AccessTypes, StoryInv
<1> QED BY <1>1, <1>2, <1>3

\* How the entries may change: some go, one is renewed or shown again, one more is made.
LEMMA AccessEntriesKeep ==
  ASSUME AccessInv, UNCHANGED <<accPolicy, accAllowed, accApproved>>, accMsg' \in [Messages -> Msg],
         DOMAIN accPending' \subseteq DOMAIN accPending, accPending' \in [DOMAIN accPending' -> Entry],
         \A t \in DOMAIN accPending' : accPending'[t].sender = accPending[t].sender
  PROVE  AccessInv'
<1>1. IsFiniteSet(DOMAIN accPending')
  BY FS_Subset DEF AccessInv, AccessTypes
<1> QED BY <1>1 DEF AccessInv, AccessTypes, StoryInv

\* A prompt is recorded or renewed, an entry expires, the App Owner clicks.
LEMMA AccessRecords ==
  ASSUME AccessInv,
         \/ \E m \in Messages : A!RefreshPairing(m) \/ A!RecordPairingPrompt(m)
         \/ \E t \in Tokens : A!Expires(t) \/ A!Approve(t)
  PROVE  AccessInv'
<1>0. /\ accPending \in [DOMAIN accPending -> Entry] /\ DOMAIN accPending \subseteq Tokens
      /\ \A t \in DOMAIN accPending : accPending[t] \in Entry
  BY DEF AccessInv, AccessTypes
<1>1. ASSUME NEW m \in Messages, A!RefreshPairing(m) \/ A!RecordPairingPrompt(m)
      PROVE  accMsg' \in [Messages -> Msg] /\ UNCHANGED <<accPolicy, accAllowed, accApproved>>
  <2>1. accMsg[m] \in Msg /\ accMsg[m].stage \in {"refreshing", "recording"}
    BY <1>1 DEF AccessInv, AccessTypes, A!RefreshPairing, A!RecordPairingPrompt
  <2>2. accMsg[m].sender \in Senders
    BY <2>1 DEF Msg, Prompt, Prompted, Judged
  <2>3. [stage |-> "asked", sender |-> accMsg[m].sender] \in Msg
    BY <2>2 DEF Msg, Judged
  <2>4. accMsg' = [accMsg EXCEPT ![m] = [stage |-> "asked", sender |-> accMsg[m].sender]]
    BY <1>1 DEF A!RefreshPairing, A!RecordPairingPrompt, A!Done, AccessInv, AccessTypes
  <2> QED BY <1>1, <2>3, <2>4 DEF A!RefreshPairing, A!RecordPairingPrompt, AccessInv, AccessTypes
<1>2. ASSUME NEW m \in Messages, A!RefreshPairing(m) PROVE AccessInv'
  <2>1. CASE accMsg[m].token \in DOMAIN accPending
    <3>1. accPending' = [accPending EXCEPT ![accMsg[m].token].live = TRUE]
      BY <1>2, <2>1 DEF A!RefreshPairing
    <3>2. [accPending[accMsg[m].token] EXCEPT !.live = TRUE] \in Entry
      BY <1>0, <2>1 DEF Entry
    <3>3. [accPending[accMsg[m].token] EXCEPT !.live = TRUE].sender = accPending[accMsg[m].token].sender
      BY <1>0, <2>1 DEF Entry
    <3> QED BY <1>0, <1>1, <1>2, <2>1, <3>1, <3>2, <3>3, AccessEntriesKeep
  <2>2. CASE accMsg[m].token \notin DOMAIN accPending
    BY <1>0, <1>1, <1>2, <2>2, AccessEntriesKeep DEF A!RefreshPairing
  <2> QED BY <2>1, <2>2
<1>3. ASSUME NEW m \in Messages, A!RecordPairingPrompt(m) PROVE AccessInv'
  <2> DEFINE shown == IF accMsg[m].told THEN accMsg[m].token ELSE Nothing
             entries == A!EntriesOf(accPending, accMsg[m].sender)
             who == accMsg[m].sender
  <2>0. /\ accMsg[m] \in Prompted
        /\ accMsg[m].token \in Tokens /\ who \in Senders /\ shown \in Tokens \union {Nothing}
    <3>1. accMsg[m] \in Msg /\ accMsg[m].stage = "recording"
      BY <1>3 DEF AccessInv, AccessTypes, A!RecordPairingPrompt
    <3> QED BY <3>1 DEF Msg, Prompt, Prompted, Judged
  <2>1. CASE who \in accAllowed
    <3>1. accPending' = accPending
      BY <1>3, <2>1 DEF A!RecordPairingPrompt
    <3> QED BY <1>0, <1>1, <1>3, <3>1, AccessEntriesKeep
  <2>2. CASE who \notin accAllowed /\ entries # {}
    <3>1. IF ~accMsg[m].resend THEN accPending' = A!Pruned(accPending)
          ELSE \E t \in entries : accPending' = [A!Pruned(accPending) EXCEPT ![t].card =
                                            IF @ = Nothing THEN shown ELSE @]
      BY <1>3, <2>2 DEF A!RecordPairingPrompt
    <3>2. CASE accPending' = A!Pruned(accPending)
      BY <1>1, <1>3, <3>2, PrunedFacts, AccessEntriesKeep
    <3>3. ASSUME NEW t \in entries,
                 accPending' = [A!Pruned(accPending) EXCEPT ![t].card = IF @ = Nothing THEN shown ELSE @]
          PROVE  AccessInv'
      <4>1. t \in A!LiveOf(accPending) /\ t \in DOMAIN accPending /\ A!Pruned(accPending)[t] = accPending[t]
        BY PrunedFacts DEF A!EntriesOf
      <4> DEFINE entry == [accPending[t] EXCEPT !.card = IF @ = Nothing THEN shown ELSE @]
      <4>2. entry \in Entry /\ entry.sender = accPending[t].sender
        BY <1>0, <2>0, <4>1 DEF Entry
      <4>3. accPending' = [A!Pruned(accPending) EXCEPT ![t] = entry]
        BY <3>3, <4>1
      <4> HIDE DEF entry
      <4> QED BY <1>0, <1>1, <1>3, <4>1, <4>2, <4>3, PrunedFacts, AccessEntriesKeep
    <3> QED BY <3>1, <3>2, <3>3
  <2>3. CASE who \notin accAllowed /\ entries = {}
    <3> DEFINE entry == [sender |-> who, card |-> shown, live |-> TRUE]
    <3>1. accPending' = A!With(A!Pruned(accPending), accMsg[m].token, entry)
      BY <1>3, <2>3 DEF A!RecordPairingPrompt
    <3>2. entry \in Entry /\ entry.sender = who
      BY <2>0 DEF Entry
    <3>3. \A t \in A!LiveOf(accPending) : accPending[t].sender # who
      BY <2>3 DEF A!EntriesOf
    <3> HIDE DEF entry, shown
    <3>4. A!LiveOf(accPending) \subseteq Tokens
      BY <1>0, PrunedFacts
    <3>5. /\ DOMAIN accPending' = A!LiveOf(accPending) \union {accMsg[m].token} /\ IsFiniteSet(DOMAIN accPending')
          /\ accPending' \in [DOMAIN accPending' -> Entry]
          /\ \A u \in DOMAIN accPending' :
               accPending'[u] = (IF u = accMsg[m].token THEN entry ELSE accPending[u])
      <4> DEFINE kept == A!Pruned(accPending)
      <4>1. /\ DOMAIN kept = A!LiveOf(accPending) /\ IsFiniteSet(DOMAIN kept) /\ DOMAIN kept \subseteq Tokens
            /\ kept \in [DOMAIN kept -> Entry] /\ \A u \in A!LiveOf(accPending) : kept[u] = accPending[u]
        BY <3>4, PrunedFacts
      <4>2. accPending' = A!With(kept, accMsg[m].token, entry) /\ accMsg[m].token \in Tokens
        BY <2>0, <3>1
      <4> HIDE DEF kept
      <4>3. /\ DOMAIN accPending' = DOMAIN kept \union {accMsg[m].token} /\ IsFiniteSet(DOMAIN accPending')
            /\ accPending' \in [DOMAIN kept \union {accMsg[m].token} -> Entry]
            /\ \A u \in DOMAIN kept \union {accMsg[m].token} :
                 accPending'[u] = (IF u = accMsg[m].token THEN entry ELSE kept[u])
        <5> DEFINE more == A!With(kept, accMsg[m].token, entry)
        <5>1. /\ DOMAIN more = DOMAIN kept \union {accMsg[m].token} /\ IsFiniteSet(DOMAIN more)
              /\ more \in [DOMAIN kept \union {accMsg[m].token} -> Entry]
              /\ \A u \in DOMAIN kept \union {accMsg[m].token} :
                   more[u] = (IF u = accMsg[m].token THEN entry ELSE kept[u])
          <6>1. IsFiniteSet(DOMAIN kept \union {accMsg[m].token})
            BY <4>1, FS_AddElement
          <6> QED BY <3>2, <4>1, <4>2, <6>1 DEF A!With
        <5> HIDE DEF more
        <5>2. accPending' = more
          BY <4>2 DEF more
        <5> QED BY <5>1, <5>2
      <4>4. \A u \in DOMAIN accPending' :
              accPending'[u] = (IF u = accMsg[m].token THEN entry ELSE accPending[u])
        BY <4>1, <4>3
      <4> QED BY <4>1, <4>3, <4>4
    <3>6. \A u \in DOMAIN accPending' : u # accMsg[m].token => u \in A!LiveOf(accPending) /\ accPending'[u] = accPending[u]
      BY <3>5
    <3>7. accMsg[m].token \in DOMAIN accPending' /\ accPending'[accMsg[m].token] = entry
      BY <3>5
    <3>8. StoryInv'
      BY <1>1, <1>3, <2>3, <3>2, <3>3, <3>6, <3>7, PrunedFacts DEF AccessInv, StoryInv
    <3>9. AccessTypes'
      BY <1>1, <1>3, <2>0, <3>4, <3>5 DEF AccessInv, AccessTypes
    <3> QED BY <3>8, <3>9 DEF AccessInv
  <2> QED BY <2>1, <2>2, <2>3
<1>4. ASSUME NEW t \in Tokens, A!Expires(t) PROVE AccessInv'
  <2>1. t \in DOMAIN accPending /\ accPending' = [accPending EXCEPT ![t].live = FALSE]
    BY <1>4 DEF A!Expires, A!LiveOf
  <2>2. [accPending[t] EXCEPT !.live = FALSE] \in Entry
    BY <1>0, <2>1 DEF Entry
  <2>3. [accPending[t] EXCEPT !.live = FALSE].sender = accPending[t].sender
    BY <1>0, <2>1 DEF Entry
  <2>4. accMsg' \in [Messages -> Msg]
    BY <1>4 DEF A!Expires, AccessInv, AccessTypes
  <2> QED BY <1>0, <1>4, <2>1, <2>2, <2>3, <2>4, AccessEntriesKeep DEF A!Expires
<1>5. ASSUME NEW t \in Tokens, A!Approve(t) PROVE AccessInv'
  <2>1. /\ DOMAIN accPending' = DOMAIN accPending \ {t}
        /\ \A u \in DOMAIN accPending' : accPending'[u] = accPending[u]
        /\ t \in DOMAIN accPending
    BY <1>5 DEF A!Approve, A!LiveOf
  <2>2. accPending' \in [DOMAIN accPending' -> Entry]
    <3>1. accPending' = [u \in DOMAIN accPending \ {t} |-> accPending[u]]
      BY <1>5 DEF A!Approve
    <3> QED BY <1>0, <2>1, <3>1
  <2>3. IsFiniteSet(DOMAIN accPending')
    BY <2>1, FS_Subset DEF AccessInv, AccessTypes
  <2>4. /\ accAllowed' = accAllowed \union {accPending[t].sender}
        /\ accApproved' = accApproved \union {accPending[t].sender}
        /\ UNCHANGED <<accPolicy, accMsg>>
    BY <1>5 DEF A!Approve
  <2> QED BY <2>1, <2>2, <2>3, <2>4 DEF AccessInv, AccessTypes, StoryInv
<1> QED BY <1>2, <1>3, <1>4, <1>5

LEMMA AccessKept == A!AccessAssumption /\ AccessInv /\ [A!Next]_(A!vars) => AccessInv'
<1> SUFFICES ASSUME A!AccessAssumption, AccessInv, [A!Next]_(A!vars) PROVE AccessInv'
  OBVIOUS
<1>1. CASE UNCHANGED A!vars
  BY <1>1 DEF A!vars, AccessInv, AccessTypes, StoryInv
<1>2. CASE A!Next
  BY <1>2, AccessGates, AccessRecords DEF A!Next
<1> QED BY <1>1, <1>2

\* So each sender has one story.
LEMMA OneStory == AccessInv => A!OneStoryPerSender
<1> SUFFICES ASSUME AccessInv, NEW s \in Senders
             PROVE  /\ Cardinality(A!EntriesOf(accPending, s)) <= 1
                    /\ s \in accAllowed => A!EntriesOf(accPending, s) = {}
  BY SameCardinality DEF A!OneStoryPerSender, AccessInv, StoryInv
<1>1. \A t \in A!EntriesOf(accPending, s) : t \in DOMAIN accPending /\ accPending[t].sender = s
  BY DEF A!EntriesOf, A!LiveOf
<1>2. s \in accAllowed => A!EntriesOf(accPending, s) = {}
  BY <1>1 DEF AccessInv, StoryInv
<1>3. CASE A!EntriesOf(accPending, s) = {}
  BY <1>2, <1>3, FS_EmptySet
<1>4. ASSUME NEW t \in A!EntriesOf(accPending, s) PROVE Cardinality(A!EntriesOf(accPending, s)) <= 1
  <2>1. A!EntriesOf(accPending, s) = {t}
    BY <1>1 DEF AccessInv, StoryInv
  <2>2. Cardinality({t}) = 1
    BY FS_Singleton
  <2> QED BY <2>1, <2>2
<1> QED BY <1>2, <1>3, <1>4

\* What the gate keeps under a token was shown under it: an entry's token is that of a card on
\* screen, and every token was minted.
AccessFormInv ==
  /\ accAllowed \subseteq Senders /\ accApproved \subseteq Senders
  /\ accUsed \subseteq Tokens /\ accCards \subseteq accUsed /\ DOMAIN accPending \subseteq accCards
  /\ \A t \in DOMAIN accPending : accPending[t].card \in accCards \union {Nothing}
  /\ \A m \in Messages : accMsg[m].stage = "sending" => accMsg[m].token \in accUsed
  /\ \A m \in Messages : accMsg[m].stage = "recording" => accMsg[m].token \in accCards

LEMMA AccessFormStarts == A!Init => AccessFormInv
<1> SUFFICES ASSUME A!Init PROVE AccessFormInv
  OBVIOUS
<1>1. DOMAIN accPending = {} /\ accUsed = {} /\ accCards = {} /\ accAllowed \subseteq Senders /\ accApproved = accAllowed
  BY DEF A!Init
<1>2. \A m \in Messages : accMsg[m].stage = "none"
  BY DEF A!Init, A!NoMsg
<1> QED BY <1>1, <1>2 DEF AccessFormInv

LEMMA AccessFormKept ==
  ASSUME A!AccessAssumption, AccessInv, AccessFormInv, [A!Next]_(A!vars)
  PROVE  AccessFormInv'
<1> USE DEF AccessInv
<1>0. \A m \in Messages : accMsg[m] \in Msg
  BY DEF AccessTypes
<1>1. CASE UNCHANGED A!vars
  BY <1>1 DEF A!vars, AccessFormInv
<1>2. ASSUME NEW m \in Messages, A!GateMessage(m) PROVE AccessFormInv'
  <2>1. UNCHANGED <<accAllowed, accCards, accApproved>>
    BY <1>2 DEF A!GateMessage
  <2> DEFINE Put(v) == accMsg' = [accMsg EXCEPT ![m] = v]
  <2>a. ASSUME NEW v, Put(v)
        PROVE  (\A n \in Messages : n # m => accMsg'[n] = accMsg[n]) /\ accMsg'[m] = v
    BY <2>a DEF AccessTypes
  <2>2. /\ accUsed \subseteq accUsed' /\ accUsed' \subseteq Tokens
        /\ accPending' \in {accPending, A!Pruned(accPending)}
        /\ \A n \in Messages : n # m => accMsg'[n] = accMsg[n]
        /\ accMsg'[m].stage # "recording" /\ (accMsg'[m].stage = "sending" => accMsg'[m].token \in accUsed')
    <3>0. accUsed \subseteq Tokens
      BY DEF AccessFormInv
    <3>1. PICK in \in A!Inbound :
            LET theirs == A!EntriesOf(accPending, in.sender) IN
            CASE A!Gate(in) # "pair" ->
                   /\ Put([stage |-> A!Gate(in), sender |-> in.sender])
                   /\ accPending' = A!Pruned(accPending) /\ UNCHANGED accUsed
              [] A!Gate(in) = "pair" /\ theirs # {} ->
                   /\ \E t \in theirs : Put([stage |-> IF accPending[t].card # Nothing THEN "referring" ELSE "sending",
                                          sender |-> in.sender, token |-> t, resend |-> TRUE])
                   /\ UNCHANGED <<accPending, accUsed>>
              [] A!Gate(in) = "pair" /\ theirs = {} /\ A!Cardinality(A!LiveOf(accPending)) >= MaxPending ->
                   /\ Put([stage |-> "drop", sender |-> in.sender])
                   /\ accPending' = A!Pruned(accPending) /\ UNCHANGED accUsed
              [] A!Gate(in) = "pair" /\ theirs = {} /\ A!Cardinality(A!LiveOf(accPending)) < MaxPending ->
                   /\ \E t \in Tokens \ accUsed :
                        /\ Put([stage |-> "sending", sender |-> in.sender, token |-> t, resend |-> FALSE])
                        /\ accUsed' = accUsed \union {t}
                   /\ UNCHANGED accPending
      BY <1>2 DEF A!GateMessage
    <3> HIDE DEF Put
    <3>c. A!Cardinality(A!LiveOf(accPending)) \in Nat /\ MaxPending \in Nat
      BY PrunedFacts, SameCardinality, FS_CardinalityType DEF A!AccessAssumption
    <3> DEFINE theirs == A!EntriesOf(accPending, in.sender)
    <3>2. CASE A!Gate(in) # "pair"
      <4>1. A!Gate(in) \in {"deliver", "drop"}
        BY <3>2, GateAnswers
      <4>2. Put([stage |-> A!Gate(in), sender |-> in.sender]) /\ accPending' = A!Pruned(accPending) /\ accUsed' = accUsed
        BY <3>1, <3>2
      <4> QED BY <2>a, <3>0, <4>1, <4>2
    <3>3. CASE A!Gate(in) = "pair" /\ theirs # {}
      <4>1. /\ \E t \in theirs : Put([stage |-> IF accPending[t].card # Nothing THEN "referring" ELSE "sending",
                                   sender |-> in.sender, token |-> t, resend |-> TRUE])
            /\ accPending' = accPending /\ accUsed' = accUsed
        BY <3>1, <3>3
      <4>2. PICK t \in theirs : Put([stage |-> IF accPending[t].card # Nothing THEN "referring" ELSE "sending",
                                   sender |-> in.sender, token |-> t, resend |-> TRUE])
        BY <4>1
      <4>3. t \in accUsed
        BY DEF A!EntriesOf, A!LiveOf, AccessFormInv
      <4> QED BY <2>a, <3>0, <4>1, <4>2, <4>3
    <3>4. CASE A!Gate(in) = "pair" /\ theirs = {}
      <4>1. CASE accPending' = A!Pruned(accPending) /\ accUsed' = accUsed
                 /\ Put([stage |-> "drop", sender |-> in.sender])
        BY <2>a, <3>0, <4>1
      <4>2. CASE /\ \E t \in Tokens \ accUsed :
                        /\ Put([stage |-> "sending", sender |-> in.sender, token |-> t, resend |-> FALSE])
                        /\ accUsed' = accUsed \union {t}
                 /\ accPending' = accPending
        <5>1. PICK t \in Tokens \ accUsed :
                /\ Put([stage |-> "sending", sender |-> in.sender, token |-> t, resend |-> FALSE])
                /\ accUsed' = accUsed \union {t}
          BY <4>2
        <5> QED BY <2>a, <3>0, <4>2, <5>1
      <4>3. CASE A!Cardinality(A!LiveOf(accPending)) >= MaxPending
        <5>0. ~(A!Cardinality(A!LiveOf(accPending)) < MaxPending) /\ ~(theirs # {}) /\ ~(A!Gate(in) # "pair")
          BY <3>4, <3>c, <4>3
        <5> QED BY <3>1, <3>4, <4>1, <4>3, <5>0
      <4>4. CASE A!Cardinality(A!LiveOf(accPending)) < MaxPending
        <5>0. ~(A!Cardinality(A!LiveOf(accPending)) >= MaxPending) /\ ~(theirs # {}) /\ ~(A!Gate(in) # "pair")
          BY <3>4, <3>c, <4>4
        <5> QED BY <3>1, <3>4, <4>2, <4>4, <5>0
      <4> QED BY <3>c, <4>3, <4>4
    <3> QED BY <3>2, <3>3, <3>4
  <2>3. \A t \in DOMAIN accPending' : t \in DOMAIN accPending /\ accPending'[t] = accPending[t]
    BY <2>2, PrunedFacts
  <2> HIDE DEF Put
  <2> QED BY <2>1, <2>2, <2>3 DEF AccessFormInv
<1>3. ASSUME NEW m \in Messages, A!CardSent(m) PROVE AccessFormInv'
  <2>1. /\ UNCHANGED <<accAllowed, accPending, accUsed, accApproved>> /\ accMsg[m].stage = "sending"
        /\ accCards' = accCards \union {accMsg[m].token}
        /\ \E told : accMsg' = [accMsg EXCEPT ![m] = [stage |-> "recording", sender |-> @.sender,
                                token |-> @.token, resend |-> @.resend, told |-> told]]
    BY <1>3 DEF A!CardSent
  <2>2. \A n \in Messages : n # m => accMsg'[n] = accMsg[n]
    BY <2>1 DEF AccessTypes
  <2>3. accMsg'[m].stage = "recording" /\ accMsg'[m].token = accMsg[m].token
    BY <2>1 DEF AccessTypes
  <2> QED BY <2>1, <2>2, <2>3 DEF AccessFormInv
<1>4. ASSUME NEW m \in Messages, A!ReferenceSent(m) \/ A!Fails(m) PROVE AccessFormInv'
  <2>1. UNCHANGED <<accAllowed, accPending, accUsed, accCards, accApproved>>
    BY <1>4 DEF A!ReferenceSent, A!Fails
  <2>3. (\A n \in Messages : n # m => accMsg'[n] = accMsg[n]) /\ accMsg'[m].stage \in {"refreshing", "drop"}
    <3>1. CASE A!ReferenceSent(m)
      <4>1. accMsg[m] \in Prompt
        BY <1>0, <3>1 DEF A!ReferenceSent, Msg, Prompt, Prompted, Judged
      <4>2. accMsg' = [accMsg EXCEPT ![m] = [accMsg[m] EXCEPT !.stage = "refreshing"]]
        BY <3>1 DEF A!ReferenceSent
      <4>3. accMsg'[m] = [accMsg[m] EXCEPT !.stage = "refreshing"]
        BY <4>2 DEF AccessTypes
      <4>4. [accMsg[m] EXCEPT !.stage = "refreshing"].stage = "refreshing"
        BY <4>1 DEF Prompt
      <4> QED BY <4>2, <4>3, <4>4 DEF AccessTypes
    <3>2. CASE A!Fails(m)
      BY <3>2 DEF A!Fails, AccessTypes
    <3> QED BY <1>4, <3>1, <3>2
  <2> QED BY <2>1, <2>3 DEF AccessFormInv
<1>5. ASSUME NEW m \in Messages, A!RefreshPairing(m) \/ A!RecordPairingPrompt(m) PROVE AccessFormInv'
  <2>1. UNCHANGED <<accAllowed, accUsed, accCards, accApproved>> /\ A!Done(m)
    BY <1>5 DEF A!RefreshPairing, A!RecordPairingPrompt
  <2>2. \A n \in Messages : n # m => accMsg'[n] = accMsg[n]
    BY <2>1 DEF A!Done, AccessTypes
  <2>3. accMsg'[m].stage = "asked"
    BY <2>1 DEF A!Done, AccessTypes
  <2>4. \A t \in DOMAIN accPending' : t \in accCards /\ accPending'[t].card \in accCards \union {Nothing}
    <3>1. CASE A!RefreshPairing(m)
      <4>1. accPending' = accPending \/ \E t \in DOMAIN accPending : accPending' = [accPending EXCEPT ![t].live = TRUE]
        BY <3>1 DEF A!RefreshPairing
      <4>2. \A t \in DOMAIN accPending : accPending[t] \in Entry
        BY DEF AccessTypes
      <4> QED BY <4>1, <4>2 DEF AccessFormInv, Entry
    <3>2. CASE A!RecordPairingPrompt(m)
      <4> DEFINE kept == A!Pruned(accPending)
                 shown == IF accMsg[m].told THEN accMsg[m].token ELSE Nothing
                 theirs == A!EntriesOf(accPending, accMsg[m].sender)
      <4>1. /\ shown \in accCards \union {Nothing} /\ accMsg[m].token \in accCards
        BY <3>2 DEF A!RecordPairingPrompt, AccessFormInv
      <4>2. /\ DOMAIN kept \subseteq DOMAIN accPending
            /\ \A t \in DOMAIN kept : kept[t] = accPending[t] /\ kept[t] \in Entry
        BY PrunedFacts DEF AccessTypes
      <4>3. \/ accPending' = accPending \/ accPending' = kept
            \/ \E t \in theirs : accPending' = [kept EXCEPT ![t].card = IF @ = Nothing THEN shown ELSE @]
            \/ accPending' = A!With(kept, accMsg[m].token, [sender |-> accMsg[m].sender, card |-> shown, live |-> TRUE])
        BY <3>2 DEF A!RecordPairingPrompt
      <4>4. CASE accPending' = accPending \/ accPending' = kept
        BY <4>2, <4>4 DEF AccessFormInv
      <4>5. CASE \E t \in theirs : accPending' = [kept EXCEPT ![t].card = IF @ = Nothing THEN shown ELSE @]
        <5>1. PICK t \in theirs : accPending' = [kept EXCEPT ![t].card = IF @ = Nothing THEN shown ELSE @]
          BY <4>5
        <5> HIDE DEF kept, shown, theirs
        <5>2. DOMAIN accPending' = DOMAIN kept
          BY <5>1
        <5>3. \A u \in DOMAIN kept : accPending'[u].card \in {kept[u].card, shown}
          BY <4>2, <5>1 DEF Entry
        <5> QED BY <4>1, <4>2, <5>2, <5>3 DEF AccessFormInv
      <4>6. CASE accPending' = A!With(kept, accMsg[m].token, [sender |-> accMsg[m].sender, card |-> shown, live |-> TRUE])
        <5> HIDE DEF kept, shown, theirs
        <5>1. DOMAIN accPending' = DOMAIN kept \union {accMsg[m].token}
          BY <4>6 DEF A!With
        <5>2. \A u \in DOMAIN accPending' :
                accPending'[u] = IF u = accMsg[m].token THEN [sender |-> accMsg[m].sender, card |-> shown, live |-> TRUE] ELSE kept[u]
          BY <4>6 DEF A!With
        <5> QED BY <4>1, <4>2, <5>1, <5>2 DEF AccessFormInv
      <4> QED BY <4>3, <4>4, <4>5, <4>6
    <3> QED BY <1>5, <3>1, <3>2
  <2> QED BY <2>1, <2>2, <2>3, <2>4 DEF AccessFormInv
<1>6. ASSUME NEW t \in Tokens, A!Expires(t) \/ A!Approve(t) PROVE AccessFormInv'
  <2>1. UNCHANGED <<accUsed, accCards, accMsg>> /\ t \in DOMAIN accPending /\ accPending[t] \in Entry
    BY <1>6 DEF A!Expires, A!Approve, A!LiveOf, AccessTypes
  <2>2. accAllowed' \subseteq Senders /\ accApproved' \subseteq Senders
    BY <1>6, <2>1 DEF A!Expires, A!Approve, AccessFormInv, Entry
  <2>3. \A u \in DOMAIN accPending' : u \in DOMAIN accPending /\ accPending'[u].card = accPending[u].card
    <3>1. CASE A!Expires(t)
      <4>1. accPending' = [accPending EXCEPT ![t].live = FALSE]
        BY <3>1 DEF A!Expires
      <4> QED BY <2>1, <4>1 DEF Entry
    <3>2. CASE A!Approve(t)
      BY <3>2 DEF A!Approve
    <3> QED BY <1>6, <3>1, <3>2
  <2> QED BY <2>1, <2>2, <2>3 DEF AccessFormInv
<1> QED BY <1>1, <1>2, <1>3, <1>4, <1>5, <1>6 DEF A!Next

LEMMA AccessTyped == AccessInv /\ AccessFormInv => A!TypeOK
<1> SUFFICES ASSUME AccessInv, AccessFormInv PROVE A!TypeOK
  OBVIOUS
<1> USE DEF AccessInv
<1>1. \A t \in DOMAIN accPending : accPending[t].sender \in Senders /\ accPending[t].live \in BOOLEAN
  BY DEF AccessTypes, Entry
<1>2. \A m \in Messages : accMsg[m].stage \in {"none", "deliver", "drop", "sending", "referring",
                                               "recording", "refreshing", "asked"}
  BY DEF AccessTypes, Msg, Prompt, Prompted, Judged
<1> QED BY <1>1, <1>2 DEF A!TypeOK, AccessTypes, AccessFormInv

LEMMA AlwaysAccessFormInv == EdgesSpec => [](AccessInv /\ AccessFormInv)
<1>1. A!Init => AccessInv /\ AccessFormInv
  BY AccessStarts, AccessFormStarts
<1>2. AccessInv /\ AccessFormInv /\ [A!Next]_(A!vars) => AccessInv' /\ AccessFormInv'
  BY AccessKept, AccessFormKept, EdgesAssumption
<1> QED BY <1>1, <1>2, AccessAlone, PTL

----------------------------------------
(* The admission ledger                                                    *)

\* Every turn of the first key is followed by one of the second.
AfterIn(s, k1, k2) == \A i \in 1..Len(s) : s[i] = k1 => \E j \in (i + 1)..Len(s) : s[j] = k2
After(k1, k2) == AfterIn(ledTurns, k1, k2)

\* The keys that had a turn since.
SinceIn(s, i) == {s[j] : j \in (i + 1)..Len(s)} \ {s[i]}
Since(i) == SinceIn(ledTurns, i)

\* A settled admission that is yet to be committed, or released.
Due(n) == ledTask[ledReactions[n]] \in L!Taken
DueKey(n) == KeyOf[ledReactions[n]]

LedgerTypes ==
  /\ ledCommitted \in Seq(Keys) /\ Len(ledCommitted) <= SourceWindow
  /\ ledPending \in [Keys -> Submitters \cup {L!None}]
  /\ ledTask \in [Submitters -> {"none", "running"} \cup L!Admissions]
  /\ ledAnswer \in [Submitters -> {"idle", "waiting", "duplicate"} \cup L!Admissions]
  /\ ledReactions \in Seq(Submitters) /\ ledTurns \in Seq(Keys)

\* An admission holds its key, which is not committed, until the ledger has seen its end.
HeldInv ==
  /\ \A a, b \in 1..Len(ledCommitted) : ledCommitted[a] = ledCommitted[b] => a = b
  /\ \A m, n \in 1..Len(ledReactions) : ledReactions[m] = ledReactions[n] => m = n
  /\ \A n \in 1..Len(ledReactions) : ledTask[ledReactions[n]] \in L!Admissions
  /\ \A c \in Submitters : ledTask[c] # "none" => ledAnswer[c] # "idle"
  /\ \A c \in Submitters : ledTask[c] = "running" \/ c \in L!Elements(ledReactions) =>
       ledPending[KeyOf[c]] = c /\ KeyOf[c] \notin L!Elements(ledCommitted)

\* The committed keys, and after them those that are due, are in the order of their last turns.
OrderInv ==
  /\ \A a, b \in 1..Len(ledCommitted) : a < b => After(ledCommitted[a], ledCommitted[b])
  /\ \A a \in 1..Len(ledCommitted), n \in 1..Len(ledReactions) : Due(n) => After(ledCommitted[a], DueKey(n))
  /\ \A m, n \in 1..Len(ledReactions) : m < n /\ Due(m) /\ Due(n) => After(DueKey(m), DueKey(n))

\* A turn is remembered until Window other keys had theirs.
WindowInv ==
  \A i \in 1..Len(ledTurns) :
    \/ ledTurns[i] \in L!Elements(ledCommitted)
    \/ \E n \in 1..Len(ledReactions) : Due(n) /\ ledTurns[i] = DueKey(n)
    \/ Cardinality(Since(i)) >= SourceWindow

LedgerInv == LedgerTypes /\ HeldInv /\ OrderInv /\ WindowInv /\ L!OneTurnPerWindow

\* How many keys had a turn is counted.
LEMMA SinceFinite ==
  ASSUME NEW s \in Seq(Keys), NEW i \in 1..Len(s)
  PROVE  /\ IsFiniteSet({s[j] : j \in (i + 1)..Len(s)})
         /\ IsFiniteSet(SinceIn(s, i)) /\ Cardinality(SinceIn(s, i)) \in Nat
<1> DEFINE later == (i + 1)..Len(s)
           had == {s[j] : j \in later}
           f == [j \in later |-> s[j]]
<1>1. IsFiniteSet(later)
  BY FS_Interval
<1>2. f \in Surjection(later, had)
  BY DEF Surjection
<1>3. IsFiniteSet(had)
  BY <1>1, <1>2, FS_Surjection
<1>4. SinceIn(s, i) \in SUBSET had
  BY DEF SinceIn
<1> QED BY <1>3, <1>4, FS_Subset, FS_CardinalityType

\* One more turn: nothing that was had since is forgotten.
LEMMA TurnMore ==
  ASSUME NEW s \in Seq(Keys), NEW k \in Keys
  PROVE  /\ Append(s, k) \in Seq(Keys) /\ Len(Append(s, k)) = Len(s) + 1 /\ Len(s) \in Nat
         /\ \A i \in 1..Len(s) : Append(s, k)[i] = s[i]
         /\ Append(s, k)[Len(s) + 1] = k
  OBVIOUS

LEMMA SinceGrows ==
  ASSUME NEW s \in Seq(Keys), NEW k \in Keys, NEW i \in 1..Len(s)
  PROVE  Cardinality(SinceIn(s, i)) <= Cardinality(SinceIn(Append(s, k), i))
<1>1. i \in 1..Len(Append(s, k)) /\ Append(s, k)[i] = s[i]
  BY TurnMore
<1>2. \A j \in (i + 1)..Len(s) : j \in (i + 1)..Len(Append(s, k)) /\ Append(s, k)[j] = s[j]
  BY TurnMore
<1>3. SinceIn(s, i) \in SUBSET SinceIn(Append(s, k), i)
  BY <1>1, <1>2 DEF SinceIn
<1>4. IsFiniteSet(SinceIn(Append(s, k), i))
  BY <1>1, TurnMore, SinceFinite
<1> QED BY <1>3, <1>4, FS_Subset

LEMMA AfterGrows ==
  ASSUME NEW s \in Seq(Keys), NEW k \in Keys, NEW k1 \in Keys, k1 # k
  PROVE  /\ AfterIn(Append(s, k), k1, k)
         /\ \A k2 \in Keys : AfterIn(s, k1, k2) => AfterIn(Append(s, k), k1, k2)
<1>1. ASSUME NEW i \in 1..Len(Append(s, k)), Append(s, k)[i] = k1
      PROVE  i \in 1..Len(s) /\ s[i] = k1
  BY <1>1, TurnMore
<1>2. \A i \in 1..Len(s) : Len(s) + 1 \in (i + 1)..Len(Append(s, k))
  BY TurnMore
<1>3. \A i \in 1..Len(s) : \A j \in (i + 1)..Len(s) :
        j \in (i + 1)..Len(Append(s, k)) /\ Append(s, k)[j] = s[j]
  BY TurnMore
<1> QED BY <1>1, <1>2, <1>3, TurnMore DEF AfterIn

\* Distinct keys that all had a turn since count in full.
LEMMA FullWindow ==
  ASSUME NEW s \in Seq(Keys), NEW w \in Seq(Keys), NEW i \in 1..Len(s),
         \A m, n \in 1..Len(w) : w[m] = w[n] => m = n,
         \A n \in 1..Len(w) : w[n] # s[i] /\ \E j \in (i + 1)..Len(s) : s[j] = w[n]
  PROVE  Cardinality(SinceIn(s, i)) >= Len(w)
<1>1. L!Elements(w) \in SUBSET SinceIn(s, i)
  BY DEF L!Elements, SinceIn
<1>2. ExistsBijection(1..Len(w), L!Elements(w))
  <2> DEFINE f == [n \in 1..Len(w) |-> w[n]]
  <2>1. f \in Bijection(1..Len(w), L!Elements(w))
    BY DEF Bijection, Injection, IsInjective, Surjection, L!Elements
  <2> QED BY <2>1 DEF ExistsBijection
<1>3. Cardinality(L!Elements(w)) = Len(w)
  BY <1>2, FS_CountingElements
<1>4. Cardinality(L!Elements(w)) <= Cardinality(SinceIn(s, i))
  BY <1>1, SinceFinite, FS_Subset
<1> QED BY <1>3, <1>4, SinceFinite

\* A step that is not about turns has the same turns.
LEMMA TurnsAsBefore ==
  ASSUME L!OneTurnPerWindow, ledTurns' = ledTurns
  PROVE  L!OneTurnPerWindow'
<1> SUFFICES ASSUME NEW i \in 1..Len(ledTurns), NEW j \in 1..Len(ledTurns), i < j, ledTurns[i] = ledTurns[j]
             PROVE  L!Cardinality({ledTurns'[n] : n \in (i + 1)..(j - 1)} \ {ledTurns'[i]}) >= SourceWindow
  BY DEF L!OneTurnPerWindow
<1>1. {ledTurns'[n] : n \in (i + 1)..(j - 1)} \ {ledTurns'[i]}
        = {ledTurns[n] : n \in (i + 1)..(j - 1)} \ {ledTurns[i]}
  OBVIOUS
<1>2. L!Cardinality({ledTurns[n] : n \in (i + 1)..(j - 1)} \ {ledTurns[i]}) >= SourceWindow
  BY DEF L!OneTurnPerWindow
<1> QED BY <1>1, <1>2

LEMMA LedgerStarts == L!LedgerAssumption /\ L!Init => LedgerInv
<1> SUFFICES ASSUME L!LedgerAssumption, L!Init PROVE LedgerInv
  OBVIOUS
<1>1. LedgerTypes
  BY DEF L!Init, LedgerTypes, L!LedgerAssumption, L!None
<1>2. Len(ledCommitted) = 0 /\ Len(ledReactions) = 0 /\ Len(ledTurns) = 0
  BY DEF L!Init
<1>3. HeldInv /\ OrderInv /\ WindowInv /\ L!OneTurnPerWindow
  BY <1>2 DEF L!Init, HeldInv, OrderInv, WindowInv, L!OneTurnPerWindow, L!Elements
<1> QED BY <1>1, <1>3 DEF LedgerInv

\* A submission comes, or hears its answer.
LEMMA LedgerAdmits ==
  ASSUME L!LedgerAssumption, LedgerInv, NEW c \in Submitters, L!Admit(c) \/ L!Answered(c)
  PROVE  LedgerInv'
<1> USE DEF LedgerInv
<1>0. UNCHANGED <<ledCommitted, ledReactions, ledTurns>>
  BY DEF L!Admit, L!AdmitDuplicate, L!AdmitJoins, L!AdmitRuns, L!Answered
<1>1. CASE L!AdmitRuns(c)
  <2>1. KeyOf[c] \in Keys /\ c # L!None /\ \A d \in Submitters : d # L!None
    BY DEF L!LedgerAssumption, L!None
  <2>2. /\ ledPending' = [ledPending EXCEPT ![KeyOf[c]] = c] /\ ledTask' = [ledTask EXCEPT ![c] = "running"]
        /\ ledAnswer' = [ledAnswer EXCEPT ![c] = "waiting"]
        /\ ledAnswer[c] = "idle" /\ KeyOf[c] \notin L!Elements(ledCommitted) /\ ledPending[KeyOf[c]] = L!None
    BY <1>1 DEF L!AdmitRuns
  <2>3. LedgerTypes'
    BY <1>0, <2>1, <2>2 DEF LedgerTypes
  <2>4. ledTask[c] = "none"
    BY <2>2 DEF HeldInv, LedgerTypes
  <2>5. \A n \in 1..Len(ledReactions) :
          ledReactions[n] \in Submitters /\ ledReactions[n] # c /\ ledTask'[ledReactions[n]] = ledTask[ledReactions[n]]
    <3>1. \A n \in 1..Len(ledReactions) : ledReactions[n] \in Submitters
      BY DEF LedgerTypes
    <3>2. \A n \in 1..Len(ledReactions) : ledTask[ledReactions[n]] # "none"
      BY DEF HeldInv, L!Admissions, L!Taken, L!NotTaken
    <3>3. \A n \in 1..Len(ledReactions) : ledReactions[n] # c
      BY <2>4, <3>2
    <3> QED BY <2>2, <3>1, <3>3 DEF LedgerTypes
  <2>6. HeldInv'
    <3>1. ASSUME NEW d \in Submitters, ledTask'[d] = "running" \/ d \in L!Elements(ledReactions')
          PROVE  ledPending'[KeyOf[d]] = d /\ KeyOf[d] \notin L!Elements(ledCommitted')
      <4>1. CASE d = c
        BY <1>0, <2>1, <2>2, <4>1 DEF LedgerTypes
      <4>2. CASE d # c
        <5>1. ledTask[d] = "running" \/ d \in L!Elements(ledReactions)
          BY <1>0, <2>2, <3>1, <4>2 DEF LedgerTypes
        <5>2. ledPending[KeyOf[d]] = d /\ KeyOf[d] \notin L!Elements(ledCommitted)
          BY <5>1 DEF HeldInv
        <5>3. KeyOf[d] # KeyOf[c]
          BY <2>1, <2>2, <5>2
        <5>4. KeyOf[d] \in Keys
          BY DEF L!LedgerAssumption
        <5> QED BY <1>0, <2>2, <5>2, <5>3, <5>4 DEF LedgerTypes
      <4> QED BY <4>1, <4>2
    <3>2. \A n \in 1..Len(ledReactions') : ledTask'[ledReactions'[n]] \in L!Admissions
      BY <1>0, <2>5 DEF HeldInv
    <3>3. \A d \in Submitters : ledTask'[d] # "none" => ledAnswer'[d] # "idle"
      BY <2>2 DEF HeldInv, LedgerTypes
    <3> QED BY <1>0, <3>1, <3>2, <3>3 DEF HeldInv
  <2>7. /\ \A n \in 1..Len(ledReactions) : (Due(n)' <=> Due(n)) /\ DueKey(n)' = DueKey(n)
        /\ \A k1, k2 : After(k1, k2)' <=> After(k1, k2)
        /\ \A i : Since(i)' = Since(i)
    BY <1>0, <2>5 DEF Due, DueKey, After, Since
  <2>8. OrderInv'
    BY <1>0, <2>7 DEF OrderInv
  <2>9. WindowInv' /\ L!OneTurnPerWindow'
    BY <1>0, <2>7, TurnsAsBefore DEF WindowInv
  <2> QED BY <2>3, <2>6, <2>8, <2>9
<1>2. CASE L!AdmitDuplicate(c) \/ L!AdmitJoins(c) \/ L!Answered(c)
  <2>1. UNCHANGED <<ledPending, ledTask>>
    BY <1>2 DEF L!AdmitDuplicate, L!AdmitJoins, L!Answered
  <2>2. PICK a \in {"waiting", "duplicate"} \cup L!Admissions : ledAnswer' = [ledAnswer EXCEPT ![c] = a]
    BY <1>2 DEF L!AdmitDuplicate, L!AdmitJoins, L!Answered, L!Admissions
  <2>3. a # "idle"
    BY DEF L!Admissions, L!Taken, L!NotTaken
  <2>4. LedgerTypes'
    BY <1>0, <2>1, <2>2 DEF LedgerTypes
  <2>5. HeldInv'
    <3>1. \A d \in Submitters : ledTask'[d] # "none" => ledAnswer'[d] # "idle"
      BY <2>1, <2>2, <2>3 DEF HeldInv, LedgerTypes
    <3> QED BY <1>0, <2>1, <3>1 DEF HeldInv
  <2>6. OrderInv' /\ WindowInv' /\ L!OneTurnPerWindow'
    BY <1>0, <2>1, TurnsAsBefore DEF OrderInv, WindowInv, After, Since, Due, DueKey
  <2> QED BY <2>4, <2>5, <2>6
<1> QED BY <1>1, <1>2 DEF L!Admit

\* An admission ends: what it may have made a turn of is due.
LEMMA LedgerSettles ==
  ASSUME L!LedgerAssumption, LedgerInv, NEW c \in Submitters, L!TaskSettles(c)
  PROVE  LedgerInv'
<1> USE DEF LedgerInv
<1> DEFINE k == KeyOf[c]
<1>1. PICK outcome \in L!Taken \cup L!NotTaken :
        /\ ledTask' = [ledTask EXCEPT ![c] = outcome]
        /\ ledTurns' = IF outcome \in L!Taken THEN Append(ledTurns, k) ELSE ledTurns
  BY DEF L!TaskSettles
<1>2. /\ ledTask[c] = "running" /\ ledReactions' = Append(ledReactions, c)
      /\ UNCHANGED <<ledCommitted, ledPending, ledAnswer, ledJoined>>
  BY DEF L!TaskSettles
<1>3. k \in Keys /\ ledTurns \in Seq(Keys) /\ ledReactions \in Seq(Submitters) /\ ledCommitted \in Seq(Keys)
  BY DEF L!LedgerAssumption, LedgerTypes
<1>4. /\ ledReactions' \in Seq(Submitters) /\ Len(ledReactions') = Len(ledReactions) + 1 /\ Len(ledReactions) \in Nat
      /\ \A n \in 1..Len(ledReactions) : ledReactions'[n] = ledReactions[n]
      /\ ledReactions'[Len(ledReactions) + 1] = c
  BY <1>2, <1>3
<1>5. \A n \in 1..Len(ledReactions) : ledReactions[n] \in Submitters /\ ledReactions[n] # c
  <2>1. \A n \in 1..Len(ledReactions) : ledReactions[n] \in Submitters
    BY <1>3
  <2>2. \A n \in 1..Len(ledReactions) : ledTask[ledReactions[n]] # "running"
    BY DEF HeldInv, L!Admissions, L!Taken, L!NotTaken
  <2> QED BY <1>2, <2>1, <2>2
<1>6. /\ ledTask'[c] = outcome
      /\ \A d \in Submitters : d # c => ledTask'[d] = ledTask[d]
  BY <1>1 DEF LedgerTypes
<1>7. LedgerTypes'
  <2>1. ledTask' \in [Submitters -> {"none", "running"} \cup L!Admissions]
    BY <1>1 DEF LedgerTypes, L!Admissions
  <2>2. ledTurns' \in Seq(Keys)
    BY <1>1, <1>3
  <2> QED BY <1>2, <1>4, <2>1, <2>2 DEF LedgerTypes
<1>8. \A n \in 1..Len(ledReactions') :
        \/ n \in 1..Len(ledReactions) /\ ledReactions'[n] = ledReactions[n]
        \/ n = Len(ledReactions) + 1 /\ ledReactions'[n] = c
  BY <1>4
<1>9. HeldInv'
  <2>1. \A m, n \in 1..Len(ledReactions') : ledReactions'[m] = ledReactions'[n] => m = n
    BY <1>5, <1>8 DEF HeldInv
  <2>2. \A n \in 1..Len(ledReactions') : ledTask'[ledReactions'[n]] \in L!Admissions
    BY <1>5, <1>6, <1>8 DEF HeldInv, L!Admissions
  <2>3. \A d \in Submitters : ledTask'[d] # "none" => ledAnswer'[d] # "idle"
    BY <1>2, <1>6 DEF HeldInv
  <2>4. ASSUME NEW d \in Submitters, ledTask'[d] = "running" \/ d \in L!Elements(ledReactions')
        PROVE  ledPending'[KeyOf[d]] = d /\ KeyOf[d] \notin L!Elements(ledCommitted')
    <3>1. ledTask[d] = "running" \/ d \in L!Elements(ledReactions)
      BY <1>2, <1>6, <1>8, <2>4 DEF L!Elements
    <3> QED BY <1>2, <3>1 DEF HeldInv
  <2> QED BY <1>2, <2>1, <2>2, <2>3, <2>4 DEF HeldInv
<1>0. PICK last \in Nat : last = Len(ledReactions) + 1
  BY <1>3
<1>10. /\ \A n \in 1..Len(ledReactions) : (Due(n)' <=> Due(n)) /\ DueKey(n)' = DueKey(n)
       /\ Due(last)' <=> outcome \in L!Taken
       /\ DueKey(last)' = k
  BY <1>0, <1>4, <1>5, <1>6 DEF Due, DueKey
<1>11. \A a \in 1..Len(ledCommitted) : ledCommitted[a] \in Keys /\ ledCommitted[a] # k
  BY <1>2, <1>3 DEF HeldInv, L!Elements
<1>12. \A n \in 1..Len(ledReactions) : DueKey(n) \in Keys /\ DueKey(n) # k
  <2> SUFFICES ASSUME NEW n \in 1..Len(ledReactions) PROVE DueKey(n) \in Keys /\ DueKey(n) # k
    OBVIOUS
  <2>1. ledReactions[n] \in L!Elements(ledReactions) /\ ledReactions[n] \in Submitters
    BY <1>5 DEF L!Elements
  <2>2. ledPending[DueKey(n)] = ledReactions[n] /\ ledPending[k] = c
    BY <1>2, <2>1 DEF HeldInv, DueKey
  <2> QED BY <1>5, <2>1, <2>2 DEF DueKey, L!LedgerAssumption
<1> HIDE DEF k
<1>13. CASE outcome \notin L!Taken
  <2>1. ledTurns' = ledTurns
    BY <1>1, <1>13
  <2>2. /\ \A k1, k2 : After(k1, k2)' <=> After(k1, k2)
        /\ \A i : Since(i)' = Since(i)
    BY <2>1 DEF After, Since
  <2>3. \A n \in 1..Len(ledReactions') : Due(n)' => n \in 1..Len(ledReactions) /\ Due(n) /\ DueKey(n)' = DueKey(n)
    BY <1>0, <1>8, <1>10, <1>13
  <2>4. OrderInv'
    BY <1>2, <2>2, <2>3 DEF OrderInv
  <2>5. WindowInv'
    BY <1>2, <1>4, <1>10, <2>1, <2>2 DEF WindowInv
  <2>6. L!OneTurnPerWindow'
    BY <2>1, TurnsAsBefore
  <2> QED BY <1>7, <1>9, <2>4, <2>5, <2>6
<1>14. CASE outcome \in L!Taken
  <2>1. ledTurns' = Append(ledTurns, k)
    BY <1>1, <1>14
  <2>2. /\ \A k1 \in Keys : k1 # k => After(k1, k)'
        /\ \A k1, k2 \in Keys : k1 # k /\ After(k1, k2) => After(k1, k2)'
    BY <1>3, <2>1, AfterGrows DEF After
  <2>3. /\ ledTurns' \in Seq(Keys) /\ Len(ledTurns') = Len(ledTurns) + 1 /\ Len(ledTurns) \in Nat
        /\ \A i \in 1..Len(ledTurns) : ledTurns'[i] = ledTurns[i]
        /\ ledTurns'[Len(ledTurns) + 1] = k
    BY <1>3, <2>1, TurnMore
  <2>4. OrderInv'
    <3>1. \A a, b \in 1..Len(ledCommitted') : a < b => After(ledCommitted[a], ledCommitted[b])'
      BY <1>2, <1>11, <2>2 DEF OrderInv
    <3>2. \A a \in 1..Len(ledCommitted'), n \in 1..Len(ledReactions') :
            Due(n)' => After(ledCommitted[a], DueKey(n))'
      <4> SUFFICES ASSUME NEW a \in 1..Len(ledCommitted'), NEW n \in 1..Len(ledReactions'), Due(n)'
                   PROVE  After(ledCommitted[a], DueKey(n))'
        OBVIOUS
      <4>1. CASE n \in 1..Len(ledReactions)
        <5>1. After(ledCommitted[a], DueKey(n))
          BY <1>2, <1>10, <4>1 DEF OrderInv
        <5> QED BY <1>2, <1>10, <1>11, <1>12, <2>2, <4>1, <5>1
      <4>2. CASE n = last
        BY <1>2, <1>10, <1>11, <2>2, <4>2
      <4> QED BY <1>0, <1>8, <4>1, <4>2
    <3>3. \A m, n \in 1..Len(ledReactions') : m < n /\ Due(m)' /\ Due(n)' => After(DueKey(m), DueKey(n))'
      <4> SUFFICES ASSUME NEW m \in 1..Len(ledReactions'), NEW n \in 1..Len(ledReactions'), m < n, Due(m)', Due(n)'
                   PROVE  After(DueKey(m), DueKey(n))'
        OBVIOUS
      <4>0. m \in 1..Len(ledReactions)
        BY <1>4
      <4>1. CASE n \in 1..Len(ledReactions)
        <5>1. After(DueKey(m), DueKey(n))
          BY <1>10, <4>0, <4>1 DEF OrderInv
        <5> QED BY <1>10, <1>12, <2>2, <4>0, <4>1, <5>1
      <4>2. CASE n = last
        BY <1>10, <1>12, <2>2, <4>0, <4>2
      <4> QED BY <1>0, <1>8, <4>1, <4>2
    <3> QED BY <3>1, <3>2, <3>3 DEF OrderInv
  <2>5. \A i \in 1..Len(ledTurns) : Cardinality(Since(i)) >= SourceWindow => Cardinality(Since(i)') >= SourceWindow
    <3> SUFFICES ASSUME NEW i \in 1..Len(ledTurns), Cardinality(Since(i)) >= SourceWindow
                 PROVE  Cardinality(Since(i)') >= SourceWindow
      OBVIOUS
    <3>1. Cardinality(Since(i)) <= Cardinality(Since(i)')
      BY <1>3, <2>1, SinceGrows DEF Since
    <3>2. i \in 1..Len(ledTurns')
      BY <2>3
    <3>3. Cardinality(Since(i)) \in Nat /\ Cardinality(Since(i)') \in Nat
      BY <1>3, <2>3, <3>2, SinceFinite DEF Since
    <3> QED BY <3>1, <3>3 DEF L!LedgerAssumption
  <2>6. WindowInv'
    <3> SUFFICES ASSUME NEW i \in 1..Len(ledTurns')
                 PROVE  \/ ledTurns'[i] \in L!Elements(ledCommitted')
                        \/ \E n \in 1..Len(ledReactions') : Due(n)' /\ ledTurns'[i] = DueKey(n)'
                        \/ Cardinality(Since(i)') >= SourceWindow
      BY DEF WindowInv
    <3>1. CASE i = Len(ledTurns) + 1
      <4>1. last \in 1..Len(ledReactions')
        BY <1>0, <1>4
      <4> QED BY <1>10, <1>14, <2>3, <3>1, <4>1
    <3>2. CASE i \in 1..Len(ledTurns)
      <4>1. \A n \in 1..Len(ledReactions) : n \in 1..Len(ledReactions')
        BY <1>4
      <4> QED BY <1>2, <1>10, <2>3, <2>5, <3>2, <4>1 DEF WindowInv
    <3> QED BY <2>3, <3>1, <3>2
  <2>7. L!OneTurnPerWindow'
    <3> SUFFICES ASSUME NEW i \in 1..Len(ledTurns'), NEW j \in 1..Len(ledTurns'), i < j, ledTurns'[i] = ledTurns'[j]
                 PROVE  L!Cardinality({ledTurns'[n] : n \in (i + 1)..(j - 1)} \ {ledTurns'[i]}) >= SourceWindow
      BY DEF L!OneTurnPerWindow
    <3>1. i \in 1..Len(ledTurns) /\ ledTurns'[i] = ledTurns[i]
      BY <2>3
    <3>2. \A n \in (i + 1)..(j - 1) : ledTurns'[n] = ledTurns[n]
      BY <2>3, <3>1
    <3>3. {ledTurns'[n] : n \in (i + 1)..(j - 1)} \ {ledTurns'[i]}
            = {ledTurns[n] : n \in (i + 1)..(j - 1)} \ {ledTurns[i]}
      BY <3>1, <3>2
    <3>4. CASE j \in 1..Len(ledTurns)
      <4>1. ledTurns[i] = ledTurns[j]
        BY <2>3, <3>1, <3>4
      <4> QED BY <3>1, <3>3, <3>4, <4>1 DEF L!OneTurnPerWindow
    <3>5. CASE j = Len(ledTurns) + 1
      <4>1. ledTurns[i] = k
        BY <2>3, <3>1, <3>5
      <4>2. ledTurns[i] \notin L!Elements(ledCommitted)
        BY <1>11, <4>1 DEF L!Elements
      <4>3. \A n \in 1..Len(ledReactions) : ledTurns[i] # DueKey(n)
        BY <1>12, <4>1
      <4>4. Cardinality(Since(i)) >= SourceWindow
        BY <3>1, <4>2, <4>3 DEF WindowInv
      <4>5. (i + 1)..(j - 1) = (i + 1)..Len(ledTurns)
        BY <2>3, <3>5
      <4> QED BY <3>3, <4>4, <4>5, SameCardinality DEF Since, SinceIn
    <3> QED BY <2>3, <3>4, <3>5
  <2> QED BY <1>7, <1>9, <2>4, <2>6, <2>7
<1> QED BY <1>13, <1>14

\* The ledger sees the oldest end: a key that may have had a turn goes in, the oldest out.
LEMMA LedgerReleases ==
  ASSUME L!LedgerAssumption, LedgerInv, L!Release
  PROVE  LedgerInv'
<1> USE DEF LedgerInv
<1> DEFINE k == DueKey(1)
           old == Len(ledCommitted)
<1>0. /\ ledCommitted \in Seq(Keys) /\ ledReactions \in Seq(Submitters) /\ ledTurns \in Seq(Keys)
      /\ ledReactions # <<>> /\ ledReactions' = Tail(ledReactions)
      /\ UNCHANGED <<ledTask, ledAnswer, ledJoined, ledTurns>>
      /\ SourceWindow \in Nat \ {0} /\ old \in Nat /\ old <= SourceWindow
  BY DEF L!Release, LedgerTypes, L!LedgerAssumption
<1>1. /\ 1 \in 1..Len(ledReactions) /\ Len(ledReactions) \in Nat /\ Head(ledReactions) = ledReactions[1]
      /\ ledReactions' \in Seq(Submitters) /\ Len(ledReactions') = Len(ledReactions) - 1
      /\ \A n \in 1..Len(ledReactions') : n + 1 \in 1..Len(ledReactions) /\ ledReactions'[n] = ledReactions[n + 1]
  BY <1>0
<1>2. /\ \A n \in 1..Len(ledReactions) : ledReactions[n] \in Submitters /\ DueKey(n) \in Keys
      /\ k \in Keys
  BY <1>0, <1>1 DEF DueKey, L!LedgerAssumption
<1>3. /\ ledCommitted' = IF ledTask[ledReactions[1]] \in L!Taken THEN L!CommitKey(k) ELSE ledCommitted
      /\ ledPending' = L!Freed(ledReactions[1])
  BY <1>1 DEF L!Release, L!Commits, DueKey
<1>4. \A n \in 1..Len(ledReactions') : (Due(n)' <=> Due(n + 1)) /\ DueKey(n)' = DueKey(n + 1)
  BY <1>0, <1>1 DEF Due, DueKey
<1>5. \A n \in 1..Len(ledReactions') : ledReactions'[n] # ledReactions[1]
  <2>1. \A n \in 1..Len(ledReactions') : n + 1 # 1
    BY <1>1
  <2> QED BY <1>1, <2>1 DEF HeldInv
\* The admissions that go on hold their keys as before.
<1>6. ASSUME NEW d \in Submitters, ledTask'[d] = "running" \/ d \in L!Elements(ledReactions')
      PROVE  ledPending'[KeyOf[d]] = d /\ KeyOf[d] \notin L!Elements(ledCommitted) /\ KeyOf[d] # k
  <2>1. d # ledReactions[1]
    <3>1. ledReactions[1] \in Submitters /\ ledTask[ledReactions[1]] # "running"
      BY <1>1, <1>2 DEF HeldInv, L!Admissions, L!Taken, L!NotTaken
    <3> QED BY <1>0, <1>5, <1>6, <3>1 DEF L!Elements
  <2>2. ledTask[d] = "running" \/ d \in L!Elements(ledReactions)
    BY <1>0, <1>1, <1>6 DEF L!Elements
  <2>3. ledPending[KeyOf[d]] = d /\ KeyOf[d] \notin L!Elements(ledCommitted)
    BY <2>2 DEF HeldInv
  <2>4. ledReactions[1] \in L!Elements(ledReactions)
    BY <1>1 DEF L!Elements
  <2>5. ledPending[k] = ledReactions[1]
    BY <1>2, <1>1, <2>4 DEF HeldInv, DueKey
  <2>6. KeyOf[d] # k
    BY <2>1, <2>3, <2>5
  <2>7. KeyOf[d] \in Keys
    BY DEF L!LedgerAssumption
  <2>8. ledPending'[KeyOf[d]] = ledPending[KeyOf[d]]
    BY <1>2, <1>3, <2>6, <2>7 DEF L!Freed, LedgerTypes, DueKey
  <2> QED BY <2>3, <2>6, <2>8
<1>7. ledPending' \in [Keys -> Submitters \cup {L!None}]
  BY <1>2, <1>3 DEF L!Freed, LedgerTypes, DueKey
<1>8. k \notin L!Elements(ledCommitted)
  <2>1. ledReactions[1] \in L!Elements(ledReactions) /\ ledReactions[1] \in Submitters
    BY <1>1, <1>2 DEF L!Elements
  <2> QED BY <2>1 DEF HeldInv, DueKey
<1>9. /\ \A k1, k2 : After(k1, k2)' <=> After(k1, k2)
      /\ \A i : Since(i)' = Since(i)
      /\ L!OneTurnPerWindow'
  <2>1. ledTurns' = ledTurns
    BY <1>0
  <2>2. L!OneTurnPerWindow'
    BY <2>1, TurnsAsBefore
  <2> QED BY <2>1, <2>2 DEF After, Since
<1>10. /\ \A n \in 1..Len(ledReactions') : ledTask'[ledReactions'[n]] \in L!Admissions
       /\ \A m, n \in 1..Len(ledReactions') : ledReactions'[m] = ledReactions'[n] => m = n
       /\ \A d \in Submitters : ledTask'[d] # "none" => ledAnswer'[d] # "idle"
  <2>1. \A n \in 1..Len(ledReactions') : ledTask'[ledReactions'[n]] \in L!Admissions
    BY <1>0, <1>1 DEF HeldInv
  <2>2. \A m, n \in 1..Len(ledReactions') : ledReactions'[m] = ledReactions'[n] => m = n
    <3> SUFFICES ASSUME NEW m \in 1..Len(ledReactions'), NEW n \in 1..Len(ledReactions'),
                        ledReactions'[m] = ledReactions'[n]
                 PROVE  m = n
      OBVIOUS
    <3>1. m + 1 = n + 1
      BY <1>1 DEF HeldInv
    <3> QED BY <3>1
  <2> QED BY <1>0, <2>1, <2>2 DEF HeldInv
<1>11. \A m, n \in 1..Len(ledReactions') : m < n /\ Due(m)' /\ Due(n)' => After(DueKey(m), DueKey(n))'
  <2> SUFFICES ASSUME NEW m \in 1..Len(ledReactions'), NEW n \in 1..Len(ledReactions'), m < n, Due(m)', Due(n)'
               PROVE  After(DueKey(m), DueKey(n))'
    OBVIOUS
  <2>1. m + 1 \in 1..Len(ledReactions) /\ n + 1 \in 1..Len(ledReactions) /\ m + 1 < n + 1
    BY <1>1
  <2>2. After(DueKey(m + 1), DueKey(n + 1))
    BY <1>4, <2>1 DEF OrderInv
  <2> QED BY <1>4, <1>9, <2>2
<1> HIDE DEF k, old
<1>12. CASE ~Due(1)
  <2>1. ledCommitted' = ledCommitted
    BY <1>3, <1>12 DEF Due
  <2>2. LedgerTypes'
    BY <1>0, <1>1, <1>7, <2>1 DEF LedgerTypes
  <2>3. HeldInv'
    BY <1>6, <1>10, <2>1 DEF HeldInv
  <2>4. OrderInv'
    <3>1. \A a \in 1..Len(ledCommitted'), n \in 1..Len(ledReactions') :
            Due(n)' => After(ledCommitted[a], DueKey(n))'
      BY <1>1, <1>4, <1>9, <2>1 DEF OrderInv
    <3>2. \A a, b \in 1..Len(ledCommitted') : a < b => After(ledCommitted[a], ledCommitted[b])'
      BY <1>9, <2>1 DEF OrderInv
    <3> QED BY <1>11, <3>1, <3>2 DEF OrderInv
  <2>5. WindowInv'
    <3>1. ASSUME NEW n \in 1..Len(ledReactions), Due(n)
          PROVE  n - 1 \in 1..Len(ledReactions') /\ Due(n - 1)' /\ DueKey(n - 1)' = DueKey(n)
      <4>1. n # 1
        BY <1>12, <3>1
      <4>2. n - 1 \in 1..Len(ledReactions') /\ (n - 1) + 1 = n
        BY <1>1, <4>1
      <4> QED BY <1>4, <3>1, <4>2
    <3> QED BY <1>0, <1>9, <2>1, <3>1 DEF WindowInv
  <2> QED BY <1>9, <2>2, <2>3, <2>4, <2>5
<1>13. CASE Due(1)
  <2> DEFINE all == Append(ledCommitted, k)
  <2>1. /\ all \in Seq(Keys) /\ Len(all) = old + 1
        /\ \A a \in 1..old : all[a] = ledCommitted[a]
        /\ all[old + 1] = k
    BY <1>0, <1>2, TurnMore DEF old
  <2>2. ledCommitted' = IF Len(all) > SourceWindow THEN Tail(all) ELSE all
    BY <1>3, <1>8, <1>13 DEF Due, L!CommitKey
  <2> HIDE DEF all
  <2>3. PICK gone \in {0, 1} :
          /\ ledCommitted' \in Seq(Keys) /\ Len(ledCommitted') = old + 1 - gone /\ Len(ledCommitted') <= SourceWindow
          /\ \A a \in 1..Len(ledCommitted') : a + gone \in 1..(old + 1) /\ ledCommitted'[a] = all[a + gone]
          /\ gone = 1 => Len(ledCommitted') = SourceWindow
    <3>1. CASE Len(all) > SourceWindow
      <4>1. ledCommitted' = Tail(all) /\ all # <<>>
        BY <1>0, <2>1, <2>2, <3>1
      <4>2. /\ ledCommitted' \in Seq(Keys) /\ Len(ledCommitted') = Len(all) - 1
            /\ \A a \in 1..Len(ledCommitted') : ledCommitted'[a] = all[a + 1]
        BY <2>1, <4>1
      <4>3. Len(ledCommitted') = old + 1 - 1 /\ Len(ledCommitted') = SourceWindow
        BY <1>0, <2>1, <3>1, <4>2
      <4>4. \A a \in 1..Len(ledCommitted') : a + 1 \in 1..(old + 1)
        BY <1>0, <4>3
      <4> QED BY <1>0, <4>2, <4>3, <4>4
    <3>2. CASE ~(Len(all) > SourceWindow)
      BY <1>0, <2>1, <2>2, <3>2
    <3> QED BY <3>1, <3>2
  <2>4. \A a \in 1..(old + 1) : a \in 1..old \/ a = old + 1
    BY <1>0
  <2>5. \A a, b \in 1..(old + 1) : all[a] = all[b] => a = b
    <3>1. \A a \in 1..old : all[a] # k
      BY <1>8, <2>1 DEF L!Elements, old
    <3>2. \A a, b \in 1..old : all[a] = all[b] => a = b
      BY <2>1 DEF HeldInv, old
    <3> QED BY <2>1, <2>4, <3>1, <3>2
  <2>6. \A a, b \in 1..(old + 1) : a < b => After(all[a], all[b])
    <3> SUFFICES ASSUME NEW a \in 1..(old + 1), NEW b \in 1..(old + 1), a < b
                 PROVE  After(all[a], all[b])
      OBVIOUS
    <3>0. a \in 1..old
      BY <1>0
    <3>1. CASE b \in 1..old
      BY <2>1, <3>0, <3>1 DEF OrderInv, old
    <3>2. CASE b = old + 1
      <4>1. After(ledCommitted[a], k)
        BY <1>1, <1>13, <3>0 DEF OrderInv, old, k
      <4> QED BY <2>1, <3>0, <3>2, <4>1
    <3> QED BY <2>4, <3>1, <3>2
  <2>7. \A a \in 1..(old + 1), n \in 1..Len(ledReactions') : Due(n + 1) => After(all[a], DueKey(n + 1))
    <3> SUFFICES ASSUME NEW a \in 1..(old + 1), NEW n \in 1..Len(ledReactions'), Due(n + 1)
                 PROVE  After(all[a], DueKey(n + 1))
      OBVIOUS
    <3>0. n + 1 \in 1..Len(ledReactions) /\ 1 < n + 1
      BY <1>1
    <3>1. CASE a \in 1..old
      BY <2>1, <3>0, <3>1 DEF OrderInv, old
    <3>2. CASE a = old + 1
      <4>1. After(DueKey(1), DueKey(n + 1))
        BY <1>1, <1>13, <3>0 DEF OrderInv
      <4> QED BY <2>1, <3>2, <4>1 DEF k
    <3> QED BY <2>4, <3>1, <3>2
  <2>8. LedgerTypes'
    BY <1>0, <1>1, <1>7, <2>3 DEF LedgerTypes
  <2>9. HeldInv'
    <3>1. \A a, b \in 1..Len(ledCommitted') : ledCommitted'[a] = ledCommitted'[b] => a = b
      <4> SUFFICES ASSUME NEW a \in 1..Len(ledCommitted'), NEW b \in 1..Len(ledCommitted'),
                          ledCommitted'[a] = ledCommitted'[b]
                   PROVE  a = b
        OBVIOUS
      <4>1. a + gone = b + gone
        <5>1. a + gone \in 1..(old + 1) /\ b + gone \in 1..(old + 1) /\ all[a + gone] = all[b + gone]
          BY <2>3
        <5> QED BY <2>5, <5>1
      <4> QED BY <2>3, <4>1
    <3>2. \A a \in 1..Len(ledCommitted') : ledCommitted'[a] \in L!Elements(ledCommitted) \cup {k}
      BY <2>1, <2>3, <2>4 DEF L!Elements, old
    <3>3. \A d \in Submitters : ledTask'[d] = "running" \/ d \in L!Elements(ledReactions') =>
            ledPending'[KeyOf[d]] = d /\ KeyOf[d] \notin L!Elements(ledCommitted')
      BY <1>6, <3>2 DEF L!Elements
    <3> QED BY <1>10, <3>1, <3>3 DEF HeldInv
  <2>10. OrderInv'
    <3>1. \A a, b \in 1..Len(ledCommitted') : a < b => After(ledCommitted[a], ledCommitted[b])'
      <4> SUFFICES ASSUME NEW a \in 1..Len(ledCommitted'), NEW b \in 1..Len(ledCommitted'), a < b
                   PROVE  After(ledCommitted'[a], ledCommitted'[b])
        BY <1>9
      <4>1. a + gone < b + gone
        BY <2>3
      <4> QED BY <2>3, <2>6, <4>1
    <3>2. \A a \in 1..Len(ledCommitted'), n \in 1..Len(ledReactions') :
            Due(n)' => After(ledCommitted[a], DueKey(n))'
      BY <1>4, <1>9, <2>3, <2>7
    <3> QED BY <1>11, <3>1, <3>2 DEF OrderInv
  <2>11. WindowInv'
    <3> SUFFICES ASSUME NEW i \in 1..Len(ledTurns)
                 PROVE  \/ ledTurns[i] \in L!Elements(ledCommitted')
                        \/ \E n \in 1..Len(ledReactions') : Due(n)' /\ ledTurns[i] = DueKey(n)'
                        \/ Cardinality(Since(i)) >= SourceWindow
      BY <1>0, <1>9 DEF WindowInv
    <3>1. ASSUME NEW a \in 1..(old + 1), ledTurns[i] = all[a]
          PROVE  ledTurns[i] \in L!Elements(ledCommitted') \/ Cardinality(Since(i)) >= SourceWindow
      <4>1. CASE a > gone
        <5>1. a - gone \in 1..Len(ledCommitted') /\ (a - gone) + gone = a
          BY <1>0, <2>3, <4>1
        <5> QED BY <2>3, <3>1, <5>1 DEF L!Elements
      <4>2. CASE a = 1 /\ gone = 1
        <5>1. \A n \in 1..Len(ledCommitted') : n + 1 \in 1..(old + 1) /\ ledCommitted'[n] = all[n + 1] /\ 1 < n + 1
          BY <2>3, <4>2
        <5>2. \A n \in 1..Len(ledCommitted') :
                ledCommitted'[n] # ledTurns[i] /\ \E j \in (i + 1)..Len(ledTurns) : ledTurns[j] = ledCommitted'[n]
          <6> SUFFICES ASSUME NEW n \in 1..Len(ledCommitted')
                       PROVE  ledCommitted'[n] # ledTurns[i] /\ \E j \in (i + 1)..Len(ledTurns) : ledTurns[j] = ledCommitted'[n]
            OBVIOUS
          <6>1. After(all[1], all[n + 1])
            BY <2>6, <3>1, <4>2, <5>1
          <6>2. all[1] # all[n + 1]
            BY <2>5, <3>1, <4>2, <5>1
          <6> QED BY <3>1, <4>2, <5>1, <6>1, <6>2 DEF After, AfterIn
        <5>3. Cardinality(SinceIn(ledTurns, i)) >= Len(ledCommitted')
          <6>1. \A m, n \in 1..Len(ledCommitted') : ledCommitted'[m] = ledCommitted'[n] => m = n
            BY <2>9 DEF HeldInv
          <6> QED BY <1>0, <2>3, <5>2, <6>1, FullWindow
        <5> QED BY <2>3, <4>2, <5>3 DEF Since
      <4> QED BY <1>0, <2>3, <4>1, <4>2
    <3>2. CASE ledTurns[i] \in L!Elements(ledCommitted)
      <4>1. PICK a \in 1..old : ledTurns[i] = ledCommitted[a]
        BY <3>2 DEF L!Elements, old
      <4>2. a \in 1..(old + 1)
        BY <1>0
      <4> QED BY <2>1, <3>1, <4>1, <4>2
    <3>3. ASSUME NEW n \in 1..Len(ledReactions), Due(n), ledTurns[i] = DueKey(n)
          PROVE  \/ ledTurns[i] \in L!Elements(ledCommitted')
                 \/ \E m \in 1..Len(ledReactions') : Due(m)' /\ ledTurns[i] = DueKey(m)'
                 \/ Cardinality(Since(i)) >= SourceWindow
      <4>1. CASE n = 1
        <5>1. old + 1 \in 1..(old + 1)
          BY <1>0
        <5> QED BY <2>1, <3>1, <3>3, <4>1, <5>1 DEF k
      <4>2. CASE n # 1
        <5>1. n - 1 \in 1..Len(ledReactions') /\ (n - 1) + 1 = n
          BY <1>1, <4>2
        <5> QED BY <1>4, <3>3, <5>1
      <4> QED BY <4>1, <4>2
    <3> QED BY <3>2, <3>3 DEF WindowInv
  <2> QED BY <1>9, <2>8, <2>9, <2>10, <2>11
<1> QED BY <1>12, <1>13

LEMMA LedgerKept == L!LedgerAssumption /\ LedgerInv /\ [L!Next]_(L!vars) => LedgerInv'
<1> SUFFICES ASSUME L!LedgerAssumption, LedgerInv, [L!Next]_(L!vars) PROVE LedgerInv'
  OBVIOUS
<1>1. CASE UNCHANGED L!vars
  <2>1. UNCHANGED <<ledCommitted, ledPending, ledTask, ledAnswer, ledReactions, ledTurns>>
    BY <1>1 DEF L!vars
  <2>2. LedgerTypes' /\ HeldInv' /\ L!OneTurnPerWindow'
    <3>1. LedgerTypes'
      BY <2>1 DEF LedgerInv, LedgerTypes
    <3>2. HeldInv'
      BY <2>1 DEF LedgerInv, HeldInv, L!Elements
    <3>3. L!OneTurnPerWindow'
      BY <2>1, TurnsAsBefore DEF LedgerInv
    <3> QED BY <3>1, <3>2, <3>3
  <2>3. OrderInv' /\ WindowInv'
    BY <2>1 DEF LedgerInv, OrderInv, WindowInv, After, Since, Due, DueKey
  <2> QED BY <2>2, <2>3 DEF LedgerInv
<1>2. CASE L!Next
  BY <1>2, LedgerAdmits, LedgerSettles, LedgerReleases DEF L!Next
<1> QED BY <1>1, <1>2

\* A caller waits for an admission there is.
JoinedInv == ledJoined \in [Submitters -> Submitters \union {L!None}]

LEMMA JoinedKept == LedgerInv /\ JoinedInv /\ [L!Next]_(L!vars) => JoinedInv'
<1> SUFFICES ASSUME LedgerInv, JoinedInv, [L!Next]_(L!vars) PROVE JoinedInv'
  OBVIOUS
<1>1. CASE UNCHANGED ledJoined
  BY <1>1 DEF JoinedInv
<1>2. ASSUME NEW c \in Submitters, L!AdmitJoins(c) PROVE JoinedInv'
  <2>1. ledAnswer[c] = "idle" /\ ledPending[KeyOf[c]] # L!None
        /\ ledJoined' = [ledJoined EXCEPT ![c] = ledPending[KeyOf[c]]]
    BY <1>2 DEF L!AdmitJoins
  <2>2. KeyOf[c] \in Keys
    BY EdgesAssumption DEF L!LedgerAssumption
  <2>3. ledPending[KeyOf[c]] \in Submitters \union {L!None}
    BY <2>2 DEF LedgerInv, LedgerTypes
  <2> QED BY <2>1, <2>3 DEF JoinedInv
<1>3. ASSUME NEW c \in Submitters, L!AdmitRuns(c) PROVE JoinedInv'
  BY <1>3 DEF L!AdmitRuns, JoinedInv
<1> QED BY <1>1, <1>2, <1>3 DEF L!Next, L!Admit, L!AdmitDuplicate, L!TaskSettles, L!Release, L!Answered, L!vars

LEMMA LedgerTyped == LedgerInv /\ JoinedInv => L!TypeOK
<1> SUFFICES ASSUME LedgerInv, JoinedInv PROVE L!TypeOK
  OBVIOUS
<1>1. ExistsBijection(1..Len(ledCommitted), L!Elements(ledCommitted))
  <2> DEFINE f == [n \in 1..Len(ledCommitted) |-> ledCommitted[n]]
  <2>1. f \in Bijection(1..Len(ledCommitted), L!Elements(ledCommitted))
    BY DEF Bijection, Injection, IsInjective, Surjection, L!Elements, LedgerInv, HeldInv
  <2> QED BY <2>1 DEF ExistsBijection
<1>2. Len(ledCommitted) \in Nat
  BY DEF LedgerInv, LedgerTypes
<1>3. Cardinality(L!Elements(ledCommitted)) = Len(ledCommitted)
  BY <1>1, <1>2, FS_CountingElements
<1>4. L!Cardinality(L!Elements(ledCommitted)) = Len(ledCommitted)
  BY <1>3, SameCardinality
<1> QED BY <1>4 DEF L!TypeOK, LedgerInv, LedgerTypes, JoinedInv

LEMMA AlwaysLedgerInv == EdgesSpec => [](LedgerInv /\ JoinedInv)
<1>1. L!Init => LedgerInv /\ JoinedInv
  BY LedgerStarts, EdgesAssumption DEF L!Init, JoinedInv
<1>2. LedgerInv /\ JoinedInv /\ [L!Next]_(L!vars) => LedgerInv' /\ JoinedInv'
  BY LedgerKept, JoinedKept, EdgesAssumption
<1> QED BY <1>1, <1>2, LedgerAlone, PTL

----------------------------------------
(* What the Channel and Core promise together                              *)

\* A message has one recipient, a question one outcome, the repeat of a source is not a second
\* turn, and who may speak is one story: for any number of messages, questions, submissions and
\* senders, and however their steps interleave (inbound/pipeline.ts, ask-user/registry.ts,
\* agent/admission.ts, access/index.ts).
THEOREM AlwaysAnsweredOnce == EdgesSpec => []AnsweredOnce
<1>1. RoutingInv => R!OneRecipient
  BY OneRecipientHolds
<1>2. SessionInv => F!SettledOnce
  BY DEF SessionInv
<1>3. LedgerInv => L!OneTurnPerWindow
  BY DEF LedgerInv
<1>4. AccessInv /\ AccessFormInv => A!OneStoryPerSender /\ A!TypeOK
  BY OneStory, AccessTyped
<1>5. LedgerInv /\ JoinedInv => L!TypeOK
  BY LedgerTyped
<1> QED
  BY <1>1, <1>2, <1>3, <1>4, <1>5, AlwaysRoutingInv, AlwaysSessionInv, AlwaysLedgerInv,
     AlwaysAccessFormInv, PTL DEF AnsweredOnce

\* A session that has ended asks nothing, writes nothing and serves nothing, whichever of
\* initialize, start and close came first, and an extension outlives its calls
\* (session/session.ts).
THEOREM ClosedSessionIsAlwaysQuiet == EdgesSpec => []ClosedSessionIsQuiet
<1>1. SessionInv =>
        F!TypeOK /\ F!EndedSessionAsksNothing /\ F!ExtensionOutlivesItsCalls /\ F!ClosedSessionIsQuiet
  BY DEF SessionInv, SessionTypes, TeardownInv, F!ClosedSessionIsQuiet
<1>2. RoutingInv => R!EndedSessionWritesNothing
  BY DEF RoutingInv, DrainInv
<1> QED BY <1>1, <1>2, AlwaysSessionInv, AlwaysRoutingInv, PTL DEF ClosedSessionIsQuiet

\* A chat is one Team's as a whole or each of its topics has a Team of its own, a topic is given
\* one Team, and a Team opens its cards where a row is its own: for any Teams, topics, messages and
\* edits, however the commits are queued behind each other and whichever write fails
\* (routing/index.ts, routing/operations.ts, feishu-provisioning.ts).
THEOREM RoutesAlwaysHaveOneOwner == EdgesSpec => []RoutesHaveOneOwner
<1>1. RoutingInv /\ OwnerInv => RoutesHaveOneOwner
  BY OwnersMean, EdgesAssumption DEF RoutesHaveOneOwner
<1> QED BY <1>1, AlwaysOwnerInv, PTL

\* Beside the other edges of a host too, either runtime is what Core takes a runtime to be and
\* accounts for its children and its work, whoever was told that a turn of Codex took its input hears
\* its end, and the cards tell what happened (codex/src/turn-manager.ts and runtime.ts,
\* claude-code/src/runtime.ts, feishu-channel/src/cot).
THEOREM EdgesKeepTheContract ==
  EdgesSpec => RuntimesKeepTheContract /\ [](RuntimesAreAccounted /\ SubmittersHearTheEnd /\ CardsTellTheTurn)
<1> QED
  BY RuntimesAlone, RuntimesAlwaysKeepTheContract, RuntimesAreAlwaysAccounted, SubmittersAlwaysHear,
     CardsAlwaysTellTheTurn, PTL
========================================
