---------------------- MODULE TransactionalStoreProofs ----------------------
(***************************************************************************)
(* The persisted store implements the serial one: every change takes       *)
(* effect on what the one before left, in the order of asking, and is on   *)
(* disk when it is answered.  Proved for every set of operations and every *)
(* number of process deaths, where nobody loads a record that a create is  *)
(* asked for (the owners of a record see to that, see ReadMayMeet).        *)
(*                                                                         *)
(* The argument: only the head of the FIFO has been started (FifoInv); a   *)
(* read of the file is under way only while no operation can write, so     *)
(* what it found is what the file holds (ReadInv); and the running         *)
(* operation's `previous` is the file's value until it writes and its      *)
(* own change of that value afterwards (PrevInv).                          *)
(***************************************************************************)
EXTENDS TransactionalStore, TLAPS

Over == {"idle", "ok", "rejected", "lost"}
Started == {"loading", "loaded", "writing", "written", "after"}
Paths == {"queued"} \cup Started \cup Over

\* An operation under way is in the queue, once, and only the first has been started.
FifoInv ==
  /\ \A i, j \in 1..Len(queue) : queue[i] = queue[j] => i = j
  /\ \A i \in 1..Len(queue) : pc[queue[i]] \notin Over /\ (i > 1 => pc[queue[i]] = "queued")
  /\ \A o \in Ops : pc[o] \notin Over => \E i \in 1..Len(queue) : queue[i] = o

\* While the file is read nothing is cached, and the running operation is the one that
\* waits for the read, or has not been started and will load as well, as all behind it.
\* An operation that loads goes on only when the value is cached.
ReadInv ==
  /\ loading # "none" =>
       /\ ~slot.loaded
       /\ Running("loading") \/ ((\A i \in 1..Len(queue) : ~Blind(queue[i]))
                                   /\ (queue # <<>> => Running("queued")))
  /\ Running("loading") => loading # "none" /\ ~Blind(Head(queue))
  /\ loading = "read" => seen = disk
  /\ ~slot.loaded /\ queue # <<>> =>
       Running("queued") \/ Running("loading") \/ Blind(Head(queue))

\* What the running operation was given is what the file holds, until its change is there.
PrevInv ==
  /\ Running("loaded") => prev = disk /\ ~Blind(Head(queue))
  /\ Running("writing") => Kind # "noop" /\ (Blind(Head(queue)) \/ prev = disk)
  /\ Running("written") => Kind # "noop" /\ disk = Changed(prev)

\* Where the running operation stands.
First == IF queue = <<>> THEN "nobody" ELSE pc[Head(queue)]

\* The invariant without the types that follow from it.
BasicTypes ==
  /\ disk \in Value /\ seen \in Value /\ prev \in Value
  /\ slot \in [loaded : BOOLEAN, value : Value]
  /\ loading \in {"none", "reading", "read"}
  /\ queue \in Seq(Ops)
  /\ pc \in [Ops -> Paths]
  /\ crashes \in Nat

----------------------------------------
(* The FIFO                                                                *)

\* A queue that is not empty has a first operation, and those behind it move up.
LEMMA QueueFacts ==
  ASSUME NEW S, NEW q \in Seq(S), q # <<>>
  PROVE  /\ Head(q) \in S /\ Head(q) = q[1] /\ 1 \in 1..Len(q)
         /\ Tail(q) \in Seq(S) /\ Len(Tail(q)) = Len(q) - 1
         /\ \A i \in 1..Len(Tail(q)) : i + 1 \in 1..Len(q) /\ i + 1 > 1 /\ Tail(q)[i] = q[i + 1]
         /\ \A i \in 1..Len(q) : i # 1 => i - 1 \in 1..Len(Tail(q)) /\ Tail(q)[i - 1] = q[i]
<1>1. Len(q) \in Nat /\ Len(q) > 0
  OBVIOUS
<1>2. Tail(q) \in Seq(S) /\ Len(Tail(q)) = Len(q) - 1
  OBVIOUS
<1>3. \A i \in 1..Len(q) - 1 : Tail(q)[i] = q[i + 1]
  OBVIOUS
<1>4. Head(q) = q[1] /\ q[1] \in S
  BY <1>1
<1> QED BY <1>1, <1>2, <1>3, <1>4

\* An operation that asks is the last of the queue.
LEMMA AppendFacts ==
  ASSUME NEW S, NEW q \in Seq(S), NEW o \in S
  PROVE  /\ Append(q, o) \in Seq(S) /\ Len(Append(q, o)) = Len(q) + 1 /\ Append(q, o) # <<>>
         /\ \A i \in 1..Len(q) : Append(q, o)[i] = q[i]
         /\ Append(q, o)[Len(q) + 1] = o
         /\ Head(Append(q, o)) = IF q = <<>> THEN o ELSE Head(q)
<1>1. /\ Append(q, o) \in Seq(S) /\ Len(Append(q, o)) = Len(q) + 1
      /\ \A i \in 1..Len(q) : Append(q, o)[i] = q[i]
      /\ Append(q, o)[Len(q) + 1] = o
  OBVIOUS
<1>2. Append(q, o) # <<>> /\ Head(Append(q, o)) = Append(q, o)[1]
  BY <1>1
<1>3. CASE q = <<>>
  <2>1. Len(q) = 0
    BY <1>3
  <2> QED BY <1>1, <1>2, <1>3, <2>1
<1>4. CASE q # <<>>
  <2>1. 1 \in 1..Len(q) /\ Head(q) = q[1]
    BY <1>4
  <2> QED BY <1>1, <1>2, <1>4, <2>1
<1> QED BY <1>3, <1>4

\* The operations of the queue are those under way.
LEMMA QueuedAsUnderWay ==
  ASSUME BasicTypes, FifoInv
  PROVE  Queued = {o \in Ops : pc[o] \notin {"idle", "ok", "rejected", "lost"}}
<1>1. \A i \in 1..Len(queue) : queue[i] \in Ops
  BY DEF BasicTypes
<1> QED BY <1>1 DEF FifoInv, Queued, Over

\* The types of the state are those of TypeOK.
LEMMA TypesTogether ==
  ASSUME BasicTypes, FifoInv
  PROVE  TypeOK
  BY QueuedAsUnderWay DEF BasicTypes, TypeOK, Paths, Started, Over

\* The running operation takes a step: the queue is as it was.
LEMMA GotoFifo ==
  ASSUME BasicTypes, FifoInv, queue # <<>>, First \notin Over,
         NEW at \in Started, Goto(at), queue' = queue
  PROVE  FifoInv' /\ First' = at /\ pc' \in [Ops -> Paths] /\ Head(queue') = Head(queue)
<1> USE DEF BasicTypes
<1>1. Head(queue) \in Ops /\ Head(queue) = queue[1] /\ 1 \in 1..Len(queue)
  BY QueueFacts
<1>2. pc' \in [Ops -> Paths] /\ pc'[Head(queue)] = at
  BY <1>1 DEF Goto, Paths, Started
<1>3. \A o \in Ops : o # Head(queue) => pc'[o] = pc[o]
  BY <1>1 DEF Goto
<1>4. at \notin Over
  BY DEF Started, Over
<1>5. \A i \in 1..Len(queue) : queue[i] \in Ops
  OBVIOUS
<1>6. \A i \in 1..Len(queue) : i # 1 => queue[i] # Head(queue)
  BY <1>1 DEF FifoInv
<1>7. \A i \in 1..Len(queue) : pc'[queue[i]] \notin Over /\ (i > 1 => pc'[queue[i]] = "queued")
  <2> TAKE i \in 1..Len(queue)
  <2>1. CASE i = 1
    BY <2>1, <1>1, <1>2, <1>4
  <2>2. CASE i # 1
    BY <2>2, <1>3, <1>5, <1>6 DEF FifoInv
  <2> QED BY <2>1, <2>2
<1>8. \A o \in Ops : pc'[o] \notin Over => \E i \in 1..Len(queue) : queue[i] = o
  <2> SUFFICES ASSUME NEW o \in Ops, pc'[o] \notin Over
               PROVE  \E i \in 1..Len(queue) : queue[i] = o
    OBVIOUS
  <2>1. CASE o = Head(queue)
    BY <2>1, <1>1
  <2>2. CASE o # Head(queue)
    BY <2>2, <1>3 DEF FifoInv
  <2> QED BY <2>1, <2>2
<1>9. FifoInv'
  BY <1>7, <1>8 DEF FifoInv
<1>10. First' = at
  BY <1>2 DEF First
<1> QED BY <1>2, <1>9, <1>10

\* The running operation settles: the next one, if there is one, has not been started.
LEMMA SettleFifo ==
  ASSUME BasicTypes, FifoInv, queue # <<>>, NEW answer \in {"ok", "rejected"}, Settle(answer)
  PROVE  /\ FifoInv' /\ First' \in {"nobody", "queued"} /\ pc' \in [Ops -> Paths] /\ queue' \in Seq(Ops)
         /\ \A i \in 1..Len(queue') : \E j \in 1..Len(queue) : queue'[i] = queue[j]
<1> USE DEF BasicTypes
<1>1. /\ Head(queue) \in Ops /\ Head(queue) = queue[1] /\ 1 \in 1..Len(queue)
      /\ queue' = Tail(queue) /\ queue' \in Seq(Ops)
      /\ \A i \in 1..Len(queue') : i + 1 \in 1..Len(queue) /\ i + 1 > 1 /\ queue'[i] = queue[i + 1]
      /\ \A i \in 1..Len(queue) : i # 1 => i - 1 \in 1..Len(queue') /\ queue'[i - 1] = queue[i]
  BY QueueFacts DEF Settle
<1>2. pc' \in [Ops -> Paths] /\ pc'[Head(queue)] = answer
  BY <1>1 DEF Settle, Goto, Paths, Over
<1>3. \A o \in Ops : o # Head(queue) => pc'[o] = pc[o]
  BY <1>1 DEF Settle, Goto
<1>4. \A i \in 1..Len(queue') : queue'[i] \in Ops /\ queue'[i] # Head(queue)
  <2> TAKE i \in 1..Len(queue')
  <2>1. i + 1 \in 1..Len(queue) /\ i + 1 > 1 /\ queue'[i] = queue[i + 1]
    BY <1>1
  <2>2. queue[i + 1] \in Ops
    BY <2>1
  <2>3. i + 1 # 1
    BY <2>1
  <2> QED BY <2>1, <2>2, <2>3, <1>1 DEF FifoInv
<1>5. \A i \in 1..Len(queue') : pc'[queue'[i]] = "queued"
  BY <1>1, <1>3, <1>4 DEF FifoInv
<1>6. \A i, j \in 1..Len(queue') : queue'[i] = queue'[j] => i = j
  <2> SUFFICES ASSUME NEW i \in 1..Len(queue'), NEW j \in 1..Len(queue'), queue'[i] = queue'[j]
               PROVE  i = j
    OBVIOUS
  <2>1. i + 1 = j + 1
    BY <1>1 DEF FifoInv
  <2> QED BY <2>1
<1>7. \A o \in Ops : pc'[o] \notin Over => \E i \in 1..Len(queue') : queue'[i] = o
  <2> SUFFICES ASSUME NEW o \in Ops, pc'[o] \notin Over
               PROVE  \E i \in 1..Len(queue') : queue'[i] = o
    OBVIOUS
  <2>1. o # Head(queue)
    BY <1>2 DEF Over
  <2>2. PICK j \in 1..Len(queue) : queue[j] = o
    BY <2>1, <1>3 DEF FifoInv
  <2>3. j # 1
    BY <2>1, <2>2, <1>1
  <2> QED BY <2>2, <2>3, <1>1
<1>8. FifoInv'
  BY <1>5, <1>6, <1>7 DEF FifoInv, Over
<1>9. First' \in {"nobody", "queued"}
  <2>1. CASE queue' = <<>>
    BY <2>1 DEF First
  <2>2. CASE queue' # <<>>
    <3>1. 1 \in 1..Len(queue') /\ Head(queue') = queue'[1]
      BY <2>2, <1>1, QueueFacts
    <3> QED BY <3>1, <2>2, <1>5 DEF First
  <2> QED BY <2>1, <2>2
<1>10. \A i \in 1..Len(queue') : \E j \in 1..Len(queue) : queue'[i] = queue[j]
  BY <1>1
<1> QED BY <1>1, <1>2, <1>8, <1>9, <1>10

----------------------------------------
(* The steps                                                               *)

\* The invariant, its types apart.
Inv == BasicTypes /\ FifoInv /\ ReadInv /\ PrevInv /\ ReaderSeesDisk

\* An operation runs at a step exactly when the first of the queue stands there, in both states.
LEMMA RunningMoves ==
  ASSUME NEW at \in Paths
  PROVE  (Running(at) <=> First = at) /\ (Running(at)' <=> First' = at)
  BY DEF Running, First, Paths, Started, Over

\* The steps an operation can stand at.
LEMMA PathFacts ==
  /\ \A at \in Over : at \in Paths /\ at \notin Started /\ at # "queued"
  /\ \A at \in Started : at \in Paths /\ at \notin Over /\ at # "queued"
  /\ "queued" \in Paths /\ "nobody" \notin Paths
  /\ Started = {"loading", "loaded", "writing", "written", "after"}
  BY DEF Paths, Started, Over

\* A change of a value is a value.
LEMMA ChangedIsValue ==
  ASSUME StoreAssumption, BasicTypes, queue # <<>>, NEW v \in Value
  PROVE  Changed(v) \in Value
<1>1. Head(queue) \in Ops
  BY QueueFacts DEF BasicTypes
<1>2. Kind \in {"update", "noop", "create", "replace", "remove"}
  BY <1>1 DEF StoreAssumption, Kind
<1>3. Append(v.log, Head(queue)) \in Seq(Ops) /\ <<Head(queue)>> \in Seq(Ops) /\ <<>> \in Seq(Ops)
  <2>1. v.log \in Seq(Ops)
    BY DEF Value
  <2> QED BY <2>1, <1>1
<1>4. CASE Kind = "update"
  BY <1>3, <1>4 DEF Changed, Value
<1>5. CASE Kind \in {"create", "replace"}
  BY <1>3, <1>5 DEF Changed, Value
<1>6. CASE Kind = "remove"
  BY <1>3, <1>6 DEF Changed, Value, Absent
<1>7. CASE Kind = "noop"
  BY <1>7 DEF Changed
<1> QED BY <1>2, <1>4, <1>5, <1>6, <1>7

\* Nobody has asked for anything.
LEMMA StartsRight ==
  ASSUME StoreAssumption, Init
  PROVE  Inv
<1>1. <<>> \in Seq(Ops)
  OBVIOUS
<1>2. 1..Len(queue) = {} /\ queue = <<>>
  BY DEF Init
<1>3. BasicTypes
  <2>1. \A b \in BOOLEAN : [there |-> b, log |-> <<>>] \in Value
    BY <1>1 DEF Value
  <2>2. disk \in Value /\ Absent \in Value
    BY <2>1 DEF Init, Absent
  <2>3. slot \in [loaded : BOOLEAN, value : Value]
    BY <2>2 DEF Init, Unloaded
  <2>4. pc \in [Ops -> Paths]
    BY DEF Init, Paths, Over
  <2> QED BY <1>1, <2>2, <2>3, <2>4 DEF Init, BasicTypes
<1>4. FifoInv
  BY <1>2 DEF Init, FifoInv, Over
<1> QED BY <1>2, <1>3, <1>4 DEF Init, Inv, ReadInv, PrevInv, ReaderSeesDisk, Running, Unloaded

\* A step that starts a read.
LEMMA LoadKeeps ==
  ASSUME StoreAssumption, ~EagerReaders, Inv, Load
  PROVE  Inv'
<1> USE DEF Inv
<1>1. UNCHANGED <<disk, slot, seen, queue, pc, prev, crashes>> /\ loading = "none" /\ loading' = "reading"
  BY DEF Load
<1>2. BasicTypes' /\ FifoInv' /\ PrevInv' /\ ReaderSeesDisk'
  BY <1>1 DEF BasicTypes, FifoInv, PrevInv, ReaderSeesDisk, Running, Kind, Changed
<1>3. \A i \in 1..Len(queue) : ~Blind(queue[i])
  BY DEF Load, ReadMayMeet, Queued
<1>4. queue # <<>> => Running("queued")
  <2> SUFFICES ASSUME queue # <<>> PROVE Running("queued")
    OBVIOUS
  <2>1. ~Blind(Head(queue))
    BY <1>3, QueueFacts DEF BasicTypes
  <2> QED BY <2>1, <1>1 DEF ReadInv, Load
<1>5. ReadInv'
  BY <1>1, <1>3, <1>4 DEF ReadInv, Running, Blind, Load
<1> QED BY <1>2, <1>5

\* The file answers.
LEMMA FileReadKeeps ==
  ASSUME Inv, FileRead
  PROVE  Inv'
<1> USE DEF Inv
<1>1. /\ UNCHANGED <<disk, slot, queue, pc, prev, crashes>>
      /\ loading = "reading" /\ loading' = "read" /\ seen' = disk
  BY DEF FileRead
<1>2. BasicTypes' /\ FifoInv' /\ PrevInv' /\ ReaderSeesDisk'
  BY <1>1 DEF BasicTypes, FifoInv, PrevInv, ReaderSeesDisk, Running, Kind, Changed
<1>3. ReadInv'
  BY <1>1 DEF ReadInv, Running, Blind
<1> QED BY <1>2, <1>3

\* The read's answer is cached, and the operation that waits for it goes on with it.
LEMMA LoadedKeeps ==
  ASSUME Inv, Loaded
  PROVE  Inv'
<1> USE DEF Inv
<1>1. /\ UNCHANGED <<disk, seen, queue, crashes>>
      /\ loading = "read" /\ loading' = "none" /\ seen = disk
      /\ slot' = [loaded |-> TRUE, value |-> seen] /\ slot'.loaded /\ slot'.value = disk
  BY DEF Loaded, ReadInv
<1>2. slot' \in [loaded : BOOLEAN, value : Value]
  BY <1>1 DEF BasicTypes
<1>3. CASE First = "loading"
  <2>1. Running("loading") /\ queue # <<>> /\ ~Blind(Head(queue))
    BY <1>3, RunningMoves, PathFacts DEF Running, ReadInv
  <2>2. Goto("loaded") /\ prev' = disk
    BY <1>1, <2>1 DEF Loaded
  <2>3. FifoInv' /\ First' = "loaded" /\ pc' \in [Ops -> Paths] /\ Head(queue') = Head(queue)
    BY <1>1, <1>3, <2>1, <2>2, PathFacts, GotoFifo
  <2>4. Running("loaded")' /\ \A at \in Paths : at # "loaded" => ~Running(at)'
    BY <2>3, RunningMoves, PathFacts
  <2>5. BasicTypes'
    BY <1>1, <1>2, <2>2, <2>3 DEF BasicTypes
  <2>6. ReadInv' /\ PrevInv' /\ ReaderSeesDisk'
    BY <1>1, <2>1, <2>2, <2>4, PathFacts DEF ReadInv, PrevInv, ReaderSeesDisk, Blind
  <2> QED BY <2>3, <2>5, <2>6
<1>4. CASE First # "loading"
  <2>1. ~Running("loading")
    BY <1>4, RunningMoves, PathFacts
  <2>2. UNCHANGED <<pc, prev>>
    BY <2>1 DEF Loaded
  <2>3. BasicTypes' /\ FifoInv' /\ PrevInv'
    BY <1>1, <1>2, <2>2 DEF BasicTypes, FifoInv, PrevInv, Running, Kind, Changed
  <2>4. ReadInv' /\ ReaderSeesDisk'
    BY <1>1, <2>1, <2>2 DEF ReadInv, ReaderSeesDisk, Running
  <2> QED BY <2>3, <2>4
<1> QED BY <1>3, <1>4

\* An operation that settles leaves the file, the value in memory and the read alone.
LEMMA SettleKeeps ==
  ASSUME Inv, First \in Started, NEW answer \in {"ok", "rejected"}, Settle(answer),
         UNCHANGED <<disk, slot, seen, prev, crashes>>,
         IF First = "loading" THEN loading' = "none" ELSE loading' = loading,
         First # "written"
  PROVE  Inv'
<1> USE DEF Inv
<1>1. queue # <<>> /\ First \in Paths /\ (Running("queued") => FALSE)
  BY RunningMoves, PathFacts DEF First
<1>2. /\ FifoInv' /\ First' \in {"nobody", "queued"} /\ pc' \in [Ops -> Paths] /\ queue' \in Seq(Ops)
      /\ \A i \in 1..Len(queue') : \E j \in 1..Len(queue) : queue'[i] = queue[j]
  BY <1>1, SettleFifo
<1>3. \A at \in Paths : at # "queued" => ~Running(at)'
  BY <1>2, RunningMoves, PathFacts
<1>4. queue' # <<>> => Running("queued")'
  BY <1>2, RunningMoves, PathFacts DEF First
<1>5. loading' = "none"
  BY <1>1, RunningMoves, PathFacts DEF ReadInv
<1>6. BasicTypes'
  BY <1>2, <1>5 DEF BasicTypes
<1>7. ReadInv' /\ PrevInv'
  BY <1>3, <1>4, <1>5, PathFacts DEF ReadInv, PrevInv
<1>8. ~Running("written")
  BY RunningMoves, PathFacts
<1>9. ReaderSeesDisk'
  BY <1>8 DEF ReaderSeesDisk
<1> QED BY <1>2, <1>6, <1>7, <1>9

\* The read failed: the operation that waits for it fails with it.
LEMMA LoadFailsKeeps ==
  ASSUME Inv, LoadFails
  PROVE  Inv'
<1> USE DEF Inv
<1>1. UNCHANGED <<disk, slot, seen, prev, crashes>> /\ loading' = "none" /\ loading = "read"
  BY DEF LoadFails
<1>2. CASE First = "loading"
  <2>1. Settle("rejected")
    BY <1>2, RunningMoves, PathFacts DEF LoadFails
  <2> QED BY <1>1, <1>2, <2>1, PathFacts, SettleKeeps
<1>3. CASE First # "loading"
  <2>1. ~Running("loading")
    BY <1>3, RunningMoves, PathFacts
  <2>2. UNCHANGED <<pc, queue>>
    BY <2>1 DEF LoadFails
  <2>3. BasicTypes' /\ FifoInv' /\ PrevInv' /\ ReaderSeesDisk'
    BY <1>1, <2>2 DEF BasicTypes, FifoInv, PrevInv, ReaderSeesDisk, Running, Kind, Changed
  <2>4. ReadInv'
    BY <1>1, <2>1, <2>2 DEF ReadInv, Running, Blind
  <2> QED BY <2>3, <2>4
<1> QED BY <1>2, <1>3

\* An operation asks: it is the last of the queue, and does not write without reading
\* while somebody reads.
LEMMA AskKeeps ==
  ASSUME ~EagerReaders, Inv, NEW o \in Ops, Ask(o)
  PROVE  Inv'
<1> USE DEF Inv
<1>1. /\ UNCHANGED <<disk, slot, loading, seen, prev, crashes>> /\ pc[o] = "idle"
      /\ pc' = [pc EXCEPT ![o] = "queued"] /\ queue' = Append(queue, o)
  BY DEF Ask
<1>2. /\ queue \in Seq(Ops) /\ Len(queue) \in Nat /\ pc \in [Ops -> Paths]
      /\ \A i \in 1..Len(queue) : queue[i] \in Ops
  BY DEF BasicTypes
<1>3. /\ queue' \in Seq(Ops) /\ Len(queue') = Len(queue) + 1 /\ queue' # <<>>
      /\ \A i \in 1..Len(queue) : queue'[i] = queue[i]
      /\ queue'[Len(queue) + 1] = o
      /\ Head(queue') = IF queue = <<>> THEN o ELSE Head(queue)
  BY <1>1, <1>2, AppendFacts
<1>4. pc' \in [Ops -> Paths] /\ pc'[o] = "queued" /\ \A p \in Ops : p # o => pc'[p] = pc[p]
  BY <1>1, <1>2, PathFacts
<1>5. \A i \in 1..Len(queue) : queue[i] # o
  BY <1>1 DEF FifoInv, Over
<1>6. \A i \in 1..Len(queue') : i \in 1..Len(queue) \/ i = Len(queue) + 1
  BY <1>2, <1>3
<1>7. FifoInv'
  <2>1. \A i, j \in 1..Len(queue') : queue'[i] = queue'[j] => i = j
    BY <1>3, <1>5, <1>6 DEF FifoInv
  <2>2. \A i \in 1..Len(queue') : pc'[queue'[i]] \notin Over /\ (i > 1 => pc'[queue'[i]] = "queued")
    <3> TAKE i \in 1..Len(queue')
    <3>1. CASE i \in 1..Len(queue)
      <4>1. queue'[i] = queue[i] /\ queue[i] \in Ops /\ queue[i] # o
        BY <3>1, <1>2, <1>3, <1>5
      <4> QED BY <3>1, <4>1, <1>4 DEF FifoInv
    <3>2. CASE i = Len(queue) + 1
      BY <3>2, <1>3, <1>4, PathFacts
    <3> QED BY <3>1, <3>2, <1>6
  <2>3. \A p \in Ops : pc'[p] \notin Over => \E i \in 1..Len(queue') : queue'[i] = p
    <3> SUFFICES ASSUME NEW p \in Ops, pc'[p] \notin Over
                 PROVE  \E i \in 1..Len(queue') : queue'[i] = p
      OBVIOUS
    <3>1. CASE p = o
      BY <3>1, <1>2, <1>3
    <3>2. CASE p # o
      <4>1. PICK i \in 1..Len(queue) : queue[i] = p
        BY <3>2, <1>4 DEF FifoInv
      <4>2. i \in 1..Len(queue')
        BY <1>2, <1>3
      <4> QED BY <4>1, <4>2, <1>3
    <3> QED BY <3>1, <3>2
  <2> QED BY <2>1, <2>2, <2>3 DEF FifoInv
<1>8. CASE queue = <<>>
  <2>1. First' = "queued" /\ \A at \in Paths : ~Running(at)
    BY <1>8, <1>3, <1>4 DEF First, Running
  <2>2. \A at \in Paths : Running(at)' <=> at = "queued"
    BY <2>1, RunningMoves
  <2>3. loading # "none" => \A i \in 1..Len(queue') : ~Blind(queue'[i])
    <3> SUFFICES ASSUME loading # "none", NEW i \in 1..Len(queue')
                 PROVE  ~Blind(queue'[i])
      OBVIOUS
    <3>1. Len(queue) = 0
      BY <1>8
    <3>2. queue'[i] = o
      BY <3>1, <1>2, <1>3, <1>6
    <3> QED BY <3>2 DEF Ask, ReadMayMeet
  <2>4. ReadInv'
    BY <1>1, <2>2, <2>3, PathFacts DEF ReadInv, Blind
  <2>5. PrevInv' /\ ReaderSeesDisk'
    BY <1>1, <2>1, <2>2, PathFacts DEF PrevInv, ReaderSeesDisk
  <2>6. BasicTypes'
    BY <1>1, <1>3, <1>4 DEF BasicTypes
  <2> QED BY <1>7, <2>4, <2>5, <2>6
<1>9. CASE queue # <<>>
  <2>1. Head(queue') = Head(queue) /\ Head(queue) \in Ops /\ Head(queue) # o
    BY <1>9, <1>2, <1>3, <1>5, QueueFacts
  <2>2. \A at \in Paths : Running(at)' <=> Running(at)
    BY <1>3, <1>4, <1>9, <2>1 DEF Running
  <2>3. loading # "none" => Running("loading") \/ \A i \in 1..Len(queue') : ~Blind(queue'[i])
    <3> SUFFICES ASSUME loading # "none", ~Running("loading"), NEW i \in 1..Len(queue')
                 PROVE  ~Blind(queue'[i])
      OBVIOUS
    <3>1. \A j \in 1..Len(queue) : ~Blind(queue[j])
      BY DEF ReadInv
    <3>2. ~Blind(o)
      BY DEF Ask, ReadMayMeet
    <3> QED BY <3>1, <3>2, <1>3, <1>6
  <2>4. ReadInv'
    BY <1>1, <1>9, <2>1, <2>2, <2>3, PathFacts DEF ReadInv, Blind
  <2>5. PrevInv' /\ ReaderSeesDisk'
    BY <1>1, <2>1, <2>2, PathFacts DEF PrevInv, ReaderSeesDisk, Kind, Changed, Blind
  <2>6. BasicTypes'
    BY <1>1, <1>3, <1>4 DEF BasicTypes
  <2> QED BY <1>7, <2>4, <2>5, <2>6
<1> QED BY <1>8, <1>9

\* The running operation goes on: what is to be shown of it is at its new step.
LEMMA GotoKeeps ==
  ASSUME Inv, First \notin Over, queue # <<>>, NEW at \in Started, Goto(at), queue' = queue,
         crashes' = crashes, seen' = seen, disk' \in Value, prev' \in Value,
         slot' \in [loaded : BOOLEAN, value : Value], loading' \in {"none", "reading", "read"},
         at = "loading" => loading' # "none" /\ ~Blind(Head(queue)) /\ ~slot'.loaded,
         at # "loading" => loading' = "none" /\ (slot'.loaded \/ Blind(Head(queue))),
         loading' = "read" => seen = disk',
         at = "loaded" => prev' = disk' /\ ~Blind(Head(queue)),
         at = "writing" => Kind # "noop" /\ (Blind(Head(queue)) \/ prev' = disk'),
         at = "written" => Kind # "noop" /\ disk' = Changed(prev'),
         at # "written" => (slot'.loaded => slot'.value = disk')
  PROVE  Inv' /\ First' = at
<1> USE DEF Inv
<1>1. FifoInv' /\ First' = at /\ pc' \in [Ops -> Paths] /\ Head(queue') = Head(queue)
  BY GotoFifo
<1>2. \A p \in Paths : Running(p)' <=> p = at
  BY <1>1, RunningMoves
<1>3. BasicTypes'
  BY <1>1 DEF BasicTypes
<1>4. ReadInv'
  BY <1>1, <1>2, PathFacts DEF ReadInv, Blind
<1>5. Changed(prev)' = Changed(prev')
  BY <1>1 DEF Changed, Kind
<1>6. PrevInv'
  BY <1>1, <1>2, <1>5, PathFacts DEF PrevInv, Blind, Kind
<1>7. ReaderSeesDisk'
  BY <1>2, PathFacts DEF ReaderSeesDisk
<1> QED BY <1>1, <1>3, <1>4, <1>6, <1>7

\* What holds while an operation runs past its loading: nobody reads the file.
LEMMA PastLoading ==
  ASSUME Inv, NEW at \in Started, Running(at)
  PROVE  /\ queue # <<>> /\ First = at /\ First \notin Over
         /\ Head(queue) \in Ops /\ Kind = KindOf[Head(queue)]
         /\ at # "loading" => loading = "none" /\ (slot.loaded \/ Blind(Head(queue)))
<1> USE DEF Inv
<1>1. queue # <<>> /\ First = at /\ First \notin Over
  BY RunningMoves, PathFacts DEF Running
<1>2. Head(queue) \in Ops
  BY <1>1, QueueFacts DEF BasicTypes
<1>3. at # "loading" => ~Running("loading") /\ ~Running("queued")
  BY <1>1, RunningMoves, PathFacts
<1>4. at # "loading" => loading = "none" /\ (slot.loaded \/ Blind(Head(queue)))
  BY <1>1, <1>3 DEF ReadInv
<1> QED BY <1>1, <1>2, <1>4 DEF Kind

\* An operation gets its turn: it writes, or loads, or takes what is cached.
LEMMA StartKeeps ==
  ASSUME Inv, Start
  PROVE  Inv' /\ First' \in {"loading", "loaded", "writing"}
<1> USE DEF Inv
<1>1. /\ UNCHANGED <<disk, slot, seen, queue, crashes>>
      /\ Running("queued") /\ queue # <<>> /\ First = "queued" /\ First \notin Over
  BY RunningMoves, PathFacts DEF Start, Running
<1>2. /\ disk \in Value /\ prev \in Value /\ slot \in [loaded : BOOLEAN, value : Value]
      /\ loading \in {"none", "reading", "read"} /\ slot.value \in Value
  BY DEF BasicTypes
<1>3. slot.loaded => slot.value = disk
  BY <1>1, RunningMoves, PathFacts DEF ReaderSeesDisk
<1>4. CASE Blind(Head(queue))
  <2>1. Goto("writing") /\ UNCHANGED <<loading, prev>>
    BY <1>4 DEF Start
  <2>2. loading = "none"
    <3>1. ~Running("loading")
      BY <1>1, RunningMoves, PathFacts
    <3>2. 1 \in 1..Len(queue) /\ Head(queue) = queue[1]
      BY <1>1, QueueFacts DEF BasicTypes
    <3> QED BY <1>4, <3>1, <3>2 DEF ReadInv
  <2>3. Kind # "noop"
    BY <1>4 DEF Blind, Kind
  <2> QED BY <1>1, <1>2, <1>3, <1>4, <2>1, <2>2, <2>3, PathFacts, GotoKeeps
<1>5. CASE ~Blind(Head(queue)) /\ slot.loaded
  <2>1. Goto("loaded") /\ prev' = slot.value /\ UNCHANGED loading
    BY <1>5 DEF Start
  <2>2. loading = "none"
    BY <1>5 DEF ReadInv
  <2> QED BY <1>1, <1>2, <1>3, <1>5, <2>1, <2>2, PathFacts, GotoKeeps
<1>6. CASE ~Blind(Head(queue)) /\ ~slot.loaded
  <2>1. /\ Goto("loading") /\ UNCHANGED prev
        /\ loading' = IF loading = "none" THEN "reading" ELSE loading
    BY <1>6 DEF Start
  <2>2. loading' # "none" /\ loading' \in {"none", "reading", "read"} /\ (loading' = "read" => seen = disk)
    BY <1>2, <2>1 DEF ReadInv
  <2> QED BY <1>1, <1>2, <1>3, <1>6, <2>1, <2>2, PathFacts, GotoKeeps
<1> QED BY <1>4, <1>5, <1>6

\* The change is made of the value it is given, or there is none to make.
LEMMA ChangeKeeps ==
  ASSUME Inv, Change
  PROVE  Inv'
<1> USE DEF Inv
<1>1. UNCHANGED <<disk, slot, loading, seen, prev, crashes>> /\ Running("loaded")
  BY DEF Change
<1>2. /\ queue # <<>> /\ First = "loaded" /\ First \notin Over
      /\ loading = "none" /\ (slot.loaded \/ Blind(Head(queue)))
  BY <1>1, PathFacts, PastLoading
<1>3. /\ disk \in Value /\ prev \in Value /\ slot \in [loaded : BOOLEAN, value : Value]
      /\ prev = disk
  BY <1>1 DEF BasicTypes, PrevInv
<1>4. slot.loaded => slot.value = disk
  BY <1>2, RunningMoves, PathFacts DEF ReaderSeesDisk
<1>5. CASE Settle("ok") \/ Settle("rejected")
  BY <1>1, <1>2, <1>5, PathFacts, SettleKeeps
<1>6. CASE Kind # "noop" /\ Goto("writing") /\ UNCHANGED queue
  BY <1>1, <1>2, <1>3, <1>4, <1>6, PathFacts, GotoKeeps
<1> QED BY <1>5, <1>6 DEF Change

\* The file holds the change of what it held.
LEMMA WriteKeeps ==
  ASSUME StoreAssumption, Inv, Write
  PROVE  Inv' /\ First' = "written"
<1> USE DEF Inv
<1>1. /\ UNCHANGED <<slot, loading, seen, queue, prev, crashes>> /\ Running("writing")
      /\ disk' = Changed(prev) /\ Goto("written")
  BY DEF Write
<1>2. /\ queue # <<>> /\ First = "writing" /\ First \notin Over
      /\ loading = "none" /\ (slot.loaded \/ Blind(Head(queue)))
  BY <1>1, PathFacts, PastLoading
<1>3. prev \in Value /\ slot \in [loaded : BOOLEAN, value : Value] /\ Kind # "noop"
  BY <1>1 DEF BasicTypes, PrevInv
<1>4. disk' \in Value
  BY <1>1, <1>2, <1>3, ChangedIsValue
<1> QED BY <1>1, <1>2, <1>3, <1>4, PathFacts, GotoKeeps

\* The write fails and leaves the file.
LEMMA WriteFailsKeeps ==
  ASSUME Inv, WriteFails
  PROVE  Inv'
<1> USE DEF Inv
<1>1. /\ UNCHANGED <<disk, slot, loading, seen, prev, crashes>> /\ Running("writing")
      /\ Settle("rejected")
  BY DEF WriteFails
<1>2. First = "writing"
  BY <1>1, PathFacts, PastLoading
<1> QED BY <1>1, <1>2, PathFacts, SettleKeeps

\* What is cached is what the file holds again.
LEMMA SwapKeeps ==
  ASSUME StoreAssumption, Inv, Swap
  PROVE  Inv' /\ First' = "after"
<1> USE DEF Inv
<1>1. /\ UNCHANGED <<disk, loading, seen, queue, prev, crashes>> /\ Running("written")
      /\ slot' = [loaded |-> TRUE, value |-> Changed(prev)] /\ Goto("after")
  BY DEF Swap
<1>2. queue # <<>> /\ First = "written" /\ First \notin Over /\ loading = "none"
  BY <1>1, PathFacts, PastLoading
<1>3. disk \in Value /\ prev \in Value /\ disk = Changed(prev)
  BY <1>1 DEF BasicTypes, PrevInv
<1>4. slot' \in [loaded : BOOLEAN, value : Value] /\ slot'.loaded /\ slot'.value = disk
  BY <1>1, <1>3
<1> QED BY <1>1, <1>2, <1>3, <1>4, PathFacts, GotoKeeps

\* The operation is answered.
LEMMA AfterCommitKeeps ==
  ASSUME Inv, AfterCommit
  PROVE  Inv'
<1> USE DEF Inv
<1>1. /\ UNCHANGED <<disk, slot, loading, seen, prev, crashes>> /\ Running("after")
      /\ Settle("ok") \/ Settle("rejected")
  BY DEF AfterCommit
<1>2. First = "after"
  BY <1>1, PathFacts, PastLoading
<1> QED BY <1>1, <1>2, PathFacts, SettleKeeps

\* Only the file survives the process.
LEMMA CrashKeeps ==
  ASSUME Inv, Crash
  PROVE  Inv'
<1> USE DEF Inv
<1>1. /\ disk' = disk /\ slot' = Unloaded /\ loading' = "none" /\ queue' = <<>>
      /\ prev' = Absent /\ seen' = Absent /\ crashes' = crashes + 1
      /\ pc' = [o \in Ops |-> IF pc[o] \in {"idle", "ok", "rejected"} THEN pc[o] ELSE "lost"]
  BY DEF Crash
<1>2. <<>> \in Seq(Ops) /\ 1..Len(queue') = {}
  BY <1>1
<1>3. Absent \in Value
  BY <1>2 DEF Absent, Value
<1>4. pc' \in [Ops -> Over]
  BY <1>1 DEF Over
<1>5. pc' \in [Ops -> Paths]
  BY <1>4, PathFacts
<1>6. BasicTypes'
  BY <1>1, <1>2, <1>3, <1>5 DEF BasicTypes, Unloaded
<1>7. FifoInv'
  BY <1>1, <1>2, <1>4 DEF FifoInv
<1>8. ReadInv' /\ PrevInv' /\ ReaderSeesDisk'
  BY <1>1 DEF ReadInv, PrevInv, ReaderSeesDisk, Running, Unloaded
<1> QED BY <1>6, <1>7, <1>8

\* Nothing moves.
LEMMA StutterKeeps ==
  ASSUME Inv, UNCHANGED vars
  PROVE  Inv'
  BY DEF vars, Inv, BasicTypes, FifoInv, ReadInv, PrevInv, ReaderSeesDisk, Running, Kind, Changed, Blind

\* Every step of the store keeps its invariant.
LEMMA InvKept ==
  ASSUME StoreAssumption, ~EagerReaders, Inv, [Next]_vars
  PROVE  Inv'
<1>1. CASE Load
  BY <1>1, LoadKeeps
<1>2. CASE \E o \in Ops : Ask(o)
  BY <1>2, AskKeeps
<1>3. CASE Reads
  BY <1>3, FileReadKeeps, LoadedKeeps, LoadFailsKeeps DEF Reads
<1>4. CASE Proceeds
  BY <1>4, StartKeeps, ChangeKeeps, WriteKeeps, WriteFailsKeeps, SwapKeeps, AfterCommitKeeps DEF Proceeds
<1>5. CASE Crash
  BY <1>5, CrashKeeps
<1>6. CASE UNCHANGED vars
  BY <1>6, StutterKeeps
<1> QED BY <1>1, <1>2, <1>3, <1>4, <1>5, <1>6 DEF Next

\* The invariant holds of every state of the store.
LEMMA AlwaysInv ==
  ASSUME StoreAssumption, ~EagerReaders
  PROVE  Spec => []Inv
<1>1. Init => Inv
  BY StartsRight
<1>2. Inv /\ [Next]_vars => Inv'
  BY InvKept
<1> QED BY <1>1, <1>2, PTL DEF Spec

\* The state always has its type, and the FIFO always holds the operations under way.
THEOREM TypeCorrect ==
  ASSUME StoreAssumption, ~EagerReaders
  PROVE  Spec => []TypeOK
<1>1. Inv => TypeOK
  BY TypesTogether DEF Inv
<1> QED BY <1>1, AlwaysInv, PTL

\* Whoever reads what the store has in memory, while no change of it is between the file
\* and the memory, reads what the file holds.
THEOREM ReadersSeeDisk ==
  ASSUME StoreAssumption, ~EagerReaders
  PROVE  Spec => []ReaderSeesDisk
<1>1. Inv => ReaderSeesDisk
  BY DEF Inv
<1> QED BY <1>1, AlwaysInv, PTL

----------------------------------------
(* The store implements the serial one                                     *)

\* What callers can tell of all the operations.
Told == [o \in Ops |-> Promised(pc[o])]

\* What callers can tell of an operation at each of its steps.
LEMMA PromisedFacts ==
  /\ \A at \in {"queued", "loading", "loaded", "writing"} : Promised(at) = "asked"
  /\ \A at \in {"written", "after"} : Promised(at) = "committed"
  /\ \A at \in Over : Promised(at) = at
  BY DEF Promised, Over

\* Of an operation that takes a step, and of no other, they can tell what it is now.
LEMMA ToldMoves ==
  ASSUME BasicTypes, queue # <<>>, NEW at \in Paths, Goto(at)
  PROVE  /\ Told' = [Told EXCEPT ![Head(queue)] = Promised(at)]
         /\ Told[Head(queue)] = Promised(First) /\ Head(queue) \in Ops
         /\ Promised(at) = Promised(First) => Told' = Told
<1>1. Head(queue) \in Ops /\ pc \in [Ops -> Paths]
  BY QueueFacts DEF BasicTypes
<1>2. pc' = [pc EXCEPT ![Head(queue)] = at]
  BY DEF Goto
<1>3. \A o \in Ops : pc'[o] = IF o = Head(queue) THEN at ELSE pc[o]
  BY <1>1, <1>2
<1>4. Told' = [o \in Ops |-> IF o = Head(queue) THEN Promised(at) ELSE Promised(pc[o])]
  BY <1>3 DEF Told
<1>5. First = pc[Head(queue)]
  BY DEF First
<1> QED BY <1>1, <1>4, <1>5 DEF Told

\* A step of an operation its callers cannot tell from the one before is none of the serial store.
LEMMA Silent ==
  ASSUME BasicTypes, queue # <<>>, NEW at \in Paths, Goto(at), Promised(at) = Promised(First),
         UNCHANGED <<disk, queue>>
  PROVE  UNCHANGED Serial!vars
  BY ToldMoves DEF Serial!vars, Told

\* An operation that fails before its change is in the file is refused.
LEMMA Refused ==
  ASSUME BasicTypes, queue # <<>>, Promised(First) = "asked", Settle("rejected"), disk' = disk
  PROVE  Serial!Refuse
<1>1. Goto("rejected") /\ queue' = Tail(queue) /\ Promised("rejected") = "rejected"
  BY PromisedFacts DEF Settle, Over
<1>2. Told' = [Told EXCEPT ![Head(queue)] = "rejected"] /\ Told[Head(queue)] = "asked"
  BY <1>1, ToldMoves, PathFacts DEF Over
<1> QED BY <1>1, <1>2 DEF Serial!Refuse, Told

\* The first states are those of the serial store.
LEMMA InitRefines ==
  ASSUME Init
  PROVE  Serial!Init
<1>1. Promised("idle") = "idle"
  BY PromisedFacts DEF Over
<1>2. Told = [o \in Ops |-> "idle"]
  BY <1>1 DEF Init, Told
<1> QED BY <1>2 DEF Init, Serial!Init, Told, Absent, Serial!Absent

\* Asking is asking.
LEMMA AskRefines ==
  ASSUME Inv, NEW o \in Ops, Ask(o)
  PROVE  Serial!Ask(o)
<1>1. /\ pc[o] = "idle" /\ pc' = [pc EXCEPT ![o] = "queued"] /\ pc \in [Ops -> Paths]
      /\ queue' = Append(queue, o) /\ disk' = disk
  BY DEF Ask, Inv, BasicTypes
<1>2. Promised("idle") = "idle" /\ Promised("queued") = "asked"
  BY PromisedFacts DEF Over
<1>3. \A p \in Ops : pc'[p] = IF p = o THEN "queued" ELSE pc[p]
  BY <1>1
<1>4. Told[o] = "idle" /\ Told' = [Told EXCEPT ![o] = "asked"]
  BY <1>1, <1>2, <1>3 DEF Told
<1> QED BY <1>1, <1>4 DEF Serial!Ask, Told

\* A read of the file changes nothing callers can tell, but for the operation that fails with it.
LEMMA ReadsRefine ==
  ASSUME Inv, Load \/ Reads
  PROVE  Serial!Refuse \/ UNCHANGED Serial!vars
<1> USE DEF Inv
<1>1. CASE Load \/ FileRead
  BY <1>1 DEF Load, FileRead, Serial!vars
<1>2. CASE Loaded
  <2>1. CASE Running("loading")
    <3>1. First = "loading" /\ queue # <<>> /\ Goto("loaded") /\ UNCHANGED <<disk, queue>>
      BY <1>2, <2>1, PathFacts, PastLoading DEF Loaded
    <3>2. Promised("loaded") = Promised("loading")
      BY PromisedFacts
    <3> QED BY <3>1, <3>2, PathFacts, Silent
  <2>2. CASE ~Running("loading")
    BY <1>2, <2>2 DEF Loaded, Serial!vars
  <2> QED BY <2>1, <2>2
<1>3. CASE LoadFails
  <2>1. CASE Running("loading")
    <3>1. First = "loading" /\ queue # <<>> /\ Settle("rejected") /\ disk' = disk
      BY <1>3, <2>1, PathFacts, PastLoading DEF LoadFails
    <3> QED BY <3>1, PromisedFacts, Refused
  <2>2. CASE ~Running("loading")
    BY <1>3, <2>2 DEF LoadFails, Serial!vars
  <2> QED BY <2>1, <2>2
<1> QED BY <1>1, <1>2, <1>3 DEF Reads

\* To get the turn is nothing callers can tell.
LEMMA StartRefines ==
  ASSUME Inv, Start
  PROVE  UNCHANGED Serial!vars
<1>1. First = "queued" /\ queue # <<>> /\ UNCHANGED <<disk, queue>>
  BY RunningMoves, PathFacts DEF Start, Running
<1>2. Goto("writing") \/ Goto("loaded") \/ Goto("loading")
  BY DEF Start
<1>3. /\ Promised("writing") = Promised("queued") /\ Promised("loaded") = Promised("queued")
      /\ Promised("loading") = Promised("queued")
  BY PromisedFacts
<1> QED BY <1>1, <1>2, <1>3, PathFacts, Silent DEF Inv

\* A change that is none ends there, one that throws is refused.
LEMMA ChangeRefines ==
  ASSUME Inv, Change
  PROVE  Serial!Refuse \/ Serial!Unchanged \/ UNCHANGED Serial!vars
<1>1. /\ First = "loaded" /\ queue # <<>> /\ disk' = disk /\ Head(queue) \in Ops
      /\ Kind = KindOf[Head(queue)] /\ Promised(First) = "asked"
  BY PathFacts, PastLoading, PromisedFacts DEF Change
<1>2. CASE Kind = "noop" /\ Settle("ok")
  <2>1. Goto("ok") /\ queue' = Tail(queue) /\ Promised("ok") = "ok"
    BY <1>2, PromisedFacts DEF Settle, Over
  <2>2. Told' = [Told EXCEPT ![Head(queue)] = "ok"] /\ Told[Head(queue)] = "asked"
    BY <1>1, <2>1, ToldMoves, PathFacts DEF Over, Inv
  <2>3. Serial!Unchanged
    BY <1>1, <1>2, <2>1, <2>2 DEF Serial!Unchanged, Told
  <2> QED BY <2>3
<1>3. CASE Kind # "noop" /\ Goto("writing") /\ UNCHANGED queue
  <2>1. Promised("writing") = Promised(First)
    BY <1>1, PromisedFacts
  <2> QED BY <1>1, <1>3, <2>1, PathFacts, Silent DEF Inv
<1>4. CASE Settle("rejected")
  BY <1>1, <1>4, Refused DEF Inv
<1> QED BY <1>2, <1>3, <1>4 DEF Change

\* The file gets the running operation's change of what it holds: the serial store's commit.
LEMMA WriteRefines ==
  ASSUME StoreAssumption, Inv, Write
  PROVE  Serial!Commit
<1>1. /\ First = "writing" /\ queue # <<>> /\ queue' = queue /\ Head(queue) \in Ops
      /\ Kind = KindOf[Head(queue)] /\ Promised(First) = "asked" /\ Running("writing")
  BY PathFacts, PastLoading, PromisedFacts DEF Write
<1>2. Kind # "noop" /\ (Blind(Head(queue)) \/ prev = disk)
  BY <1>1 DEF Inv, PrevInv
<1>3. Told' = [Told EXCEPT ![Head(queue)] = "committed"] /\ Told[Head(queue)] = "asked"
  <2>1. Goto("written") /\ Promised("written") = "committed"
    BY PromisedFacts DEF Write
  <2> QED BY <1>1, <2>1, ToldMoves, PathFacts DEF Inv
<1>4. disk' = Serial!Apply(Head(queue), disk)
  <2>1. disk' = Changed(prev)
    BY DEF Write
  <2>2. Kind \in {"update", "create", "replace", "remove"}
    BY <1>1, <1>2 DEF StoreAssumption
  <2>3. CASE Kind = "update"
    BY <1>1, <1>2, <2>1, <2>3 DEF Changed, Serial!Apply, Blind
  <2>4. CASE Kind \in {"create", "replace"}
    BY <1>1, <2>1, <2>4 DEF Changed, Serial!Apply
  <2>5. CASE Kind = "remove"
    BY <1>1, <2>1, <2>5 DEF Changed, Serial!Apply, Absent, Serial!Absent
  <2> QED BY <2>2, <2>3, <2>4, <2>5
<1>5. KindOf[Head(queue)] # "noop" /\ (KindOf[Head(queue)] = "create" => ~disk.there)
  BY <1>1, <1>2 DEF Write
<1> QED BY <1>1, <1>3, <1>4, <1>5 DEF Serial!Commit, Told

\* What follows the commit: the swap cannot be told, the answer is the serial store's.
LEMMA CommittedRefines ==
  ASSUME Inv, Swap \/ AfterCommit
  PROVE  Serial!Answer \/ UNCHANGED Serial!vars
<1>1. CASE Swap
  <2>1. First = "written" /\ queue # <<>> /\ Goto("after") /\ UNCHANGED <<disk, queue>>
    BY <1>1, PathFacts, PastLoading DEF Swap
  <2>2. Promised("after") = Promised("written")
    BY PromisedFacts
  <2> QED BY <2>1, <2>2, PathFacts, Silent DEF Inv
<1>2. CASE AfterCommit
  <2>1. First = "after" /\ queue # <<>> /\ disk' = disk /\ Promised(First) = "committed"
    BY <1>2, PathFacts, PastLoading, PromisedFacts DEF AfterCommit
  <2>2. PICK answer \in {"ok", "rejected"} : Goto(answer) /\ queue' = Tail(queue)
    BY <1>2 DEF AfterCommit, Settle
  <2>3. answer \in Paths /\ Promised(answer) = answer
    BY PathFacts, PromisedFacts DEF Over
  <2>4. Told' = [Told EXCEPT ![Head(queue)] = answer] /\ Told[Head(queue)] = "committed"
    BY <2>1, <2>2, <2>3, ToldMoves DEF Inv
  <2>5. Serial!Answer
    BY <2>1, <2>2, <2>4 DEF Serial!Answer, Told
  <2> QED BY <2>5
<1> QED BY <1>1, <1>2

\* The process dies: those who were not answered are not told.
LEMMA CrashRefines ==
  ASSUME Inv, Crash
  PROVE  Serial!Crash
<1>1. /\ disk' = disk /\ queue' = <<>> /\ pc \in [Ops -> Paths]
      /\ pc' = [o \in Ops |-> IF pc[o] \in {"idle", "ok", "rejected"} THEN pc[o] ELSE "lost"]
  BY DEF Crash, Inv, BasicTypes
<1>2. \A o \in Ops : Promised(pc'[o]) =
        IF Promised(pc[o]) \in {"asked", "committed"} THEN "lost" ELSE Promised(pc[o])
  <2> TAKE o \in Ops
  <2>1. pc[o] \in Paths /\ pc'[o] = IF pc[o] \in {"idle", "ok", "rejected"} THEN pc[o] ELSE "lost"
    BY <1>1
  <2> QED BY <2>1 DEF Promised, Paths, Started, Over
<1>3. Told' = [o \in Ops |-> IF Told[o] \in {"asked", "committed"} THEN "lost" ELSE Told[o]]
  BY <1>2 DEF Told
<1> QED BY <1>1, <1>3 DEF Serial!Crash, Told

\* Every step of the store is one of the serial store, or none.
LEMMA StepRefines ==
  ASSUME StoreAssumption, Inv, [Next]_vars
  PROVE  [Serial!Next]_(Serial!vars)
<1>1. CASE Load
  BY <1>1, ReadsRefine DEF Serial!Next
<1>2. CASE \E o \in Ops : Ask(o)
  BY <1>2, AskRefines DEF Serial!Next
<1>3. CASE Reads
  BY <1>3, ReadsRefine DEF Serial!Next
<1>4. CASE Proceeds
  <2>1. CASE Start
    BY <2>1, StartRefines
  <2>2. CASE Change
    BY <2>2, ChangeRefines DEF Serial!Next
  <2>3. CASE Write
    BY <2>3, WriteRefines DEF Serial!Next
  <2>4. CASE WriteFails
    <3>1. First = "writing" /\ queue # <<>> /\ Settle("rejected") /\ disk' = disk
      BY <2>4, PathFacts, PastLoading DEF WriteFails
    <3> QED BY <3>1, PromisedFacts, Refused DEF Inv, Serial!Next
  <2>5. CASE Swap \/ AfterCommit
    BY <2>5, CommittedRefines DEF Serial!Next
  <2> QED BY <1>4, <2>1, <2>2, <2>3, <2>4, <2>5 DEF Proceeds
<1>5. CASE Crash
  BY <1>5, CrashRefines DEF Serial!Next
<1>6. CASE UNCHANGED vars
  BY <1>6 DEF vars, Serial!vars
<1> QED BY <1>1, <1>2, <1>3, <1>4, <1>5, <1>6 DEF Next

\* The store keeps what it promises: the changes of a record take effect one at a time, in
\* the order they were asked for, each on what the one before left, and an answered change is
\* on disk, whatever fails on the way and whenever the process dies.
THEOREM ImplementsSerialStore ==
  ASSUME StoreAssumption, ~EagerReaders
  PROVE  Spec => SerialSpec
<1>1. Init => Serial!Init
  BY InitRefines
<1>2. Inv /\ [Next]_vars => [Serial!Next]_(Serial!vars)
  BY StepRefines
<1> QED BY <1>1, <1>2, AlwaysInv, PTL DEF Spec, SerialSpec, Serial!Spec
========================================
