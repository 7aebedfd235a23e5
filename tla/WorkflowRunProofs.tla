-------------------------- MODULE WorkflowRunProofs --------------------------
(* Proofs about WorkflowRun: a terminal record is what the journal holds, a run  *)
(* that has ended leaves nothing behind, and it is reported once and truly, for  *)
(* any calls, slots, scripts, failures and deaths of the host.                   *)
(*                                                                              *)
(* The invariant RunInv is inductive.  Its parts say where a run stands: when    *)
(* there is one (LifeInv), what each call has (CallInv), which message names     *)
(* which call (InboxInv), who holds a slot (SlotInv), how far finalize is and    *)
(* what it leaves behind it (EndInv, HandleInv, RunnerInv, StillInv), and what   *)
(* recovery has read (RecoverInv).                                               *)
EXTENDS WorkflowRun, FiniteSetTheorems, SequenceTheorems, TLAPS

----------------------------------------
(* The inductive invariant                                                 *)

Messages == Agents \cup {"emit"} \cup Terminal
Started == boot \in {"launching", "started"}

\* A run that was not started has nothing; while the host is not up, or once the record is
\* terminal, no run is under way.
LifeInv ==
  /\ ~Started =>
       /\ intent = None /\ fin = None /\ runner = None /\ tail = <<>> /\ ~busy /\ waiters = <<>>
       /\ reports = 0
       /\ \A i \in Agents : pc[i] = "idle" /\ cand[i] = None /\ handle[i] = None
       /\ host = "up" => \A i \in Agents : draft[i] = None
  /\ boot \in {"creating", "failed"} => rec = Absent
  /\ rec.status = None =>
       rec = Absent /\ host = "up" /\ end = None /\ ~Started /\ \A i \in Agents : res[i] = None
  /\ boot # None => host = "up"
  /\ host # "up" => rec.status = "running"
  /\ Started /\ rec.status \in Terminal => fin \in {"delivering", "settled"}

\* A call's result is decided once, and the draft and the journal follow it.
Early ==
  {"registering", "turned away", "waiting", "granted", "marking", "creating", "noting",
   "submitting", "working"}
CallStands(i) ==
  /\ res[i] \in {None, cand[i]}
  /\ cand[i] # None => draft[i] = cand[i]
  /\ pc[i] \in {"idle", "asked", "refused"} => draft[i] = None /\ cand[i] = None
  /\ pc[i] \in Early => cand[i] = None
  /\ pc[i] \in {"journaling", "storing", "done"} => cand[i] # None
  /\ pc[i] \in {"storing", "done"} => res[i] = cand[i]
CallInv == boot # None => \A i \in Agents : CallStands(i)

\* A call is named by one message, until that is handled.
InboxInv ==
  /\ busy => tail # <<>> /\ tail[1] \in Agents
  /\ \A k \in 1..Len(tail) : tail[k] \in Agents =>
       pc[tail[k]] = IF k = 1 /\ busy THEN "registering" ELSE "asked"
  /\ \A k, l \in 1..Len(tail) : tail[k] = tail[l] /\ tail[k] \in Agents => k = l

\* The semaphore counts the calls that hold a slot; each waiter is one call that waits.
Working == {"granted", "marking", "creating", "noting", "submitting", "working"}
Holding == Working \cup {"journaling", "storing"}
SlotInv ==
  /\ active = Cardinality(holds) /\ active <= Slots
  /\ \A i \in Agents : (pc[i] \in Working => i \in holds) /\ (i \in holds => pc[i] \in Holding)
  /\ \A k \in 1..Len(waiters) : pc[waiters[k]] = "waiting"
  /\ \A k, l \in 1..Len(waiters) : waiters[k] = waiters[l] => k = l
  /\ intent # None => waiters = <<>>

\* Where finalize stands: behind the closes nothing is open, behind the drain nothing moves, and
\* what is left is the end, the record and the report.
Over    == {"delivering", "settled"}
Written == {"writing"} \cup Over
Ending  == {"ending"} \cup Written
Still   == {"leftovers"} \cup Ending
Behind  == {"draining"} \cup Still

EndInv ==
  /\ fin # None => intent # None /\ Started
  /\ fin \in Written => end = intent
  /\ fin \in Over => rec.status = intent
  /\ owed <=> intent # "stopped" /\ reports = 0
  /\ reports \in {0, 1} /\ (reports = 1 => fin = "settled" /\ intent # "stopped")
  /\ fin = "delivering" => owed
  /\ fin = "settled" => ~owed
HandleInv ==
  /\ fin \in {"closing"} \cup Behind => \A i \in Agents : pc[i] # "creating"
  /\ fin \in Behind => \A i \in Agents : handle[i] \in {None, "closed", "unlocked"}
  /\ fin \in Over => \A i \in Agents : handle[i] \in {None, "unlocked"}
RunnerInv ==
  /\ fin \in {"materializing", "closing", "draining", "leftovers"} => stuck \/ runner \in {None, "gone"}
  /\ fin \in Ending => runner \in {None, "gone"}
StillInv ==
  /\ fin \in Still =>
       /\ ~busy /\ \A k \in 1..Len(tail) : tail[k] \notin Agents \cup {"emit"}
       /\ \A i \in Agents :
            i \notin holds /\ pc[i] \in {"idle", "refused", "done", "lost", "journaling", "storing"}
  /\ fin \in Ending => \A i \in Agents : pc[i] \in {"idle", "refused", "done"}

\* What recovery has read of the journal stands in the draft.
RecoverInv ==
  /\ host \in {"backfilling", "writing"} => \A i \in Agents : res[i] # None => draft[i] = res[i]
  /\ host = "writing" => end # None /\ \A i \in Agents : draft[i] \in Results

----------------------------------------
(* Type correctness                                                        *)

\* What the helpers of the actions leave, each for the variables it sets.
LEMMA ReserveType ==
  ASSUME TypeOK, NEW status \in Terminal, Reserve(status)
  PROVE  intent' \in Results /\ owed' \in BOOLEAN /\ waiters' \in Seq(Agents)
<1>1. intent' \in Results
  BY DEF Reserve, TypeOK, Results
<1>2. owed' \in BOOLEAN
  BY DEF Reserve, Owing, TypeOK
<1>3. waiters' \in Seq(Agents)
  <2>1. CASE intent = None
    <3>1. waiters' = <<>>
      BY <2>1 DEF Reserve
    <3> QED BY <3>1
  <2>2. CASE intent # None
    BY <2>2 DEF Reserve, TypeOK
  <2> QED BY <2>1, <2>2
<1> QED BY <1>1, <1>2, <1>3

\* Asking for finalize.
LEMMA EnsureType ==
  ASSUME TypeOK, NEW retry \in BOOLEAN, Ensure(retry)
  PROVE  fin' \in Ends /\ stuck' \in BOOLEAN /\ again' \in BOOLEAN
<1>1. fin' \in Ends
  BY DEF Ensure, TypeOK, Ends
<1>2. stuck' \in BOOLEAN
  BY DEF Ensure, TypeOK
<1>3. again' \in BOOLEAN
  BY DEF Ensure, TypeOK
<1> QED BY <1>1, <1>2, <1>3

\* Both at once.
LEMMA RequestType ==
  ASSUME TypeOK, NEW status \in Terminal, RequestTerminal(status)
  PROVE  /\ intent' \in Results /\ owed' \in BOOLEAN /\ waiters' \in Seq(Agents)
         /\ fin' \in Ends /\ stuck' \in BOOLEAN /\ again' \in BOOLEAN
  BY ReserveType, EnsureType DEF RequestTerminal

\* A finalize that fails.
LEMMA FinalizeFailsType ==
  ASSUME TypeOK, FinalizeFails
  PROVE  fin' \in Ends /\ stuck' \in BOOLEAN /\ again' \in BOOLEAN
  BY DEF FinalizeFails, Ends

\* Handling a message.
LEMMA HandledType ==
  ASSUME TypeOK, tail # <<>>, Handled
  PROVE  tail' \in Seq(Messages) /\ busy' \in BOOLEAN
<1>1. tail \in Seq(Messages) /\ tail' = Tail(tail) /\ busy' = FALSE
  BY DEF Handled, TypeOK, Messages
<1>2. \A S : \A q \in Seq(S) : q # <<>> => Tail(q) \in Seq(S)
  OBVIOUS
<1> QED BY <1>1, <1>2

\* Writing the draft.
LEMMA PublishType ==
  ASSUME TypeOK, Publish(draft)
  PROVE  rec' \in [status : {"running"} \cup Results, agents : [Agents -> Marks]]
  BY DEF Publish, TypeOK

\* A call that completes.
LEMMA CompletesType ==
  ASSUME TypeOK, NEW i \in Agents, NEW status \in Terminal, Completes(i, status)
  PROVE  /\ cand' \in [Agents -> Results] /\ draft' \in [Agents -> Marks]
         /\ pc' \in [Agents -> Paths]
<1>1. Candidate(i, status) \in Results
  BY DEF Candidate, TypeOK, Results
<1>2. Candidate(i, status) \in Marks
  BY <1>1 DEF Marks
<1> QED BY <1>1, <1>2 DEF Completes, TypeOK, Paths

\* An error has a status of its own.
LEMMA BlamedType == Blamed \in Terminal
  BY DEF Blamed, Terminal

\* The calls that hold slots are finitely many.
LEMMA HoldsFinite ==
  ASSUME TypeOK
  PROVE  /\ IsFiniteSet(holds) /\ Cardinality(holds) \in Nat
         /\ \A i \in holds : /\ IsFiniteSet(holds \ {i})
                             /\ Cardinality(holds \ {i}) = Cardinality(holds) - 1
                             /\ Cardinality(holds) # 0
         /\ \A i \in Agents \ holds : Cardinality(holds \cup {i}) = Cardinality(holds) + 1
         /\ \A i \in holds, j \in Agents \ holds :
              Cardinality((holds \ {i}) \cup {j}) = Cardinality(holds)
<1>1. IsFiniteSet(holds) /\ Cardinality(holds) \in Nat
  BY RunAssumption, FS_Subset, FS_CardinalityType DEF TypeOK
<1>2. \A i \in holds : IsFiniteSet(holds \ {i}) /\ Cardinality(holds \ {i}) = Cardinality(holds) - 1
  BY <1>1, FS_RemoveElement
<1>3. \A i \in holds : Cardinality(holds) # 0
  BY <1>1, FS_EmptySet
<1>4. \A i \in Agents \ holds : Cardinality(holds \cup {i}) = Cardinality(holds) + 1
  BY <1>1, FS_AddElement
<1>5. ASSUME NEW i \in holds, NEW j \in Agents \ holds
      PROVE  Cardinality((holds \ {i}) \cup {j}) = Cardinality(holds)
  <2>1. Cardinality((holds \ {i}) \cup {j}) = Cardinality(holds \ {i}) + 1
    BY <1>2, FS_AddElement
  <2>2. Cardinality(holds \ {i}) = Cardinality(holds) - 1 /\ Cardinality(holds) \in Nat
    BY <1>1, <1>2
  <2>3. \A n, m, k \in Int : m = n - 1 /\ k = m + 1 => k = n
    OBVIOUS
  <2> QED BY <2>1, <2>2, <2>3
<1> QED BY <1>1, <1>2, <1>3, <1>4, <1>5

\* Giving a slot back keeps the count, and hands it to a call that waits.
LEMMA ReleaseCounts ==
  ASSUME TypeOK, SlotInv, NEW i \in Agents, NEW path \in [Agents -> Paths], NEW left \in Seq(Agents),
         left = waiters \/ left = <<>>, Release(i, path, left)
  PROVE  /\ pc' \in [Agents -> Paths] /\ active' \in Nat
         /\ holds' \subseteq Agents /\ waiters' \in Seq(Agents)
         /\ active' = Cardinality(holds') /\ active' <= Slots
<1>0. Slots \in Nat /\ active \in Nat
  BY RunAssumption DEF TypeOK
<1>1. CASE i \in holds /\ left # <<>>
  <2>1. /\ Head(left) \in Agents /\ Head(left) = left[1] /\ 1 \in 1..Len(left)
        /\ Tail(left) \in Seq(Agents) /\ left = waiters
    BY <1>1
  <2>2. Head(left) \notin holds
    BY <2>1 DEF SlotInv, Holding, Working
  <2>3. active' = active /\ holds' = (holds \ {i}) \cup {Head(left)}
        /\ waiters' = Tail(left) /\ pc' = [path EXCEPT ![Head(left)] = "granted"]
    BY <1>1 DEF Release
  <2>4. Cardinality(holds') = Cardinality(holds)
    BY <1>1, <2>1, <2>2, <2>3, HoldsFinite
  <2>5. pc' \in [Agents -> Paths]
    BY <2>1, <2>3 DEF Paths
  <2> QED BY <1>0, <2>1, <2>3, <2>4, <2>5 DEF SlotInv, TypeOK
<1>2. CASE ~(i \in holds /\ left # <<>>)
  <2>1. pc' = path /\ waiters' = left /\ holds' = holds \ {i}
        /\ active' = IF i \in holds THEN active - 1 ELSE active
    BY <1>2 DEF Release
  <2>2. active' = Cardinality(holds') /\ active' \in Nat /\ active' <= Slots
    <3>1. CASE i \in holds
      <4>1. Cardinality(holds \ {i}) = active - 1 /\ active # 0
        BY <3>1, HoldsFinite DEF SlotInv
      <4>2. active' = active - 1 /\ active' = Cardinality(holds') /\ active <= Slots
        BY <2>1, <3>1, <4>1 DEF SlotInv
      <4> QED BY <1>0, <4>1, <4>2
    <3>2. CASE i \notin holds
      <4>1. holds' = holds
        BY <2>1, <3>2
      <4> QED BY <1>0, <2>1, <3>2, <4>1 DEF SlotInv
    <3> QED BY <3>1, <3>2
  <2>3. holds' \subseteq Agents
    BY <2>1 DEF TypeOK
  <2> QED BY <2>1, <2>2, <2>3
<1> QED BY <1>1, <1>2

\* The runs that begin and the stops.
LEMMA TypeBoot ==
  ASSUME TypeOK,
         Create \/ CreateFails \/ BootSteps \/ Stop \/ StopAll \/ RequestStopAll \/ RunnerExits
  PROVE  TypeOK'
<1>0. None \in Results /\ Absent \in [status : {"running"} \cup Results, agents : [Agents -> Marks]]
  BY DEF Absent, Results, Marks, None
<1>1. CASE Create
  BY <1>1 DEF Create, TypeOK, Boots, inbox, slots, calls, final, report, disk, journal, bounds
<1>2. CASE CreateFails
  BY <1>2 DEF CreateFails, Broke, TypeOK, Boots, inbox, slots, calls, final, report, disk, journal
<1>3. CASE Created
  <2>1. rec' \in [status : {"running"} \cup Results, agents : [Agents -> Marks]]
    BY <1>0, <1>3 DEF Created
  <2>2. /\ intent' \in Results /\ owed' \in BOOLEAN /\ waiters' \in Seq(Agents)
        /\ fin' \in Ends /\ stuck' \in BOOLEAN /\ again' \in BOOLEAN
    <3>1. CASE accepting
      BY <1>3, <3>1 DEF Created, TypeOK, final
    <3>2. CASE ~accepting
      BY <1>3, <3>2, ReserveType, EnsureType DEF Created, Terminal
    <3> QED BY <3>1, <3>2
  <2>3. boot' \in Boots /\ runner' \in {None, "spawning", "up", "gone"}
    BY <1>3 DEF Created, TypeOK, Boots
  <2> QED BY <1>3, <2>1, <2>2, <2>3 DEF Created, TypeOK, inbox, calls, bounds
<1>4. CASE Launched
  <2>1. /\ intent' \in Results /\ owed' \in BOOLEAN /\ waiters' \in Seq(Agents)
        /\ fin' \in Ends /\ stuck' \in BOOLEAN /\ again' \in BOOLEAN
    <3>1. CASE intent # None /\ Ensure(TRUE) /\ UNCHANGED <<intent, owed, waiters>>
      BY <3>1, EnsureType DEF TypeOK
    <3>2. CASE UNCHANGED <<intent, owed, waiters, final>>
      BY <3>2 DEF TypeOK, final
    <3>3. CASE RequestTerminal("failed")
      BY <3>3, RequestType DEF Terminal
    <3> QED BY <1>4, <3>1, <3>2, <3>3 DEF Launched
  <2>2. boot' \in Boots /\ runner' \in {None, "spawning", "up", "gone"}
    BY <1>4 DEF Launched, Boots
  <2> QED BY <1>4, <2>1, <2>2 DEF Launched, TypeOK, inbox, calls, disk, journal, bounds
<1>5. CASE LaunchFails
  <2>1. boot' \in Boots /\ runner' \in {None, "spawning", "up", "gone"}
    BY <1>5 DEF LaunchFails, Boots
  <2>2. RequestTerminal("failed") /\ "failed" \in Terminal
    BY <1>5 DEF LaunchFails, Terminal
  <2> QED BY <1>5, <2>1, <2>2, RequestType DEF LaunchFails, TypeOK, inbox, calls, disk, journal, bounds
<1>6. CASE Stop
  <2>1. Reserve("stopped") /\ Ensure(FALSE) /\ "stopped" \in Terminal
    BY <1>6 DEF Stop, Terminal
  <2> QED BY <1>6, <2>1, ReserveType, EnsureType DEF Stop, TypeOK, service, inbox, calls, disk, journal, bounds
<1>7. CASE RequestStopAll
  <2>1. intent' \in Results /\ owed' \in BOOLEAN /\ waiters' \in Seq(Agents)
    <3>1. CASE Reserve("stopped")
      BY <3>1, ReserveType DEF Terminal
    <3>2. CASE UNCHANGED <<intent, owed, waiters>>
      BY <3>2 DEF TypeOK
    <3> QED BY <1>7, <3>1, <3>2 DEF RequestStopAll
  <2>2. asked' \in BOOLEAN /\ accepting' \in BOOLEAN
    BY <1>7 DEF RequestStopAll, Runs
  <2> QED BY <1>7, <2>1, <2>2 DEF RequestStopAll, TypeOK, inbox, calls, final, disk, journal, bounds
<1>8. CASE RunnerExits
  <2>1. /\ intent' \in Results /\ owed' \in BOOLEAN /\ waiters' \in Seq(Agents)
        /\ fin' \in Ends /\ stuck' \in BOOLEAN /\ again' \in BOOLEAN
    <3>1. CASE RequestTerminal("failed")
      BY <3>1, RequestType DEF Terminal
    <3>2. CASE UNCHANGED <<intent, owed, waiters, final>>
      BY <3>2 DEF TypeOK, final
    <3> QED BY <1>8, <3>1, <3>2 DEF RunnerExits
  <2> QED BY <1>8, <2>1 DEF RunnerExits, TypeOK, service, inbox, calls, disk, journal, bounds
<1>9. CASE StopAll
  <2>1. /\ intent' \in Results /\ owed' \in BOOLEAN /\ waiters' \in Seq(Agents)
        /\ fin' \in Ends /\ stuck' \in BOOLEAN /\ again' \in BOOLEAN
    <3>1. CASE Reserve("stopped") /\ Ensure(FALSE)
      BY <3>1, ReserveType, EnsureType DEF Terminal
    <3>2. CASE UNCHANGED <<intent, owed, waiters, final>>
      BY <3>2 DEF TypeOK, final
    <3> QED BY <1>9, <3>1, <3>2 DEF StopAll, Stops
  <2> QED BY <1>9, <2>1 DEF StopAll, TypeOK, inbox, calls, disk, journal, bounds
<1> QED BY <1>1, <1>2, <1>3, <1>4, <1>5, <1>6, <1>7, <1>8, <1>9 DEF BootSteps

\* Asking for a slot.
LEMMA AcquireType ==
  ASSUME TypeOK, NEW i \in Agents, Acquire(i)
  PROVE  /\ pc' \in [Agents -> Paths] /\ active' \in Nat
         /\ holds' \subseteq Agents /\ waiters' \in Seq(Agents)
<1>1. CASE UNCHANGED slots /\ pc' = [pc EXCEPT ![i] = "turned away"]
  BY <1>1 DEF TypeOK, Paths, slots
<1>2. CASE /\ pc' = [pc EXCEPT ![i] = "granted"]
           /\ active' = active + 1 /\ holds' = holds \cup {i} /\ UNCHANGED waiters
  <2>1. pc' \in [Agents -> Paths]
    BY <1>2 DEF TypeOK, Paths
  <2>2. active' \in Nat
    BY <1>2 DEF TypeOK
  <2>3. holds' \subseteq Agents /\ waiters' \in Seq(Agents)
    BY <1>2 DEF TypeOK
  <2> QED BY <2>1, <2>2, <2>3
<1>3. CASE /\ pc' = [pc EXCEPT ![i] = "waiting"]
           /\ waiters' = Append(waiters, i) /\ UNCHANGED <<active, holds>>
  <2>1. pc' \in [Agents -> Paths]
    BY <1>3 DEF TypeOK, Paths
  <2>2. waiters' \in Seq(Agents)
    BY <1>3 DEF TypeOK
  <2>3. holds' \subseteq Agents /\ active' \in Nat
    BY <1>3 DEF TypeOK
  <2> QED BY <2>1, <2>2, <2>3
<1> QED BY <1>1, <1>2, <1>3 DEF Acquire

\* The messages of the runner and their queue.
LEMMA TypeInbox ==
  ASSUME TypeOK, InboxInv,
         \/ ScriptEmits \/ \E s \in Terminal \ {"stopped"} : ScriptEnds(s)
         \/ \E i \in Agents : ScriptCalls(i)
         \/ QueueSteps \/ RegisterFails \/ EmitFails
  PROVE  TypeOK'
<1>a. tail \in Seq(Messages)
  BY DEF TypeOK, Messages
<1>0. ASSUME NEW m \in Messages, Heard(m) PROVE tail' \in Seq(Agents \cup {"emit"} \cup Terminal)
  <2>1. tail' \in Seq(Messages)
    BY <1>a, <1>0 DEF Heard
  <2> QED BY <2>1 DEF Messages
<1>b. Ready => tail # <<>>
  BY DEF Ready
<1>c. busy => tail # <<>>
  BY DEF InboxInv
<1>h. ASSUME tail # <<>>, Handled PROVE tail' \in Seq(Agents \cup {"emit"} \cup Terminal) /\ busy' \in BOOLEAN
  <2>1. tail' \in Seq(Messages) /\ busy' \in BOOLEAN
    BY <1>h, HandledType
  <2> QED BY <2>1 DEF Messages
<1>1. CASE ScriptEmits
  <2>1. tail' \in Seq(Agents \cup {"emit"} \cup Terminal)
    BY <1>0, <1>1 DEF ScriptEmits, Messages
  <2>3. /\ UNCHANGED <<accepting, boot, asked, intent, seen, busy, runner, active, holds, waiters, pc>>
        /\ UNCHANGED <<cand, draft, handle, fin, stuck, again, owed, reports, rec, res, end, torn, facts>>
        /\ UNCHANGED <<host, failures, crashes>>
    BY <1>1 DEF ScriptEmits, service, slots, calls, final, report, disk, journal, bounds
  <2>2. script' \in [calls : SUBSET Agents, emits : Nat]
    <3>1. script' = [script EXCEPT !.emits = script.emits - 1] /\ script.emits > 0
      BY <1>1 DEF ScriptEmits
    <3>2. script.emits - 1 \in Nat /\ script \in [calls : SUBSET Agents, emits : Nat]
      BY <3>1 DEF TypeOK
    <3> QED BY <3>1, <3>2
  <2> QED BY <2>1, <2>2, <2>3 DEF TypeOK
<1>2. ASSUME NEW s \in Terminal \ {"stopped"}, ScriptEnds(s) PROVE TypeOK'
  <2>1. tail' \in Seq(Agents \cup {"emit"} \cup Terminal)
    BY <1>0, <1>2 DEF ScriptEnds, Messages
  <2> QED BY <1>2, <2>1 DEF ScriptEnds, TypeOK, service, slots, calls, final, report, disk, journal, bounds
<1>3. ASSUME NEW i \in Agents, ScriptCalls(i) PROVE TypeOK'
  <2>1. tail' \in Seq(Agents \cup {"emit"} \cup Terminal)
    BY <1>0, <1>3 DEF ScriptCalls, Messages
  <2>2. pc' \in [Agents -> Paths]
    BY <1>3 DEF ScriptCalls, TypeOK, Paths
  <2> QED BY <1>3, <2>1, <2>2 DEF ScriptCalls, TypeOK, service, slots, final, report, disk, journal, bounds
<1>4. CASE AgentRefused
  <2>1. tail' \in Seq(Agents \cup {"emit"} \cup Terminal) /\ busy' \in BOOLEAN
    BY <1>b, <1>h, <1>4 DEF AgentRefused
  <2>2. /\ intent' \in Results /\ owed' \in BOOLEAN /\ waiters' \in Seq(Agents)
        /\ fin' \in Ends /\ stuck' \in BOOLEAN /\ again' \in BOOLEAN
    <3>1. CASE RequestTerminal("failed")
      BY <3>1, RequestType DEF Terminal
    <3>2. CASE UNCHANGED <<intent, owed, waiters, final>>
      BY <3>2 DEF TypeOK, final
    <3> QED BY <1>4, <3>1, <3>2 DEF AgentRefused
  <2>3. pc' \in [Agents -> Paths]
    BY <1>4 DEF AgentRefused, TypeOK, Paths
  <2> QED BY <1>4, <2>1, <2>2, <2>3 DEF AgentRefused, TypeOK, service, disk, journal, bounds
<1>5. CASE AgentStarts
  <2>1. pc' \in [Agents -> Paths] /\ draft' \in [Agents -> Marks]
    BY <1>5 DEF AgentStarts, TypeOK, Paths, Marks
  <2> QED BY <1>5, <2>1 DEF AgentStarts, TypeOK, service, slots, final, report, disk, journal, bounds
<1>6. CASE Registered
  <2>1. tail' \in Seq(Agents \cup {"emit"} \cup Terminal) /\ busy' \in BOOLEAN
    BY <1>c, <1>h, <1>6 DEF Registered
  <2>2. rec' \in [status : {"running"} \cup Results, agents : [Agents -> Marks]]
    BY <1>6, PublishType DEF Registered
  <2>3. /\ pc' \in [Agents -> Paths] /\ active' \in Nat
        /\ holds' \subseteq Agents /\ waiters' \in Seq(Agents)
    <3>1. Message \in Agents /\ Acquire(Message)
      BY <1>6 DEF Registered
    <3> QED BY <3>1, AcquireType
  <2> QED BY <1>6, <2>1, <2>2, <2>3 DEF Registered, TypeOK, service, final, report, bounds, journal
<1>7. CASE RegisterFails
  <2>1. tail' \in Seq(Agents \cup {"emit"} \cup Terminal) /\ busy' \in BOOLEAN
    BY <1>c, <1>h, <1>7 DEF RegisterFails
  <2>2. RequestTerminal("failed") /\ "failed" \in Terminal
    BY <1>7 DEF RegisterFails, Terminal
  <2>3. pc' \in [Agents -> Paths]
    BY <1>7 DEF RegisterFails, TypeOK, Paths
  <2>4. failures' \in Nat
    BY <1>7 DEF RegisterFails, Broke, TypeOK
  <2> QED BY <1>7, <2>1, <2>2, <2>3, <2>4, RequestType DEF RegisterFails, TypeOK, service, disk, journal
<1>8. CASE EmitWritten
  <2>1. tail' \in Seq(Agents \cup {"emit"} \cup Terminal) /\ busy' \in BOOLEAN
    BY <1>b, <1>h, <1>8 DEF EmitWritten
  <2>2. rec' \in [status : {"running"} \cup Results, agents : [Agents -> Marks]]
    BY <1>8, PublishType DEF EmitWritten, TypeOK
  <2> QED BY <1>8, <2>1, <2>2 DEF EmitWritten, TypeOK, service, slots, calls, final, report, bounds, journal
<1>9. CASE EmitFails
  <2>1. tail' \in Seq(Agents \cup {"emit"} \cup Terminal) /\ busy' \in BOOLEAN
    BY <1>b, <1>h, <1>9 DEF EmitFails
  <2>2. RequestTerminal("failed") /\ "failed" \in Terminal
    BY <1>9 DEF EmitFails, Terminal
  <2>3. failures' \in Nat
    BY <1>9 DEF EmitFails, Broke, TypeOK
  <2>4. torn' \in BOOLEAN
    BY <1>9 DEF EmitFails, TypeOK
  <2> QED BY <1>9, <2>1, <2>2, <2>3, <2>4, RequestType DEF EmitFails, TypeOK, service, calls
<1>10. CASE ResultHandled
  <2>1. tail' \in Seq(Agents \cup {"emit"} \cup Terminal) /\ busy' \in BOOLEAN
    BY <1>b, <1>h, <1>10 DEF ResultHandled
  <2>2. /\ intent' \in Results /\ owed' \in BOOLEAN /\ waiters' \in Seq(Agents)
        /\ fin' \in Ends /\ stuck' \in BOOLEAN /\ again' \in BOOLEAN
    <3>1. CASE intent = None
      BY <1>10, <3>1, ReserveType, EnsureType DEF ResultHandled
    <3>2. CASE intent # None
      BY <1>10, <3>2 DEF ResultHandled, TypeOK, final
    <3> QED BY <3>1, <3>2
  <2> QED BY <1>10, <2>1, <2>2 DEF ResultHandled, TypeOK, service, calls, disk, journal, bounds
<1> QED BY <1>1, <1>2, <1>3, <1>4, <1>5, <1>6, <1>7, <1>8, <1>9, <1>10 DEF QueueSteps

\* A call that was lost: the run ends, and its slot is given back.
LEMMA LostType ==
  ASSUME TypeOK, SlotInv, NEW i \in Agents, Lost(i)
  PROVE  /\ intent' \in Results /\ owed' \in BOOLEAN
         /\ fin' \in Ends /\ stuck' \in BOOLEAN /\ again' \in BOOLEAN
         /\ pc' \in [Agents -> Paths] /\ active' \in Nat
         /\ holds' \subseteq Agents /\ waiters' \in Seq(Agents)
         /\ active' = Cardinality(holds') /\ active' <= Slots
<1>1. RequestTerminal("failed") /\ "failed" \in Terminal
  BY DEF Lost, Terminal
<1>2. Release(i, [pc EXCEPT ![i] = "lost"], <<>>)
  BY DEF Lost
<1>3. [pc EXCEPT ![i] = "lost"] \in [Agents -> Paths] /\ <<>> \in Seq(Agents)
  <2>1. pc \in [Agents -> Paths] /\ "lost" \in Paths
    BY DEF TypeOK, Paths
  <2> QED BY <2>1
<1> QED BY <1>1, <1>2, <1>3, RequestType, ReleaseCounts

\* A completion that threw.
LEMMA ThrownType ==
  ASSUME TypeOK, SlotInv, NEW i \in Agents, Thrown(i)
  PROVE  /\ intent' \in Results /\ owed' \in BOOLEAN
         /\ fin' \in Ends /\ stuck' \in BOOLEAN /\ again' \in BOOLEAN
         /\ pc' \in [Agents -> Paths] /\ active' \in Nat
         /\ holds' \subseteq Agents /\ waiters' \in Seq(Agents)
         /\ active' = Cardinality(holds') /\ active' <= Slots
<1>1. CASE fin = "leftovers"
  <2>1. FinalizeFails /\ pc' = [pc EXCEPT ![i] = "lost"] /\ UNCHANGED <<intent, owed, active, holds, waiters>>
    BY <1>1 DEF Thrown, slots
  <2>2. pc' \in [Agents -> Paths]
    BY <2>1 DEF TypeOK, Paths
  <2> QED BY <2>1, <2>2, FinalizeFailsType DEF TypeOK, SlotInv
<1>2. CASE fin # "leftovers"
  BY <1>2, LostType DEF Thrown
<1> QED BY <1>1, <1>2

\* The calls.
LEMMA TypeCalls ==
  ASSUME TypeOK, SlotInv, NEW i \in Agents,
         \/ AgentSteps(i) \/ RecordFails(i) \/ JournalFails(i) \/ StoreFails(i)
         \/ \E s \in Terminal : TurnSettles(i, s)
  PROVE  TypeOK'
<1>a. "stopped" \in Terminal /\ Blamed \in Terminal
  BY BlamedType DEF Terminal
<1>b. ASSUME NEW s \in Terminal, Completes(i, s),
             UNCHANGED <<service, intent, inbox, runner, slots, handle, final, report, disk, host, bounds>>
      PROVE  TypeOK'
  BY <1>b, CompletesType DEF TypeOK, service, inbox, slots, final, report, disk, journal, bounds
<1>1. CASE TurnedAway(i)
  BY <1>a, <1>b, <1>1 DEF TurnedAway
<1>2. CASE Granted(i)
  <2>1. cand' \in [Agents -> Results] /\ draft' \in [Agents -> Marks] /\ pc' \in [Agents -> Paths]
    <3>1. CASE Completes(i, "stopped")
      BY <1>a, <3>1, CompletesType
    <3>2. CASE ~Completes(i, "stopped")
      BY <1>2, <3>2 DEF Granted, TypeOK, Marks, Paths
    <3> QED BY <3>1, <3>2
  <2> QED BY <1>2, <2>1 DEF Granted, TypeOK, service, inbox, slots, final, report, disk, journal, bounds
<1>3. CASE Recorded(i)
  <2>1. cand' \in [Agents -> Results] /\ draft' \in [Agents -> Marks] /\ pc' \in [Agents -> Paths]
    <3>1. CASE Completes(i, "stopped")
      BY <1>a, <3>1, CompletesType
    <3>2. CASE ~Completes(i, "stopped")
      BY <1>3, <3>2 DEF Recorded, TypeOK, Paths
    <3> QED BY <3>1, <3>2
  <2>2. rec' \in [status : {"running"} \cup Results, agents : [Agents -> Marks]]
    BY <1>3, PublishType DEF Recorded
  <2> QED BY <1>3, <2>1, <2>2 DEF Recorded, TypeOK, service, inbox, slots, final, report, bounds, journal
<1>4. CASE TeammateCreated(i)
  <2>1. pc' \in [Agents -> Paths] /\ handle' \in [Agents -> {None, "open", "closed", "unclosed", "unlocked"}]
    BY <1>4 DEF TeammateCreated, TypeOK, Paths
  <2> QED BY <1>4, <2>1 DEF TeammateCreated, TypeOK, service, inbox, slots, final, report, disk, journal, bounds
<1>5. CASE TeammateFails(i)
  BY <1>a, <1>b, <1>5 DEF TeammateFails
<1>6. CASE Admitted(i)
  <2>1. pc' \in [Agents -> Paths]
    BY <1>6 DEF Admitted, TypeOK, Paths
  <2> QED BY <1>6, <2>1 DEF Admitted, TypeOK, service, inbox, slots, final, report, disk, journal, bounds
<1>7. ASSUME NEW s \in Terminal, NotAdmitted(i, s) \/ TurnSettles(i, s) PROVE TypeOK'
  BY <1>b, <1>7 DEF NotAdmitted, TurnSettles
<1>8. ASSUME Thrown(i),
             UNCHANGED <<service, inbox, runner, cand, draft, handle, reports, rec, end, host, crashes>>,
             res' \in [Agents -> Results], failures' \in Nat, torn' \in BOOLEAN, facts' \in BOOLEAN
      PROVE  TypeOK'
  <2>1. /\ intent' \in Results /\ owed' \in BOOLEAN
        /\ fin' \in Ends /\ stuck' \in BOOLEAN /\ again' \in BOOLEAN
        /\ pc' \in [Agents -> Paths] /\ active' \in Nat
        /\ holds' \subseteq Agents /\ waiters' \in Seq(Agents)
    BY <1>8, ThrownType
  <2> QED BY <1>8, <2>1 DEF TypeOK, service, inbox
<1>9. CASE Journaled(i)
  <2>1. /\ res' \in [Agents -> Results] /\ failures' \in Nat
        /\ torn' \in BOOLEAN /\ facts' \in BOOLEAN
    BY <1>9 DEF Journaled, TypeOK, bounds
  <2>2. CASE Readable /\ Agrees(i)
    <3>1. pc' \in [Agents -> Paths]
      <4>1. pc \in [Agents -> Paths] /\ "storing" \in Paths
        BY DEF TypeOK, Paths
      <4> QED BY <1>9, <2>2, <4>1 DEF Journaled, journal
    <3> QED BY <1>9, <2>1, <2>2, <3>1 DEF Journaled, TypeOK, service, inbox, slots, final, bounds, journal
  <2>3. CASE ~(Readable /\ Agrees(i))
    BY <1>8, <1>9, <2>1, <2>3 DEF Journaled, bounds
  <2> QED BY <2>2, <2>3
<1>10. CASE JournalFails(i)
  <2>1. res' \in [Agents -> Results]
    BY <1>10 DEF JournalFails, TypeOK
  <2>2. failures' \in Nat
    BY <1>10 DEF JournalFails, Broke, TypeOK
  <2>3. torn' \in BOOLEAN /\ facts' \in BOOLEAN
    BY <1>10 DEF JournalFails, TypeOK
  <2> QED BY <1>8, <1>10, <2>1, <2>2, <2>3 DEF JournalFails
<1>11. CASE Stored(i)
  <2>1. Release(i, [pc EXCEPT ![i] = "done"], waiters) /\ Publish(draft)
    BY <1>11 DEF Stored
  <2>2. [pc EXCEPT ![i] = "done"] \in [Agents -> Paths] /\ waiters \in Seq(Agents)
    BY DEF TypeOK, Paths
  <2>3. /\ pc' \in [Agents -> Paths] /\ active' \in Nat
        /\ holds' \subseteq Agents /\ waiters' \in Seq(Agents)
    BY <2>1, <2>2, ReleaseCounts
  <2> QED BY <1>11, <2>1, <2>3, PublishType DEF Stored, TypeOK, service, inbox, final, report, bounds, journal
<1>12. CASE StoreFails(i)
  <2>1. failures' \in Nat
    BY <1>12 DEF StoreFails, Broke, TypeOK
  <2> QED BY <1>8, <1>12, <2>1 DEF StoreFails, disk, journal, TypeOK
<1>13. CASE RecordFails(i)
  <2>1. failures' \in Nat
    BY <1>13 DEF RecordFails, Broke, TypeOK
  <2>2. Lost(i)
    BY <1>13 DEF RecordFails
  <2>3. torn' \in BOOLEAN
    BY <1>13 DEF RecordFails, TypeOK
  <2> QED BY <1>13, <2>1, <2>2, <2>3, LostType DEF RecordFails, TypeOK, service, inbox
<1> QED BY <1>1, <1>2, <1>3, <1>4, <1>5, <1>6, <1>7, <1>9, <1>10, <1>11, <1>12, <1>13 DEF AgentSteps

\* The end of a run.
LEMMA TypeFinal ==
  ASSUME TypeOK, FinalSteps \/ EndFails \/ WriteFails
  PROVE  TypeOK'
<1>1. CASE RunnerStopped
  <2>1. fin' \in Ends /\ failures' \in Nat /\ stuck' \in BOOLEAN
    <3>1. fin' \in Ends
      BY <1>1 DEF RunnerStopped, Ends
    <3>2. failures' \in Nat
      BY <1>1 DEF RunnerStopped, Broke, TypeOK
    <3>3. stuck' \in BOOLEAN
      BY <1>1 DEF RunnerStopped, TypeOK
    <3> QED BY <3>1, <3>2, <3>3
  <2>2. runner' \in {None, "spawning", "up", "gone"}
    BY <1>1 DEF RunnerStopped, TypeOK
  <2> QED BY <1>1, <2>1, <2>2 DEF RunnerStopped, TypeOK, service, inbox, slots, calls, report, disk, journal
<1>2. CASE HandlesKnown
  BY <1>2 DEF HandlesKnown, TypeOK, Ends, service, inbox, slots, calls, report, disk, journal, bounds
<1>3. ASSUME NEW i \in Agents, HandleClosed(i) PROVE TypeOK'
  <2>1. handle' \in [Agents -> {None, "open", "closed", "unclosed", "unlocked"}]
    BY <1>3 DEF HandleClosed, TypeOK
  <2>2. failures' \in Nat
    BY <1>3 DEF HandleClosed, Broke, TypeOK
  <2> QED BY <1>3, <2>1, <2>2 DEF HandleClosed, TypeOK, service, inbox, slots, final, report, disk, journal
<1>4. CASE ClosesSettled
  <2>1. handle' \in [Agents -> {None, "open", "closed", "unclosed", "unlocked"}]
    BY <1>4 DEF ClosesSettled, TypeOK
  <2>2. fin' \in Ends /\ stuck' \in BOOLEAN /\ again' \in BOOLEAN
    <3>1. CASE FinalizeFails
      BY <3>1, FinalizeFailsType
    <3>2. CASE ~FinalizeFails
      BY <1>4, <3>2 DEF ClosesSettled, TypeOK, Ends
    <3> QED BY <3>1, <3>2
  <2> QED BY <1>4, <2>1, <2>2 DEF ClosesSettled, TypeOK, service, inbox, slots, report, disk, journal, bounds
<1>5. CASE Drained
  BY <1>5 DEF Drained, TypeOK, Ends, service, inbox, slots, calls, report, disk, journal, bounds
<1>6. ASSUME NEW i \in Agents, Leftover(i) PROVE TypeOK'
  <2>1. Completes(i, "stopped") /\ "stopped" \in Terminal
    BY <1>6 DEF Leftover, Terminal
  <2> QED BY <1>6, <2>1, CompletesType DEF Leftover, TypeOK, service, inbox, slots, final, report, disk, journal, bounds
<1>7. CASE Completed
  <2>1. fin' \in Ends /\ stuck' \in BOOLEAN /\ again' \in BOOLEAN
    <3>1. CASE FinalizeFails
      BY <3>1, FinalizeFailsType
    <3>2. CASE ~FinalizeFails
      BY <1>7, <3>2 DEF Completed, TypeOK, Ends
    <3> QED BY <3>1, <3>2
  <2> QED BY <1>7, <2>1 DEF Completed, TypeOK, service, inbox, slots, calls, report, disk, journal, bounds
<1>8. CASE EndJournaled
  <2>1. fin' \in Ends /\ stuck' \in BOOLEAN /\ again' \in BOOLEAN
    <3>1. CASE FinalizeFails
      BY <3>1, FinalizeFailsType
    <3>2. CASE fin' = "writing" /\ UNCHANGED <<stuck, again>>
      BY <3>2 DEF TypeOK, Ends
    <3> QED BY <1>8, <3>1, <3>2 DEF EndJournaled
  <2>2. end' \in Results /\ facts' \in BOOLEAN
    BY <1>8 DEF EndJournaled, TypeOK
  <2> QED BY <1>8, <2>1, <2>2 DEF EndJournaled, TypeOK, service, inbox, slots, calls, report, bounds
<1>9. CASE EndFails
  <2>1. end' \in Results /\ torn' \in BOOLEAN /\ FinalizeFails
    BY <1>9 DEF EndFails, TypeOK
  <2>2. failures' \in Nat
    BY <1>9 DEF EndFails, Broke, TypeOK
  <2> QED BY <1>9, <2>1, <2>2, FinalizeFailsType DEF EndFails, TypeOK, service, inbox, slots, calls, report
<1>10. CASE EndWritten
  <2>1. rec' \in [status : {"running"} \cup Results, agents : [Agents -> Marks]]
    BY <1>10 DEF EndWritten, TypeOK
  <2>2. handle' \in [Agents -> {None, "open", "closed", "unclosed", "unlocked"}]
    BY <1>10 DEF EndWritten, Unlocked, TypeOK
  <2>3. fin' \in Ends
    BY <1>10 DEF EndWritten, Ends
  <2> QED BY <1>10, <2>1, <2>2, <2>3 DEF EndWritten, TypeOK, service, inbox, slots, report, bounds, journal
<1>11. CASE WriteFails
  <2>1. failures' \in Nat /\ FinalizeFails
    BY <1>11 DEF WriteFails, Broke, TypeOK
  <2> QED BY <1>11, <2>1, FinalizeFailsType DEF WriteFails, TypeOK, service, inbox, slots, calls, report, disk, journal
<1>12. CASE Delivered
  <2>1. fin' \in Ends /\ reports' \in Nat
    BY <1>12 DEF Delivered, TypeOK, Ends
  <2> QED BY <1>12, <2>1 DEF Delivered, TypeOK, service, inbox, slots, calls, disk, journal, bounds
<1> QED BY <1>1, <1>2, <1>3, <1>4, <1>5, <1>6, <1>7, <1>8, <1>9, <1>10, <1>11, <1>12 DEF FinalSteps

\* The death of the host, and the recovery of the record.
LEMMA TypeRecovery ==
  ASSUME TypeOK, Crash \/ RecoverySteps \/ RecoveryFails \/ UNCHANGED vars
  PROVE  TypeOK'
<1>0. "stopped" \in Results /\ "stopped" \in Marks /\ None \in Results /\ None \in Marks
  BY DEF Results, Marks, Terminal
<1>1. CASE Crash
  <2>1. host' \in {"up", "reading", "backfilling", "writing", "refused"} /\ crashes' \in Nat
    BY <1>1 DEF Crash, TypeOK
  <2>2. boot' \in Boots /\ fin' \in Ends /\ intent' \in Results /\ pc' \in [Agents -> Paths]
    BY <1>0, <1>1 DEF Crash, Restarted, Boots, Ends, Paths
  <2>3. tail' \in Seq(Agents \cup {"emit"} \cup Terminal) /\ waiters' \in Seq(Agents)
    BY <1>1 DEF Crash, Restarted
  <2>4. cand' \in [Agents -> Results] /\ draft' \in [Agents -> Marks]
        /\ handle' \in [Agents -> {None, "open", "closed", "unclosed", "unlocked"}]
    BY <1>0, <1>1 DEF Crash, Restarted
  <2>5. /\ accepting' = TRUE /\ seen' = FALSE /\ busy' = FALSE /\ runner' = None
        /\ active' = 0 /\ holds' = {} /\ stuck' = FALSE /\ again' = FALSE
        /\ owed' = TRUE /\ reports' = 0 /\ asked' = FALSE /\ facts' = FALSE
        /\ UNCHANGED <<script, rec, res, end, failures>>
    BY <1>1 DEF Crash, Restarted
  <2>6. torn' \in BOOLEAN
    BY <1>1 DEF Crash, Appending, TypeOK
  <2> QED BY <2>1, <2>2, <2>3, <2>4, <2>5, <2>6 DEF TypeOK
<1>2. CASE RecoveryReads
  <2>1. draft' \in [Agents -> Marks]
    BY <1>2 DEF RecoveryReads, Adopted, TypeOK, Marks
  <2>2. host' \in {"up", "reading", "backfilling", "writing", "refused"}
    BY <1>2 DEF RecoveryReads
  <2> QED BY <1>2, <2>1, <2>2 DEF RecoveryReads, TypeOK, service, inbox, slots, final, report, disk, journal, bounds
<1>3. ASSUME NEW i \in Agents, Backfills(i) PROVE TypeOK'
  <2>1. draft' \in [Agents -> Marks] /\ res' \in [Agents -> Results]
    BY <1>0, <1>3 DEF Backfills, TypeOK
  <2> QED BY <1>3, <2>1 DEF Backfills, TypeOK, service, inbox, slots, final, report, bounds
<1>4. CASE EndBackfilled
  BY <1>0, <1>4 DEF EndBackfilled, TypeOK, service, inbox, slots, calls, final, report, bounds
<1>5. CASE Recovered
  <2>1. draft' \in [Agents -> Marks] /\ rec' \in [status : {"running"} \cup Results, agents : [Agents -> Marks]]
    BY <1>0, <1>5 DEF Recovered, TypeOK
  <2> QED BY <1>5, <2>1 DEF Recovered, TypeOK, service, inbox, slots, final, report, bounds, journal
<1>6. CASE RecoveryFails
  <2>1. /\ res' \in [Agents -> Results] /\ end' \in Results /\ draft' \in [Agents -> Marks]
        /\ torn' \in BOOLEAN
    BY <1>0, <1>6 DEF RecoveryFails, TypeOK
  <2>2. failures' \in Nat /\ host' \in {"up", "reading", "backfilling", "writing", "refused"}
    BY <1>6 DEF RecoveryFails, Broke, TypeOK
  <2> QED BY <1>6, <2>1, <2>2 DEF RecoveryFails, TypeOK, service, inbox, slots, final, report
<1>7. CASE UNCHANGED vars
  BY <1>7 DEF vars, TypeOK, service, inbox, slots, calls, final, report, disk, journal, bounds
<1> QED BY <1>1, <1>2, <1>3, <1>4, <1>5, <1>6, <1>7 DEF RecoverySteps

\* Every step keeps the types.
LEMMA TypeNext ==
  ASSUME TypeOK, InboxInv, SlotInv, [Next]_vars
  PROVE  TypeOK'
  BY TypeBoot, TypeInbox, TypeCalls, TypeFinal, TypeRecovery DEF Next

\* The initial states have them.
LEMMA TypeInit == Init => TypeOK
<1> SUFFICES ASSUME Init PROVE TypeOK
  OBVIOUS
<1>1. None \in Results /\ None \in Marks /\ None \in Boots /\ None \in Ends /\ "idle" \in Paths
  BY DEF Results, Marks, Boots, Ends, Paths
<1>2. rec \in [status : {"running"} \cup Results, agents : [Agents -> Marks]]
  BY <1>1 DEF Init, Absent
<1>3. script \in [calls : SUBSET Agents, emits : Nat]
  BY RunAssumption DEF Init
<1>4. /\ accepting \in BOOLEAN /\ boot \in Boots /\ intent \in Results
      /\ asked = FALSE /\ torn = FALSE /\ facts = FALSE
      /\ seen \in BOOLEAN /\ tail = <<>> /\ waiters = <<>> /\ busy \in BOOLEAN /\ runner = None
      /\ fin \in Ends /\ stuck \in BOOLEAN /\ again \in BOOLEAN /\ owed \in BOOLEAN
  BY <1>1 DEF Init, Fresh
<1>5. /\ pc \in [Agents -> Paths] /\ active = 0 /\ holds = {}
      /\ cand \in [Agents -> Results] /\ draft \in [Agents -> Marks]
      /\ handle \in [Agents -> {None, "open", "closed", "unclosed", "unlocked"}]
      /\ res \in [Agents -> Results]
  BY <1>1 DEF Init, Fresh
<1>6. end = None /\ host = "up" /\ failures = 0 /\ crashes = 0 /\ reports = 0
  BY DEF Init, Fresh
<1>7. tail \in Seq(Messages) /\ waiters \in Seq(Agents)
  BY <1>4
<1> QED BY <1>1, <1>2, <1>3, <1>4, <1>5, <1>6, <1>7 DEF TypeOK, Messages

----------------------------------------
(* The inbox                                                               *)

Named == {"asked", "registering"}

\* Steps that handle no message and move no call that one names.
LEMMA InboxKept ==
  ASSUME TypeOK, InboxInv, UNCHANGED <<tail, busy>>,
         \A i \in Agents : pc[i] \in Named => pc'[i] = pc[i]
  PROVE  InboxInv'
  BY DEF InboxInv, Named

\* A message is handled.
LEMMA InboxTaken ==
  ASSUME TypeOK, InboxInv, tail # <<>>, Handled,
         \A i \in Agents : pc[i] \in Named /\ i # Message => pc'[i] = pc[i]
  PROVE  InboxInv'
<1>1. /\ tail' = Tail(tail) /\ busy' = FALSE
      /\ \A k \in 1..Len(tail') : k + 1 \in 1..Len(tail) /\ tail'[k] = tail[k + 1] /\ k + 1 # 1
      /\ Message = tail[1] /\ 1 \in 1..Len(tail)
  BY DEF Handled, Message, TypeOK
<1>2. ASSUME NEW k \in 1..Len(tail'), tail'[k] \in Agents PROVE pc'[tail'[k]] = "asked"
  <2>1. k + 1 \in 1..Len(tail) /\ tail'[k] = tail[k + 1] /\ k + 1 # 1 /\ tail[k + 1] \in Agents
    BY <1>1, <1>2
  <2>2. pc[tail[k + 1]] = "asked"
    BY <2>1 DEF InboxInv
  <2>3. tail[k + 1] # Message
    BY <1>1, <2>1 DEF InboxInv
  <2> QED BY <2>1, <2>2, <2>3 DEF Named
<1>3. ASSUME NEW k \in 1..Len(tail'), NEW l \in 1..Len(tail'), tail'[k] = tail'[l], tail'[k] \in Agents
      PROVE  k = l
  <2>1. k + 1 = l + 1
    BY <1>1, <1>3 DEF InboxInv
  <2> QED BY <2>1
<1> QED BY <1>1, <1>2, <1>3 DEF InboxInv

\* A message comes.
LEMMA InboxHeard ==
  ASSUME TypeOK, InboxInv, NEW m \in Messages, Heard(m), UNCHANGED busy,
         \A i \in Agents : pc[i] \in Named => pc'[i] = pc[i],
         m \in Agents => pc[m] \notin Named /\ pc'[m] = "asked"
  PROVE  InboxInv'
<1>1. /\ Len(tail) \in Nat /\ Len(tail') = Len(tail) + 1 /\ tail'[Len(tail) + 1] = m
      /\ \A k \in 1..Len(tail) : tail'[k] = tail[k]
      /\ tail' # <<>>
  <2>1. tail \in Seq(Messages)
    BY DEF TypeOK, Messages
  <2> QED BY <2>1 DEF Heard
<1>2. \A k \in 1..Len(tail') : k = Len(tail) + 1 \/ k \in 1..Len(tail)
  BY <1>1
<1>3. \A k \in 1..Len(tail) : tail[k] \in Agents => pc[tail[k]] \in Named
  BY DEF InboxInv, Named
<1>4. busy => Len(tail) # 0 /\ 1 \in 1..Len(tail)
  <2>1. busy => tail # <<>> /\ tail \in Seq(Messages)
    BY DEF InboxInv, TypeOK, Messages
  <2> QED BY <2>1
<1>5. busy' => tail' # <<>> /\ tail'[1] \in Agents
  BY <1>1, <1>4 DEF InboxInv
<1>6. ASSUME NEW k \in 1..Len(tail'), tail'[k] \in Agents
      PROVE  pc'[tail'[k]] = IF k = 1 /\ busy' THEN "registering" ELSE "asked"
  <2>1. CASE k = Len(tail) + 1
    BY <1>1, <1>4, <1>6, <2>1
  <2>2. CASE k \in 1..Len(tail)
    BY <1>1, <1>3, <1>6, <2>2 DEF InboxInv
  <2> QED BY <1>2, <2>1, <2>2
<1>7. ASSUME NEW k \in 1..Len(tail'), NEW l \in 1..Len(tail'), tail'[k] = tail'[l], tail'[k] \in Agents
      PROVE  k = l
  <2>1. CASE k \in 1..Len(tail) /\ l \in 1..Len(tail)
    BY <1>1, <1>7, <2>1 DEF InboxInv
  <2>2. CASE k = Len(tail) + 1 \/ l = Len(tail) + 1
    BY <1>1, <1>2, <1>3, <1>7, <2>2
  <2> QED BY <1>2, <2>1, <2>2
<1> QED BY <1>5, <1>6, <1>7 DEF InboxInv

\* A call that another one's step moves is one that waited, and has a slot now.
Stays(j) == pc'[j] = pc[j] \/ (pc[j] = "waiting" /\ pc'[j] = "granted")

\* Giving a slot back moves the call and one that waited.
LEMMA ReleaseMoves ==
  ASSUME TypeOK, SlotInv, NEW i \in Agents, NEW p \in Paths, NEW left, left = waiters \/ left = <<>>,
         pc[i] # "waiting", Release(i, [pc EXCEPT ![i] = p], left)
  PROVE  pc'[i] = p /\ \A j \in Agents : j # i => Stays(j)
<1>1. CASE i \in holds /\ left # <<>>
  <2>1. left = waiters /\ left # <<>> /\ waiters \in Seq(Agents)
    BY <1>1 DEF TypeOK
  <2>2. Head(left) = waiters[1] /\ 1 \in 1..Len(waiters)
    BY <2>1
  <2>3. pc[Head(left)] = "waiting"
    BY <2>2 DEF SlotInv
  <2>4. pc' = [[pc EXCEPT ![i] = p] EXCEPT ![Head(left)] = "granted"]
    BY <1>1 DEF Release
  <2> QED BY <2>3, <2>4 DEF TypeOK, Stays
<1>2. CASE ~(i \in holds /\ left # <<>>)
  <2>1. pc' = [pc EXCEPT ![i] = p]
    BY <1>2 DEF Release
  <2> QED BY <2>1 DEF TypeOK, Stays
<1> QED BY <1>1, <1>2

\* What a step of a call moves: that call, and one that waited.
LEMMA CallMoves ==
  ASSUME TypeOK, SlotInv, NEW i \in Agents,
         \/ AgentSteps(i) \/ RecordFails(i) \/ JournalFails(i) \/ StoreFails(i) \/ Leftover(i)
         \/ \E s \in Terminal : TurnSettles(i, s)
  PROVE  /\ UNCHANGED inbox /\ pc[i] \notin Named
         /\ \A j \in Agents : j # i => Stays(j)
<1>0. pc \in [Agents -> Paths] /\ "lost" \in Paths /\ "done" \in Paths
  BY DEF TypeOK, Paths
<1>1. UNCHANGED inbox
  BY DEF AgentSteps, RecordFails, JournalFails, StoreFails, Leftover, TurnSettles, TurnedAway, Granted,
         Recorded, TeammateCreated, TeammateFails, Admitted, NotAdmitted, Journaled, Stored
<1>2. pc[i] \notin Named
  BY DEF AgentSteps, RecordFails, JournalFails, StoreFails, Leftover, TurnSettles, TurnedAway, Granted,
         Recorded, TeammateCreated, TeammateFails, Admitted, NotAdmitted, Journaled, Stored, Named
<1> SUFFICES \A j \in Agents : j # i => Stays(j)
  BY <1>1, <1>2
<1>a. ASSUME \E p : pc' = [pc EXCEPT ![i] = p] PROVE \A j \in Agents : j # i => Stays(j)
  BY <1>0, <1>a DEF Stays
<1>b. ASSUME NEW s, Completes(i, s) PROVE \A j \in Agents : j # i => Stays(j)
  BY <1>a, <1>b DEF Completes
<1>c. ASSUME Lost(i), pc[i] # "waiting" PROVE \A j \in Agents : j # i => Stays(j)
  BY <1>0, <1>c, ReleaseMoves DEF Lost
<1>d. ASSUME Thrown(i), pc[i] # "waiting" PROVE \A j \in Agents : j # i => Stays(j)
  BY <1>a, <1>c, <1>d DEF Thrown
<1>3. CASE TurnedAway(i) \/ TeammateFails(i) \/ Leftover(i)
  BY <1>b, <1>3 DEF TurnedAway, TeammateFails, Leftover
<1>4. CASE Granted(i)
  BY <1>a, <1>b, <1>4 DEF Granted
<1>5. CASE Recorded(i)
  BY <1>a, <1>b, <1>5 DEF Recorded
<1>6. CASE TeammateCreated(i) \/ Admitted(i)
  BY <1>a, <1>6 DEF TeammateCreated, Admitted
<1>7. ASSUME NEW s \in Terminal, NotAdmitted(i, s) \/ TurnSettles(i, s)
      PROVE  \A j \in Agents : j # i => Stays(j)
  BY <1>b, <1>7 DEF NotAdmitted, TurnSettles
<1>8. CASE Journaled(i)
  BY <1>a, <1>d, <1>8 DEF Journaled
<1>9. CASE JournalFails(i) \/ StoreFails(i)
  BY <1>d, <1>9 DEF JournalFails, StoreFails
<1>10. CASE Stored(i)
  BY <1>0, <1>10, ReleaseMoves DEF Stored
<1>11. CASE RecordFails(i)
  BY <1>c, <1>11 DEF RecordFails
<1> QED BY <1>3, <1>4, <1>5, <1>6, <1>7, <1>8, <1>9, <1>10, <1>11 DEF AgentSteps

\* Every step keeps the inbox: whom a message names waits for it.
LEMMA InboxNext ==
  ASSUME TypeOK, InboxInv, SlotInv, [Next]_vars
  PROVE  InboxInv'
<1>0. pc \in [Agents -> Paths]
  BY DEF TypeOK
<1>1. ASSUME UNCHANGED <<tail, busy, pc>> PROVE InboxInv'
  BY <1>1, InboxKept
<1>2. CASE Create \/ CreateFails \/ BootSteps \/ Stop \/ StopAll \/ RequestStopAll \/ RunnerExits
  BY <1>1, <1>2 DEF Create, CreateFails, BootSteps, Created, Launched, LaunchFails, Stop, StopAll, Stops, RequestStopAll,
                    RunnerExits, inbox, calls
<1>3. CASE \/ RunnerStopped \/ HandlesKnown \/ ClosesSettled \/ Drained \/ Completed
           \/ EndJournaled \/ EndWritten \/ Delivered \/ EndFails \/ WriteFails
           \/ \E i \in Agents : HandleClosed(i)
  BY <1>1, <1>3 DEF RunnerStopped, HandlesKnown, ClosesSettled, Drained, Completed, EndJournaled, EndWritten,
                    Delivered, EndFails, WriteFails, HandleClosed, inbox, calls
<1>4. CASE RecoverySteps \/ RecoveryFails \/ UNCHANGED vars
  BY <1>1, <1>4 DEF RecoverySteps, RecoveryReads, Backfills, EndBackfilled, Recovered, RecoveryFails,
                    vars, inbox, calls
<1>5. CASE Crash
  <2>1. tail' = <<>> /\ busy' = FALSE /\ 1..Len(tail') = {}
    BY <1>5 DEF Crash, Restarted
  <2> QED BY <2>1 DEF InboxInv
<1>6. ASSUME NEW i \in Agents,
             \/ AgentSteps(i) \/ RecordFails(i) \/ JournalFails(i) \/ StoreFails(i) \/ Leftover(i)
             \/ \E s \in Terminal : TurnSettles(i, s)
      PROVE  InboxInv'
  <2>1. UNCHANGED inbox /\ pc[i] \notin Named /\ \A j \in Agents : j # i => Stays(j)
    BY <1>6, CallMoves
  <2> QED BY <2>1, InboxKept DEF inbox, Named, Stays
<1>7. CASE ScriptEmits
  BY <1>7, InboxHeard, RunAssumption DEF ScriptEmits, Messages, calls
<1>8. ASSUME NEW s \in Terminal \ {"stopped"}, ScriptEnds(s) PROVE InboxInv'
  BY <1>8, InboxHeard, RunAssumption DEF ScriptEnds, Messages, calls
<1>9. ASSUME NEW i \in Agents, ScriptCalls(i) PROVE InboxInv'
  <2>1. Heard(i) /\ UNCHANGED busy /\ pc[i] = "idle" /\ pc' = [pc EXCEPT ![i] = "asked"]
    BY <1>9 DEF ScriptCalls
  <2> QED BY <1>0, <2>1, InboxHeard DEF Messages, Named
<1>10. CASE AgentRefused
  <2>1. tail # <<>> /\ Handled /\ pc' = [pc EXCEPT ![Message] = "refused"]
    BY <1>10 DEF AgentRefused, Ready
  <2> QED BY <1>0, <2>1, InboxTaken
<1>11. CASE Registered
  <2>1. tail # <<>> /\ Handled /\ Acquire(Message)
    BY <1>11 DEF Registered, InboxInv
  <2>2. \E p : pc' = [pc EXCEPT ![Message] = p]
    BY <2>1 DEF Acquire
  <2> QED BY <1>0, <2>1, <2>2, InboxTaken
<1>12. CASE RegisterFails
  <2>1. tail # <<>> /\ Handled /\ pc' = [pc EXCEPT ![Message] = "lost"]
    BY <1>12 DEF RegisterFails, InboxInv
  <2> QED BY <1>0, <2>1, InboxTaken
<1>13. CASE EmitWritten \/ EmitFails \/ ResultHandled
  <2>1. tail # <<>> /\ Handled /\ UNCHANGED pc
    BY <1>13 DEF EmitWritten, EmitFails, ResultHandled, Ready, calls
  <2> QED BY <2>1, InboxTaken
<1>14. CASE AgentStarts
  <2>1. /\ tail # <<>> /\ ~busy /\ Message = tail[1] /\ Message \in Agents /\ busy' = TRUE
        /\ UNCHANGED tail /\ pc' = [pc EXCEPT ![Message] = "registering"]
    BY <1>14 DEF AgentStarts, Ready, Message, TypeOK
  <2>2. 1 \in 1..Len(tail)
    BY <2>1 DEF TypeOK
  <2>3. ASSUME NEW k \in 1..Len(tail), tail[k] \in Agents
        PROVE  pc'[tail[k]] = IF k = 1 THEN "registering" ELSE "asked"
    <3>1. CASE k = 1
      BY <1>0, <2>1, <2>3, <3>1
    <3>2. CASE k # 1
      <4>1. tail[k] # Message /\ pc[tail[k]] = "asked"
        BY <2>1, <2>2, <2>3, <3>2 DEF InboxInv
      <4> QED BY <1>0, <2>1, <2>3, <3>2, <4>1
    <3> QED BY <3>1, <3>2
  <2> QED BY <2>1, <2>3 DEF InboxInv
<1> QED BY <1>2, <1>3, <1>4, <1>5, <1>6, <1>7, <1>8, <1>9, <1>10, <1>11, <1>12, <1>13, <1>14
    DEF Next, FinalSteps, QueueSteps

----------------------------------------
(* The slots                                                               *)

\* Reserving an intent leaves nobody waiting.
LEMMA ReserveClears ==
  ASSUME SlotInv, NEW status, Reserve(status)
  PROVE  waiters' \in {waiters, <<>>} /\ (intent' # None => waiters' = <<>>)
  BY DEF SlotInv, Reserve

\* A waiter is a call that waits, and holds nothing.
LEMMA Waiting ==
  ASSUME TypeOK, SlotInv
  PROVE  /\ waiters \in Seq(Agents)
         /\ \A k \in 1..Len(waiters) : waiters[k] \in Agents \ holds /\ pc[waiters[k]] = "waiting"
<1>1. waiters \in Seq(Agents) /\ \A k \in 1..Len(waiters) : waiters[k] \in Agents
  BY DEF TypeOK
<1>2. \A k \in 1..Len(waiters) : pc[waiters[k]] = "waiting"
  BY DEF SlotInv
<1>3. \A i \in Agents : pc[i] = "waiting" => i \notin holds
  BY DEF SlotInv, Holding, Working
<1> QED BY <1>1, <1>2, <1>3

\* Steps that take and give back no slot: a call that moves keeps what it holds.
LEMMA SlotKept ==
  ASSUME TypeOK, SlotInv, UNCHANGED <<active, holds>>,
         waiters' \in {waiters, <<>>}, intent' # None => waiters' = <<>>,
         \A i \in Agents :
           \/ pc'[i] = pc[i]
           \/ /\ pc[i] # "waiting" \/ waiters' = <<>>
              /\ pc'[i] \in Working => i \in holds
              /\ i \in holds => pc'[i] \in Holding
  PROVE  SlotInv'
<1>1. active' = Cardinality(holds') /\ active' <= Slots
  BY DEF SlotInv
<1>2. \A i \in Agents : (pc'[i] \in Working => i \in holds') /\ (i \in holds' => pc'[i] \in Holding)
  BY DEF SlotInv
<1>3. CASE waiters' = <<>>
  <2>1. 1..Len(waiters') = {}
    BY <1>3
  <2> QED BY <1>1, <1>2, <1>3, <2>1 DEF SlotInv
<1>4. CASE waiters' = waiters /\ waiters # <<>>
  <2>1. ASSUME NEW k \in 1..Len(waiters) PROVE pc'[waiters[k]] = "waiting"
    <3>1. waiters[k] \in Agents /\ pc[waiters[k]] = "waiting"
      BY Waiting
    <3> QED BY <1>4, <3>1
  <2> QED BY <1>1, <1>2, <1>4, <2>1 DEF SlotInv
<1> QED BY <1>3, <1>4

\* The same, when only one call moves.
LEMMA SlotMoves ==
  ASSUME TypeOK, SlotInv, UNCHANGED <<active, holds>>, NEW i \in Agents, NEW p \in Paths,
         waiters' \in {waiters, <<>>}, intent' # None => waiters' = <<>>,
         pc' = [pc EXCEPT ![i] = p],
         pc[i] # "waiting" \/ waiters' = <<>>,
         p \in Working => i \in holds,
         i \in holds => p \in Holding
  PROVE  SlotInv'
<1>1. pc'[i] = p /\ \A j \in Agents : j # i => pc'[j] = pc[j]
  BY DEF TypeOK
<1> QED BY <1>1, SlotKept

\* A call completes.
LEMMA SlotCompletes ==
  ASSUME TypeOK, SlotInv, UNCHANGED <<slots, intent>>, NEW i \in Agents, NEW status, Completes(i, status),
         pc[i] # "waiting" \/ intent # None
  PROVE  SlotInv'
<1>1. pc' = [pc EXCEPT ![i] = "journaling"] /\ "journaling" \in Paths \cap (Holding \ Working)
  BY DEF Completes, Paths, Holding, Working
<1>2. UNCHANGED <<active, holds, waiters, intent>>
  BY DEF slots
<1>3. intent # None => waiters = <<>>
  BY DEF SlotInv
<1> QED BY <1>1, <1>2, <1>3, SlotMoves

\* A slot is given back.
LEMMA SlotReleased ==
  ASSUME TypeOK, SlotInv, NEW i \in Agents, NEW p \in Paths \ (Holding \cup {"waiting"}), NEW left,
         left = waiters \/ left = <<>>, left # <<>> => intent' = None, pc[i] # "waiting",
         Release(i, [pc EXCEPT ![i] = p], left)
  PROVE  SlotInv'
<1>0. pc \in [Agents -> Paths] /\ [pc EXCEPT ![i] = p] \in [Agents -> Paths]
  BY DEF TypeOK
<1>1. left \in Seq(Agents)
  <2>1. CASE left = waiters
    BY <2>1 DEF TypeOK
  <2>2. CASE left = <<>>
    BY <2>2
  <2> QED BY <2>1, <2>2
<1>2. active' = Cardinality(holds') /\ active' <= Slots
  BY <1>0, <1>1, ReleaseCounts
<1>3. CASE i \in holds /\ left # <<>>
  <2> DEFINE h == Head(left)
  <2>1. /\ left = waiters /\ Len(left) \in Nat /\ h = left[1] /\ 1 \in 1..Len(left)
        /\ \A k \in 1..Len(Tail(left)) : k + 1 \in 1..Len(left) /\ Tail(left)[k] = left[k + 1] /\ k + 1 # 1
    BY <1>1, <1>3
  <2>2. h \in Agents \ holds /\ pc[h] = "waiting" /\ h # i
    BY <1>3, <2>1, Waiting
  <2> HIDE DEF h
  <2>3. /\ waiters' = Tail(left) /\ holds' = (holds \ {i}) \cup {h}
        /\ pc' = [[pc EXCEPT ![i] = p] EXCEPT ![h] = "granted"]
    BY <1>3 DEF Release, h
  <2>4. pc'[i] = p /\ pc'[h] = "granted" /\ \A j \in Agents : j # i /\ j # h => pc'[j] = pc[j]
    BY <1>0, <2>2, <2>3
  <2>5. ASSUME NEW j \in Agents
        PROVE  (pc'[j] \in Working => j \in holds') /\ (j \in holds' => pc'[j] \in Holding)
    <3>1. CASE j = i
      BY <2>2, <2>3, <2>4, <3>1 DEF Holding
    <3>2. CASE j = h
      BY <2>2, <2>3, <2>4, <3>2 DEF Holding, Working
    <3>3. CASE j # i /\ j # h
      BY <2>3, <2>4, <3>3 DEF SlotInv
    <3> QED BY <3>1, <3>2, <3>3
  <2>6. ASSUME NEW k \in 1..Len(waiters') PROVE pc'[waiters'[k]] = "waiting"
    <3>1. k + 1 \in 1..Len(waiters) /\ waiters'[k] = waiters[k + 1] /\ k + 1 # 1
      BY <2>1, <2>3
    <3>2. waiters[k + 1] # h
      BY <2>1, <3>1 DEF SlotInv
    <3>3. waiters[k + 1] \in Agents /\ pc[waiters[k + 1]] = "waiting"
      BY <3>1, Waiting
    <3> QED BY <2>4, <3>1, <3>2, <3>3
  <2>7. ASSUME NEW k \in 1..Len(waiters'), NEW l \in 1..Len(waiters'), waiters'[k] = waiters'[l]
        PROVE  k = l
    <3>1. /\ k + 1 \in 1..Len(waiters) /\ waiters'[k] = waiters[k + 1]
          /\ l + 1 \in 1..Len(waiters) /\ waiters'[l] = waiters[l + 1]
      BY <2>1, <2>3
    <3>2. k + 1 = l + 1
      BY <2>7, <3>1 DEF SlotInv
    <3> QED BY <3>2
  <2> QED BY <1>2, <1>3, <2>5, <2>6, <2>7 DEF SlotInv
<1>4. CASE ~(i \in holds /\ left # <<>>)
  <2>1. pc' = [pc EXCEPT ![i] = p] /\ waiters' = left /\ holds' = holds \ {i}
    BY <1>4 DEF Release
  <2>2. pc'[i] = p /\ \A j \in Agents : j # i => pc'[j] = pc[j]
    BY <1>0, <2>1
  <2>3. ASSUME NEW j \in Agents
        PROVE  (pc'[j] \in Working => j \in holds') /\ (j \in holds' => pc'[j] \in Holding)
    <3>1. CASE j = i
      BY <2>1, <2>2, <3>1 DEF Holding
    <3>2. CASE j # i
      BY <2>1, <2>2, <3>2 DEF SlotInv
    <3> QED BY <3>1, <3>2
  <2>4. ASSUME NEW k \in 1..Len(waiters') PROVE pc'[waiters'[k]] = "waiting"
    <3>1. CASE left = waiters
      <4>1. waiters[k] \in Agents /\ pc[waiters[k]] = "waiting"
        BY <2>1, <3>1, Waiting
      <4> QED BY <2>1, <2>2, <3>1, <4>1
    <3>2. CASE left = <<>>
      BY <2>1, <3>2
    <3> QED BY <3>1, <3>2
  <2>5. \A k, l \in 1..Len(waiters') : waiters'[k] = waiters'[l] => k = l
    <3>1. CASE left = waiters
      BY <2>1, <3>1 DEF SlotInv
    <3>2. CASE left = <<>>
      BY <2>1, <3>2
    <3> QED BY <3>1, <3>2
  <2> QED BY <1>2, <2>1, <2>3, <2>4, <2>5 DEF SlotInv
<1> QED BY <1>3, <1>4

\* A call that is lost gives its slot back, unless finalize has it.
LEMMA SlotThrown ==
  ASSUME TypeOK, SlotInv, StillInv, NEW i \in Agents, pc[i] \in {"marking", "noting", "journaling", "storing"},
         Lost(i) \/ Thrown(i)
  PROVE  SlotInv'
<1>0. "lost" \in Paths \ (Holding \cup {"waiting"})
  BY DEF Paths, Holding, Working
<1>1. CASE Lost(i)
  BY <1>0, <1>1, SlotReleased DEF Lost
<1>2. CASE fin = "leftovers" /\ Thrown(i)
  <2>1. pc' = [pc EXCEPT ![i] = "lost"] /\ UNCHANGED <<intent, active, holds, waiters>>
    BY <1>2 DEF Thrown, slots
  <2>2. i \notin holds
    BY <1>2 DEF StillInv, Still
  <2>3. intent # None => waiters = <<>>
    BY DEF SlotInv
  <2> QED BY <1>0, <2>1, <2>2, <2>3, SlotMoves DEF Holding
<1> QED BY <1>1, <1>2 DEF Thrown

\* A call takes a slot, waits for one, or is turned away.
LEMMA SlotAcquired ==
  ASSUME TypeOK, SlotInv, NEW i \in Agents, pc[i] = "registering", Acquire(i), UNCHANGED intent
  PROVE  SlotInv'
<1>0. pc \in [Agents -> Paths] /\ i \notin holds /\ Slots \in Nat /\ active \in Nat
  BY RunAssumption DEF TypeOK, SlotInv, Holding, Working
<1>1. CASE intent # None
  <2>1. pc' = [pc EXCEPT ![i] = "turned away"] /\ UNCHANGED <<active, holds, waiters>>
    BY <1>1 DEF Acquire, slots
  <2>2. "turned away" \in Paths \ Working
    BY DEF Paths, Working
  <2> QED BY <1>0, <2>1, <2>2, SlotMoves DEF SlotInv
<1>2. CASE intent = None /\ active < Slots /\ active' = active + 1
  <2>1. /\ pc' = [pc EXCEPT ![i] = "granted"] /\ active' = active + 1 /\ holds' = holds \cup {i}
        /\ UNCHANGED waiters
    BY <1>2, <1>0 DEF Acquire
  <2>2. active' = Cardinality(holds')
    BY <1>0, <2>1, HoldsFinite DEF SlotInv
  <2>3. active' <= Slots
    BY <1>0, <1>2
  <2>4. pc'[i] = "granted" /\ \A j \in Agents : j # i => pc'[j] = pc[j]
    BY <1>0, <2>1
  <2>5. ASSUME NEW j \in Agents
        PROVE  (pc'[j] \in Working => j \in holds') /\ (j \in holds' => pc'[j] \in Holding)
    <3>1. CASE j = i
      BY <2>1, <2>4, <3>1 DEF Holding, Working
    <3>2. CASE j # i
      BY <2>1, <2>4, <3>2 DEF SlotInv
    <3> QED BY <3>1, <3>2
  <2>6. ASSUME NEW k \in 1..Len(waiters) PROVE pc'[waiters[k]] = "waiting"
    <3>1. waiters[k] \in Agents /\ pc[waiters[k]] = "waiting"
      BY Waiting
    <3> QED BY <2>4, <3>1
  <2> QED BY <1>2, <2>1, <2>2, <2>3, <2>5, <2>6 DEF SlotInv
<1>3. CASE intent = None /\ UNCHANGED active
  <2>1. /\ pc' = [pc EXCEPT ![i] = "waiting"] /\ UNCHANGED <<active, holds>>
        /\ waiters' = Append(waiters, i)
    BY <1>0, <1>3 DEF Acquire
  <2>2. /\ Len(waiters) \in Nat /\ Len(waiters') = Len(waiters) + 1 /\ waiters'[Len(waiters) + 1] = i
        /\ \A k \in 1..Len(waiters) : waiters'[k] = waiters[k]
    BY <2>1 DEF TypeOK
  <2>3. \A k \in 1..Len(waiters') : k = Len(waiters) + 1 \/ k \in 1..Len(waiters)
    BY <2>2
  <2>4. pc'[i] = "waiting" /\ \A j \in Agents : j # i => pc'[j] = pc[j]
    BY <1>0, <2>1
  <2>5. ASSUME NEW j \in Agents
        PROVE  (pc'[j] \in Working => j \in holds') /\ (j \in holds' => pc'[j] \in Holding)
    <3>1. CASE j = i
      BY <1>0, <2>1, <2>4, <3>1 DEF Working
    <3>2. CASE j # i
      BY <2>1, <2>4, <3>2 DEF SlotInv
    <3> QED BY <3>1, <3>2
  <2>6. \A k \in 1..Len(waiters) : waiters[k] \in Agents /\ pc[waiters[k]] = "waiting" /\ waiters[k] # i
    BY Waiting
  <2>7. \A k \in 1..Len(waiters') : pc'[waiters'[k]] = "waiting"
    BY <2>2, <2>3, <2>4, <2>6
  <2>8. ASSUME NEW k \in 1..Len(waiters'), NEW l \in 1..Len(waiters'), waiters'[k] = waiters'[l]
        PROVE  k = l
    <3>1. CASE k \in 1..Len(waiters) /\ l \in 1..Len(waiters)
      BY <2>2, <2>8, <3>1 DEF SlotInv
    <3>2. CASE k = Len(waiters) + 1 \/ l = Len(waiters) + 1
      BY <2>2, <2>3, <2>6, <2>8, <3>2
    <3> QED BY <2>3, <3>1, <3>2
  <2> QED BY <1>3, <2>1, <2>5, <2>7, <2>8 DEF SlotInv
<1> QED BY <1>1, <1>2, <1>3 DEF Acquire

\* The steps of a call.
LEMMA SlotCalls ==
  ASSUME TypeOK, SlotInv, StillInv, NEW i \in Agents,
         \/ AgentSteps(i) \/ RecordFails(i) \/ JournalFails(i) \/ StoreFails(i) \/ Leftover(i)
         \/ \E s \in Terminal : TurnSettles(i, s)
  PROVE  SlotInv'
<1>0. intent # None => waiters = <<>>
  BY DEF SlotInv
<1>1. CASE TurnedAway(i) \/ TeammateFails(i) \/ Leftover(i)
  BY <1>1, SlotCompletes DEF TurnedAway, TeammateFails, Leftover
<1>2. ASSUME NEW s, NotAdmitted(i, s) \/ TurnSettles(i, s) PROVE SlotInv'
  BY <1>2, SlotCompletes DEF NotAdmitted, TurnSettles
<1>3. ASSUME NEW p \in Working, pc[i] \in Working, UNCHANGED <<slots, intent>>, pc' = [pc EXCEPT ![i] = p]
      PROVE  SlotInv'
  <2>1. i \in holds /\ p \in Paths \cap Holding /\ pc[i] # "waiting"
    BY <1>3 DEF SlotInv, Paths, Holding, Working
  <2> QED BY <1>0, <1>3, <2>1, SlotMoves DEF slots
<1>4. CASE Granted(i)
  <2>1. CASE Completes(i, "stopped")
    BY <1>4, <2>1, SlotCompletes DEF Granted
  <2>2. CASE pc' = [pc EXCEPT ![i] = "marking"]
    BY <1>3, <1>4, <2>2 DEF Granted, Working
  <2> QED BY <1>4, <2>1, <2>2 DEF Granted
<1>5. CASE Recorded(i)
  <2>1. CASE Completes(i, "stopped")
    BY <1>5, <2>1, SlotCompletes DEF Recorded
  <2>2. CASE ~Completes(i, "stopped")
    BY <1>3, <1>5, <2>2 DEF Recorded, Working
  <2> QED BY <2>1, <2>2
<1>6. CASE TeammateCreated(i) \/ Admitted(i)
  BY <1>3, <1>6 DEF TeammateCreated, Admitted, Working
<1>7. CASE Journaled(i)
  <2>1. CASE Thrown(i)
    BY <1>7, <2>1, SlotThrown DEF Journaled
  <2>2. CASE ~Thrown(i)
    <3>1. pc[i] = "journaling" /\ pc' = [pc EXCEPT ![i] = "storing"] /\ UNCHANGED <<intent, active, holds, waiters>>
      BY <1>7, <2>2 DEF Journaled, slots
    <3>2. "storing" \in Paths \cap (Holding \ Working)
      BY DEF Paths, Holding, Working
    <3> QED BY <1>0, <3>1, <3>2, SlotMoves
  <2> QED BY <2>1, <2>2
<1>8. CASE RecordFails(i) \/ JournalFails(i) \/ StoreFails(i)
  BY <1>8, SlotThrown DEF RecordFails, JournalFails, StoreFails
<1>9. CASE Stored(i)
  <2>1. /\ pc[i] = "storing" /\ Release(i, [pc EXCEPT ![i] = "done"], waiters)
        /\ waiters # <<>> => intent' = None
    BY <1>0, <1>9 DEF Stored
  <2>2. "done" \in Paths \ (Holding \cup {"waiting"})
    BY DEF Paths, Holding, Working
  <2> QED BY <2>1, <2>2, SlotReleased
<1> QED BY <1>1, <1>2, <1>3, <1>4, <1>5, <1>6, <1>7, <1>8, <1>9 DEF AgentSteps

\* Every step keeps the slots counted.
LEMMA SlotNext ==
  ASSUME TypeOK, InboxInv, SlotInv, StillInv, [Next]_vars
  PROVE  SlotInv'
<1>0. (intent # None => waiters = <<>>) /\ pc \in [Agents -> Paths]
  BY DEF SlotInv, TypeOK
<1>1. ASSUME UNCHANGED <<active, holds, pc>>,
             UNCHANGED <<waiters, intent>> \/ \E s : Reserve(s)
      PROVE  SlotInv'
  BY <1>0, <1>1, ReserveClears, SlotKept
<1>2. CASE Create \/ CreateFails \/ BootSteps \/ Stop \/ StopAll \/ RequestStopAll \/ RunnerExits \/ EmitWritten
           \/ EmitFails \/ ResultHandled \/ ScriptEmits \/ \E s \in Terminal : ScriptEnds(s)
  BY <1>1, <1>2 DEF Create, CreateFails, BootSteps, Created, Launched, LaunchFails, Stop, StopAll, Stops, RequestStopAll,
                    RunnerExits, EmitWritten, EmitFails, ResultHandled, ScriptEmits, ScriptEnds,
                    RequestTerminal, slots, calls
<1>3. CASE \/ RunnerStopped \/ HandlesKnown \/ ClosesSettled \/ Drained \/ Completed
           \/ EndJournaled \/ EndWritten \/ Delivered \/ EndFails \/ WriteFails
           \/ \E i \in Agents : HandleClosed(i)
  BY <1>1, <1>3 DEF RunnerStopped, HandlesKnown, ClosesSettled, Drained, Completed, EndJournaled, EndWritten,
                    Delivered, EndFails, WriteFails, HandleClosed, slots, calls
<1>4. CASE RecoverySteps \/ RecoveryFails \/ UNCHANGED vars
  BY <1>1, <1>4 DEF RecoverySteps, RecoveryReads, Backfills, EndBackfilled, Recovered, RecoveryFails,
                    vars, slots, calls
<1>5. CASE Crash
  <2>1. /\ active' = 0 /\ holds' = {} /\ waiters' = <<>> /\ 1..Len(waiters') = {} /\ Slots \in Nat
        /\ \A i \in Agents : pc'[i] = "idle"
    BY <1>5, RunAssumption DEF Crash, Restarted
  <2> QED BY <2>1, FS_EmptySet DEF SlotInv, Working
<1>6. ASSUME NEW i \in Agents,
             \/ AgentSteps(i) \/ RecordFails(i) \/ JournalFails(i) \/ StoreFails(i) \/ Leftover(i)
             \/ \E s \in Terminal : TurnSettles(i, s)
      PROVE  SlotInv'
  BY <1>6, SlotCalls
<1>7. ASSUME NEW i \in Agents, NEW p \in Paths \ Holding, pc[i] \in {"idle", "asked", "registering"},
             pc' = [pc EXCEPT ![i] = p], UNCHANGED <<active, holds>>,
             UNCHANGED <<waiters, intent>> \/ \E s : Reserve(s)
      PROVE  SlotInv'
  <2>1. i \notin holds /\ p \notin Working /\ pc[i] # "waiting"
    BY <1>7 DEF SlotInv, Holding, Working
  <2> QED BY <1>0, <1>7, <2>1, ReserveClears, SlotMoves
<1>8. {"asked", "refused", "registering", "lost"} \subseteq Paths \ Holding
  BY DEF Paths, Holding, Working
<1>9. tail # <<>> => Message = tail[1] /\ 1 \in 1..Len(tail)
  BY DEF Message, TypeOK
<1>10. ASSUME NEW i \in Agents, ScriptCalls(i) PROVE SlotInv'
  BY <1>7, <1>8, <1>10 DEF ScriptCalls, slots
<1>11. CASE AgentRefused \/ AgentStarts
  <2>1. pc[Message] = "asked" /\ Message \in Agents
    BY <1>9, <1>11 DEF AgentRefused, AgentStarts, Ready, InboxInv
  <2> QED BY <1>7, <1>8, <1>11, <2>1 DEF AgentRefused, AgentStarts, RequestTerminal, slots
<1>12. CASE RegisterFails
  <2>1. pc[Message] = "registering" /\ Message \in Agents
    BY <1>9, <1>12 DEF RegisterFails, InboxInv
  <2> QED BY <1>7, <1>8, <1>12, <2>1 DEF RegisterFails, RequestTerminal
<1>13. CASE Registered
  <2>1. pc[Message] = "registering" /\ Message \in Agents
    BY <1>9, <1>13 DEF Registered, InboxInv
  <2> QED BY <1>13, <2>1, SlotAcquired DEF Registered
<1> QED BY <1>2, <1>3, <1>4, <1>5, <1>6, <1>10, <1>11, <1>12, <1>13
    DEF Next, FinalSteps, QueueSteps

----------------------------------------
(* The end of a run                                                        *)

\* The first intent stands.
LEMMA ReserveEnds ==
  ASSUME TypeOK, NEW status \in Terminal, Reserve(status)
  PROVE  /\ intent' # None /\ (intent # None => intent' = intent /\ owed' = owed)
         /\ intent = None => intent' = status /\ owed' = (owed /\ status # "stopped")
  BY DEF Reserve, Owing, None, Terminal

\* Asking for finalize starts it, and moves none that is under way.
LEMMA EnsureEnds ==
  ASSUME TypeOK, NEW retry, Ensure(retry)
  PROVE  /\ fin' # None
         /\ fin # None => fin' = fin /\ stuck' = stuck
         /\ fin = None => fin' = "stopping"
  BY DEF Ensure, None, TypeOK

\* A finalize that fails begins again, or is given up.
LEMMA FinalizeFailsEnds ==
  ASSUME FinalizeFails
  PROVE  fin' \in {None, "stopping"}
  BY DEF FinalizeFails

\* A step that may reserve an intent and ask for finalize, and does nothing else to the end.
EndsOrNot ==
  \/ UNCHANGED <<intent, owed, fin, stuck>>
  \/ UNCHANGED <<intent, owed>> /\ intent # None /\ \E retry : Ensure(retry)
  \/ UNCHANGED <<fin, stuck>> /\ \E status \in Terminal : Reserve(status)
  \/ \E status \in Terminal : \E retry : Reserve(status) /\ Ensure(retry)

\* Such a step keeps an intent there is, and moves finalize only to its start.
LEMMA EndsOrNotMoves ==
  ASSUME TypeOK, EndsOrNot
  PROVE  /\ intent # None => intent' = intent /\ owed' = owed
         /\ intent = None /\ intent' # None => intent' \in Terminal /\ owed' = (owed /\ intent' # "stopped")
         /\ intent' = None => owed' = owed
         /\ fin' = fin \/ (fin = None /\ fin' = "stopping" /\ intent' # None)
         /\ fin # None => stuck' = stuck
<1>1. CASE UNCHANGED <<intent, owed, fin, stuck>>
  BY <1>1
<1>2. CASE UNCHANGED <<intent, owed>> /\ intent # None /\ \E retry : Ensure(retry)
  BY <1>2, EnsureEnds
<1>3. CASE UNCHANGED <<fin, stuck>> /\ \E status \in Terminal : Reserve(status)
  BY <1>3, ReserveEnds
<1>4. ASSUME NEW status \in Terminal, NEW retry, Reserve(status), Ensure(retry)
      PROVE  /\ intent # None => intent' = intent /\ owed' = owed
             /\ intent = None /\ intent' # None => intent' \in Terminal /\ owed' = (owed /\ intent' # "stopped")
             /\ intent' = None => owed' = owed
             /\ fin' = fin \/ (fin = None /\ fin' = "stopping" /\ intent' # None)
             /\ fin # None => stuck' = stuck
  BY <1>4, ReserveEnds, EnsureEnds
<1> QED BY <1>1, <1>2, <1>3, <1>4 DEF EndsOrNot

\* Of the steps of the host, the service and the runner; of the queue; of the calls.
LEMMA RunEnds ==
  ASSUME TypeOK,
         \/ Create \/ CreateFails \/ BootSteps \/ Stop \/ StopAll \/ RequestStopAll
         \/ ScriptEmits \/ RunnerExits \/ \E s \in Terminal : ScriptEnds(s)
         \/ \E i \in Agents : ScriptCalls(i)
  PROVE  EndsOrNot /\ UNCHANGED <<reports, res, end, host>>
<1>0. "stopped" \in Terminal /\ "failed" \in Terminal
  BY DEF Terminal
<1>1. CASE Create \/ CreateFails
  BY <1>1 DEF Create, CreateFails, EndsOrNot, report, final, disk, journal
<1>2. CASE Created
  BY <1>0, <1>2 DEF Created, EndsOrNot, final
<1>3. CASE Launched
  BY <1>0, <1>3 DEF Launched, EndsOrNot, final, disk, journal, RequestTerminal
<1>4. CASE LaunchFails
  BY <1>0, <1>4 DEF LaunchFails, EndsOrNot, disk, journal, RequestTerminal
<1>5. CASE Stop
  BY <1>0, <1>5 DEF Stop, EndsOrNot, disk, journal
<1>6. CASE RequestStopAll \/ StopAll
  BY <1>0, <1>6 DEF RequestStopAll, StopAll, Stops, EndsOrNot, final, disk, journal
<1>7. CASE ScriptEmits \/ (\E s \in Terminal : ScriptEnds(s)) \/ \E i \in Agents : ScriptCalls(i)
  BY <1>7 DEF ScriptEmits, ScriptEnds, ScriptCalls, EndsOrNot, final, report, disk, journal
<1>8. CASE RunnerExits
  BY <1>0, <1>8 DEF RunnerExits, EndsOrNot, final, disk, journal, RequestTerminal
<1> QED BY <1>1, <1>2, <1>3, <1>4, <1>5, <1>6, <1>7, <1>8 DEF BootSteps

\* The same of the steps of the queue.
LEMMA QueueEnds ==
  ASSUME TypeOK, QueueSteps \/ RegisterFails \/ EmitFails
  PROVE  /\ EndsOrNot /\ UNCHANGED <<reports, res, end, host, handle, boot, runner>>
         /\ rec' = rec \/ Publish(draft)
<1>0. "failed" \in Terminal
  BY DEF Terminal
<1>1. CASE AgentRefused
  BY <1>0, <1>1 DEF AgentRefused, EndsOrNot, final, disk, journal, RequestTerminal, service
<1>2. CASE AgentStarts
  BY <1>2 DEF AgentStarts, EndsOrNot, final, report, disk, journal, service
<1>3. CASE Registered \/ EmitWritten
  BY <1>3 DEF Registered, EmitWritten, EndsOrNot, final, report, service, calls, journal
<1>4. CASE ResultHandled
  BY <1>4 DEF ResultHandled, EndsOrNot, final, disk, journal, service, calls
<1>5. CASE RegisterFails \/ EmitFails
  BY <1>0, <1>5 DEF RegisterFails, EmitFails, EndsOrNot, disk, journal, RequestTerminal, service, calls
<1> QED BY <1>1, <1>2, <1>3, <1>4, <1>5 DEF QueueSteps

\* The same of the steps of a call, but where finalize fails with them.
LEMMA CallEnds ==
  ASSUME TypeOK, NEW i \in Agents,
         \/ AgentSteps(i) \/ RecordFails(i) \/ JournalFails(i) \/ StoreFails(i) \/ Leftover(i)
         \/ \E s \in Terminal : TurnSettles(i, s)
  PROVE  /\ UNCHANGED <<reports, end, host, boot, runner, accepting>>
         /\ \/ EndsOrNot
            \/ fin = "leftovers" /\ FinalizeFails /\ UNCHANGED <<intent, owed>>
         /\ rec' = rec \/ Publish(draft)
<1>0. "failed" \in Terminal
  BY DEF Terminal
<1>a. ASSUME Thrown(i)
      PROVE  EndsOrNot \/ (fin = "leftovers" /\ FinalizeFails /\ UNCHANGED <<intent, owed>>)
  BY <1>0, <1>a DEF Thrown, Lost, RequestTerminal, EndsOrNot
<1>1. CASE TurnedAway(i) \/ Granted(i) \/ TeammateCreated(i) \/ TeammateFails(i) \/ Admitted(i) \/ Leftover(i)
  BY <1>1 DEF TurnedAway, Granted, TeammateCreated, TeammateFails, Admitted, Leftover, EndsOrNot, final,
              report, disk, journal, service
<1>2. CASE Recorded(i) \/ Stored(i)
  BY <1>2 DEF Recorded, Stored, EndsOrNot, final, report, service, journal
<1>3. ASSUME NEW s, NotAdmitted(i, s) \/ TurnSettles(i, s)
      PROVE  EndsOrNot /\ UNCHANGED <<reports, end, host, boot, runner, accepting, rec>>
  BY <1>3 DEF NotAdmitted, TurnSettles, EndsOrNot, final, report, disk, journal, service
<1>4. CASE RecordFails(i)
  BY <1>0, <1>4 DEF RecordFails, Lost, RequestTerminal, EndsOrNot, disk, journal, service
<1>5. CASE JournalFails(i) \/ StoreFails(i)
  BY <1>a, <1>5 DEF JournalFails, StoreFails, disk, journal, service
<1>6. CASE Journaled(i)
  <2>1. EndsOrNot \/ (fin = "leftovers" /\ FinalizeFails /\ UNCHANGED <<intent, owed>>)
    BY <1>a, <1>6 DEF Journaled, EndsOrNot, final
  <2> QED BY <1>6, <2>1 DEF Journaled, service
<1> QED BY <1>1, <1>2, <1>3, <1>4, <1>5, <1>6 DEF AgentSteps

\* Nothing but the start of a run moves before it is started.
LEMMA StartedFirst ==
  ASSUME TypeOK, LifeInv,
         \/ Launched \/ LaunchFails \/ Stop \/ ScriptEmits \/ RunnerExits \/ QueueSteps \/ RegisterFails
         \/ EmitFails \/ FinalSteps \/ EndFails \/ WriteFails
         \/ \E s \in Terminal : ScriptEnds(s)
         \/ \E i \in Agents : \/ ScriptCalls(i) \/ AgentSteps(i) \/ RecordFails(i) \/ JournalFails(i)
                              \/ StoreFails(i) \/ \E s \in Terminal : TurnSettles(i, s)
  PROVE  Started /\ Started' /\ host = "up" /\ UNCHANGED host /\ (boot' = boot \/ boot' = "started")
<1>1. CASE Launched \/ LaunchFails \/ Stop
  BY <1>1 DEF Launched, LaunchFails, Stop, Started, service
<1>2. CASE \/ ScriptEmits \/ RunnerExits \/ (\E s \in Terminal : ScriptEnds(s)) \/ \E i \in Agents : ScriptCalls(i)
  <2>1. runner # None /\ host = "up" /\ UNCHANGED <<host, boot>>
    BY <1>2 DEF ScriptEmits, RunnerExits, ScriptEnds, ScriptCalls, Listening, None, service
  <2> QED BY <2>1 DEF LifeInv, Started
<1>3. CASE QueueSteps \/ RegisterFails \/ EmitFails
  <2>1. (tail # <<>> \/ busy) /\ host = "up"
    BY <1>3 DEF QueueSteps, RegisterFails, EmitFails, AgentRefused, AgentStarts, Registered, EmitWritten,
                ResultHandled, Ready
  <2> QED BY <1>3, <2>1, QueueEnds DEF LifeInv, Started
<1>4. ASSUME NEW i \in Agents,
             \/ AgentSteps(i) \/ RecordFails(i) \/ JournalFails(i) \/ StoreFails(i) \/ Leftover(i)
             \/ \E s \in Terminal : TurnSettles(i, s)
      PROVE  Started /\ Started' /\ host = "up" /\ UNCHANGED <<host, boot>>
  <2>1. pc[i] # "idle" /\ host = "up"
    BY <1>4 DEF AgentSteps, RecordFails, JournalFails, StoreFails, Leftover, TurnSettles, TurnedAway, Granted,
                Recorded, TeammateCreated, TeammateFails, Admitted, NotAdmitted, Journaled, Stored
  <2> QED BY <1>4, <2>1, CallEnds DEF LifeInv, Started
<1>5. CASE \/ RunnerStopped \/ HandlesKnown \/ ClosesSettled \/ Drained \/ Completed
           \/ EndJournaled \/ EndWritten \/ Delivered \/ EndFails \/ WriteFails
           \/ \E i \in Agents : HandleClosed(i)
  <2>1. fin # None /\ host = "up" /\ UNCHANGED <<host, boot>>
    BY <1>5 DEF RunnerStopped, HandlesKnown, ClosesSettled, Drained, Completed, EndJournaled, EndWritten,
                Delivered, EndFails, WriteFails, HandleClosed, None, service
  <2> QED BY <2>1 DEF LifeInv, Started
<1> QED BY <1>1, <1>2, <1>3, <1>4, <1>5 DEF FinalSteps

\* The steps of finalize, and what each leaves of the end.
LEMMA FinalEnds ==
  ASSUME TypeOK,
         \/ RunnerStopped \/ HandlesKnown \/ ClosesSettled \/ Drained \/ Completed
         \/ EndJournaled \/ EndWritten \/ Delivered \/ EndFails \/ WriteFails
         \/ \E i \in Agents : HandleClosed(i)
  PROVE  /\ UNCHANGED <<intent, accepting, boot, host, pc, cand, draft, res, inbox, slots>>
         /\ \/ fin' = fin /\ fin = "closing"
            \/ fin' \in {None, "stopping"} /\ fin \in {"closing", "leftovers", "ending", "writing"}
            \/ fin = "stopping" /\ fin' = "materializing"
            \/ fin = "materializing" /\ fin' = "closing"
            \/ fin = "closing" /\ fin' = "draining"
            \/ fin = "draining" /\ fin' = "leftovers"
            \/ fin = "leftovers" /\ fin' = "ending"
            \/ fin = "ending" /\ fin' = "writing" /\ end' = intent
            \/ fin = "writing" /\ fin' = (IF owed THEN "delivering" ELSE "settled")
            \/ fin = "delivering" /\ fin' = "settled"
         /\ end' = end \/ fin = "ending"
         /\ rec' = rec \/ (fin = "writing" /\ fin' # None /\ fin' # "stopping")
         /\ fin = "writing" /\ fin' \in Over => rec' = [status |-> intent, agents |-> draft]
         /\ \/ UNCHANGED <<owed, reports>>
            \/ fin = "delivering" /\ owed' = FALSE /\ reports' = reports + 1
         /\ fin = "delivering" => owed' = FALSE /\ reports' = reports + 1
<1>1. CASE RunnerStopped \/ HandlesKnown \/ Drained \/ \E i \in Agents : HandleClosed(i)
  BY <1>1 DEF RunnerStopped, HandlesKnown, Drained, HandleClosed, Over, None,
              service, calls, inbox, report, disk, journal, final
<1>2. CASE ClosesSettled
  BY <1>2, FinalizeFailsEnds DEF ClosesSettled, Over, None, service, calls, inbox, report, disk, journal
<1>3. CASE Completed
  BY <1>3, FinalizeFailsEnds DEF Completed, Over, None, service, calls, inbox, report, disk, journal
<1>4. CASE EndJournaled \/ EndFails \/ WriteFails
  BY <1>4, FinalizeFailsEnds DEF EndJournaled, EndFails, WriteFails, Over, None, service, calls, inbox, report,
                                 disk, journal
<1>5. CASE EndWritten
  BY <1>5 DEF EndWritten, Over, None, service, inbox, report, journal
<1>6. CASE Delivered
  BY <1>6 DEF Delivered, Over, None, service, calls, inbox, disk, journal
<1> QED BY <1>1, <1>2, <1>3, <1>4, <1>5, <1>6

\* A step that only reserves an intent and asks for finalize.
LEMMA EndKept ==
  ASSUME TypeOK, EndInv, EndsOrNot, UNCHANGED <<reports, end>>, Started',
         rec'.status = rec.status \/ fin = None
  PROVE  EndInv'
<1>1. /\ intent # None => intent' = intent /\ owed' = owed
      /\ intent = None /\ intent' # None => intent' \in Terminal /\ owed' = (owed /\ intent' # "stopped")
      /\ intent' = None => owed' = owed
      /\ fin' = fin \/ (fin = None /\ fin' = "stopping" /\ intent' # None)
  BY EndsOrNotMoves
<1>2. fin' # None => intent' # None
  BY <1>1 DEF EndInv
<1>3. (owed' <=> intent' # "stopped" /\ reports' = 0) /\ (reports' = 1 => fin' = "settled" /\ intent' # "stopped")
  <2>1. CASE intent = None /\ intent' # None
    <3>1. owed' = (owed /\ intent' # "stopped") /\ (owed <=> reports = 0) /\ reports # 1
      BY <1>1, <2>1 DEF EndInv, None
    <3> QED BY <3>1
  <2>2. CASE intent' = intent /\ owed' = owed
    BY <1>1, <2>2 DEF EndInv, None
  <2> QED BY <1>1, <2>1, <2>2
<1>4. fin' \in Written => fin' = fin /\ fin # None /\ intent # None /\ intent' = intent
  BY <1>1 DEF EndInv, Written, Over, None
<1>5. (fin' \in Written => end' = intent') /\ (fin' \in Over => rec'.status = intent')
  BY <1>4 DEF EndInv, Written
<1>6. (fin' = "delivering" => owed') /\ (fin' = "settled" => ~owed')
  BY <1>1, <1>4 DEF EndInv, Written, Over
<1> QED BY <1>2, <1>3, <1>5, <1>6 DEF EndInv

\* Every step keeps what the end of a run says.
LEMMA EndNext ==
  ASSUME TypeOK, LifeInv, EndInv, [Next]_vars
  PROVE  EndInv'
<1>a. Publish(draft) => rec'.status = rec.status
  BY DEF Publish, TypeOK
<1>b. "stopped" \in Terminal
  BY DEF Terminal
<1>1. CASE Create \/ CreateFails \/ RequestStopAll \/ StopAll
  <2>1. EndsOrNot /\ UNCHANGED <<reports, end, rec>>
    BY <1>1, RunEnds DEF Create, CreateFails, RequestStopAll, StopAll, disk, journal
  <2>2. Started' \/ UNCHANGED <<intent, owed, fin>>
    BY <1>1 DEF Create, CreateFails, RequestStopAll, StopAll, Stops, Started, report, final, service
  <2>3. ~Started' => ~Started
    BY <1>1 DEF Create, CreateFails, RequestStopAll, StopAll, Started, None
  <2>4. CASE Started'
    BY <2>1, <2>4, EndKept
  <2>5. CASE ~Started'
    BY <2>1, <2>2, <2>3, <2>5 DEF EndInv, LifeInv, Written, Over, None
  <2> QED BY <2>4, <2>5
<1>2. CASE Created
  <2>1. EndsOrNot /\ UNCHANGED <<reports, end>>
    BY <1>2, RunEnds DEF BootSteps
  <2>2. Started' /\ fin = None
    BY <1>2 DEF Created, Started, LifeInv
  <2> QED BY <2>1, <2>2, EndKept
<1>3. CASE \/ Launched \/ LaunchFails \/ Stop \/ ScriptEmits \/ RunnerExits
           \/ (\E s \in Terminal : ScriptEnds(s)) \/ \E i \in Agents : ScriptCalls(i)
  <2>1. EndsOrNot /\ UNCHANGED <<reports, end>> /\ Started'
    BY <1>3, RunEnds, StartedFirst DEF BootSteps
  <2>2. UNCHANGED rec
    BY <1>3 DEF Launched, LaunchFails, Stop, ScriptEmits, RunnerExits, ScriptEnds, ScriptCalls, disk, journal
  <2> QED BY <2>1, <2>2, EndKept
<1>4. CASE QueueSteps \/ RegisterFails \/ EmitFails
  BY <1>a, <1>4, QueueEnds, StartedFirst, EndKept
<1>5. ASSUME NEW i \in Agents,
             \/ AgentSteps(i) \/ RecordFails(i) \/ JournalFails(i) \/ StoreFails(i) \/ Leftover(i)
             \/ \E s \in Terminal : TurnSettles(i, s)
      PROVE  EndInv'
  <2>0. Started'
    BY <1>5, StartedFirst DEF FinalSteps
  <2>1. UNCHANGED <<reports, end>> /\ rec'.status = rec.status
    BY <1>a, <1>5, CallEnds
  <2>2. CASE EndsOrNot
    BY <2>0, <2>1, <2>2, EndKept
  <2>3. CASE fin = "leftovers" /\ FinalizeFails /\ UNCHANGED <<intent, owed>>
    <3>1. fin' \in {None, "stopping"}
      BY <2>3, FinalizeFailsEnds
    <3>2. intent # None /\ reports # 1
      BY <2>3 DEF EndInv, None
    <3> QED BY <2>0, <2>1, <2>3, <3>1, <3>2 DEF EndInv, Written, Over, None
  <2> QED BY <1>5, <2>2, <2>3, CallEnds
<1>6. CASE \/ RunnerStopped \/ HandlesKnown \/ ClosesSettled \/ Drained \/ Completed
           \/ EndJournaled \/ EndWritten \/ Delivered \/ EndFails \/ WriteFails
           \/ \E i \in Agents : HandleClosed(i)
  <2>0. Started' /\ intent # None /\ intent' = intent
    <3>1. Started'
      BY <1>6, StartedFirst DEF FinalSteps
    <3>2. fin # None /\ UNCHANGED intent
      BY <1>6, FinalEnds DEF None
    <3> QED BY <3>1, <3>2 DEF EndInv
  <2>1. CASE fin' \in {None, "stopping", "materializing", "closing", "draining", "leftovers", "ending"}
    <3>1. UNCHANGED <<owed, reports>> /\ fin # "settled"
      BY <1>6, <2>1, FinalEnds DEF None
    <3> QED BY <2>0, <2>1, <3>1 DEF EndInv, Written, Over, None
  <2>2. CASE fin' = "writing"
    <3>1. UNCHANGED <<owed, reports>> /\ end' = intent /\ fin # "settled"
      BY <1>6, <2>2, FinalEnds DEF None
    <3> QED BY <2>0, <2>2, <3>1 DEF EndInv, Written, Over, None
  <2>3. CASE fin = "writing" /\ fin' \in Over
    <3>1. UNCHANGED <<owed, reports, end>> /\ rec'.status = intent
          /\ fin' = (IF owed THEN "delivering" ELSE "settled")
      BY <1>6, <2>3, FinalEnds DEF Over, None
    <3>2. end = intent /\ reports # 1
      BY <2>3 DEF EndInv, Written
    <3> QED BY <2>0, <3>1, <3>2 DEF EndInv, Written, Over, None
  <2>4. CASE fin = "delivering"
    <3>1. owed' = FALSE /\ reports' = reports + 1 /\ UNCHANGED <<end, rec>> /\ fin' = "settled"
      BY <1>6, <2>4, FinalEnds DEF None
    <3>2. end = intent /\ rec.status = intent /\ reports = 0 /\ intent # "stopped"
      BY <2>4 DEF EndInv, Written, Over
    <3> QED BY <2>0, <3>1, <3>2 DEF EndInv, Written, Over, None
  <2> QED BY <1>6, <2>1, <2>2, <2>3, <2>4, FinalEnds DEF Over
<1>7. CASE RecoverySteps \/ RecoveryFails
  <2>1. UNCHANGED <<intent, fin, boot, owed, reports>> /\ host # "up"
    BY <1>7 DEF RecoverySteps, RecoveryReads, Backfills, EndBackfilled, Recovered, RecoveryFails, final,
                service, report
  <2>2. fin = None
    BY <2>1 DEF LifeInv, Started, None
  <2> QED BY <2>1, <2>2 DEF EndInv, Written, Over, Started, None
<1>8. CASE Crash
  BY <1>8 DEF Crash, Restarted, EndInv, Written, Over, None
<1>9. CASE UNCHANGED vars
  BY <1>9 DEF vars, service, final, report, disk, journal, EndInv, Written, Over, Started
<1> QED BY <1>1, <1>2, <1>3, <1>4, <1>5, <1>6, <1>7, <1>8, <1>9 DEF Next, BootSteps, FinalSteps

\* The steps of a run under way: what they leave of its record.
LEMMA RecordUnderWay ==
  ASSUME TypeOK, LifeInv,
         \/ Launched \/ LaunchFails \/ Stop \/ ScriptEmits \/ RunnerExits \/ QueueSteps \/ RegisterFails
         \/ EmitFails \/ FinalSteps \/ EndFails \/ WriteFails
         \/ \E s \in Terminal : ScriptEnds(s)
         \/ \E i \in Agents : \/ ScriptCalls(i) \/ AgentSteps(i) \/ RecordFails(i) \/ JournalFails(i)
                              \/ StoreFails(i) \/ \E s \in Terminal : TurnSettles(i, s)
  PROVE  \/ rec'.status = rec.status /\ (fin' = fin \/ fin \notin Over \/ fin' = "settled")
         \/ rec'.status = intent /\ fin' \in Over
<1>a. Publish(draft) => rec'.status = rec.status
  BY DEF Publish, TypeOK
<1>1. CASE \/ Launched \/ LaunchFails \/ Stop \/ ScriptEmits \/ RunnerExits
           \/ (\E s \in Terminal : ScriptEnds(s)) \/ \E i \in Agents : ScriptCalls(i)
  <2>1. fin' = fin \/ fin = None
    BY <1>1, RunEnds, EndsOrNotMoves DEF BootSteps
  <2>2. UNCHANGED rec
    BY <1>1 DEF Launched, LaunchFails, Stop, ScriptEmits, RunnerExits, ScriptEnds, ScriptCalls, disk, journal
  <2> QED BY <2>1, <2>2 DEF Over, None
<1>2. CASE QueueSteps \/ RegisterFails \/ EmitFails
  BY <1>a, <1>2, QueueEnds, EndsOrNotMoves DEF Over, None
<1>3. ASSUME NEW i \in Agents,
             \/ AgentSteps(i) \/ RecordFails(i) \/ JournalFails(i) \/ StoreFails(i) \/ Leftover(i)
             \/ \E s \in Terminal : TurnSettles(i, s)
      PROVE  rec'.status = rec.status /\ (fin' = fin \/ fin \notin Over)
  BY <1>a, <1>3, CallEnds, EndsOrNotMoves DEF Over, None
<1>4. CASE \/ RunnerStopped \/ HandlesKnown \/ ClosesSettled \/ Drained \/ Completed
           \/ EndJournaled \/ EndWritten \/ Delivered \/ EndFails \/ WriteFails
           \/ \E i \in Agents : HandleClosed(i)
  <2>1. CASE fin = "writing" /\ fin' \in Over
    <3>1. rec' = [status |-> intent, agents |-> draft]
      BY <1>4, <2>1, FinalEnds
    <3> QED BY <2>1, <3>1
  <2>2. CASE ~(fin = "writing" /\ fin' \in Over)
    <3>1. rec' = rec /\ (fin \notin Over \/ fin' = "settled")
      BY <1>4, <2>2, FinalEnds DEF Over, None
    <3> QED BY <3>1
  <2> QED BY <2>1, <2>2
<1> QED BY <1>1, <1>2, <1>3, <1>4 DEF FinalSteps

\* Every step keeps when there is a run.
LEMMA LifeNext ==
  ASSUME TypeOK, LifeInv, EndInv, RecoverInv, [Next]_vars
  PROVE  LifeInv'
<1>1. CASE Create \/ CreateFails
  <2>1. ~Started /\ ~Started' /\ UNCHANGED <<intent, inbox, runner, waiters, calls, fin, reports, disk, host>>
    BY <1>1 DEF Create, CreateFails, Started, None, slots, final, report
  <2>2. rec = Absent /\ host = "up" /\ boot' \in {"creating", "failed"}
    BY <1>1 DEF Create, CreateFails, LifeInv
  <2> QED BY <2>1, <2>2 DEF LifeInv, inbox, calls, disk, journal, Started, Terminal, Absent, None
<1>2. CASE Created
  <2>1. Started' /\ rec'.status = "running" /\ UNCHANGED host /\ host = "up" /\ boot' \notin {"creating", "failed"}
    BY <1>2 DEF Created, Started, Absent
  <2> QED BY <2>1 DEF LifeInv, Terminal, None
<1>3. CASE RequestStopAll \/ StopAll
  <2>1. UNCHANGED <<boot, rec, host, res, end, pc, cand, handle, draft, runner, tail, busy, reports>>
    BY <1>3 DEF RequestStopAll, StopAll, final, disk, journal, inbox, calls
  <2>2. ~Started => UNCHANGED <<intent, waiters, fin>>
    BY <1>3 DEF RequestStopAll, StopAll, Stops, Started, final
  <2>3. fin' = fin \/ fin = None
    BY <1>3 DEF RequestStopAll, StopAll, Stops, Ensure, final
  <2> QED BY <2>1, <2>2, <2>3 DEF LifeInv, Started, None
<1>4. CASE \/ Launched \/ LaunchFails \/ Stop \/ ScriptEmits \/ RunnerExits \/ QueueSteps \/ RegisterFails
           \/ EmitFails \/ FinalSteps \/ EndFails \/ WriteFails
           \/ \E s \in Terminal : ScriptEnds(s)
           \/ \E i \in Agents : \/ ScriptCalls(i) \/ AgentSteps(i) \/ RecordFails(i) \/ JournalFails(i)
                                \/ StoreFails(i) \/ \E s \in Terminal : TurnSettles(i, s)
  <2>1. Started /\ Started' /\ host = "up" /\ UNCHANGED host /\ (boot' = boot \/ boot' = "started")
    BY <1>4, StartedFirst
  <2>2. \/ rec'.status = rec.status /\ (fin' = fin \/ fin \notin Over \/ fin' = "settled")
        \/ rec'.status = intent /\ fin' \in Over
    BY <1>4, RecordUnderWay
  <2>3. rec'.status # None
    <3>1. rec.status # None
      BY <2>1 DEF LifeInv
    <3>2. rec'.status = intent /\ fin' \in Over => intent # None
      <4>1. EndInv'
        BY <1>4, EndNext DEF Next, BootSteps
      <4>2. fin' \in Over => rec'.status = intent' /\ intent' # None
        BY <4>1 DEF EndInv, Over, None
      <4> QED BY <4>2
    <3> QED BY <2>2, <3>1, <3>2
  <2>4. rec'.status \in Terminal => fin' \in Over
    BY <2>1, <2>2 DEF LifeInv, Over
  <2>5. boot' \notin {"creating", "failed", None}
    BY <2>1 DEF Started, None
  <2> QED BY <2>1, <2>3, <2>4, <2>5 DEF LifeInv, Over
<1>5. CASE Crash
  <2>1. /\ ~Started' /\ boot' = None /\ intent' = None /\ fin' = None /\ runner' = None /\ tail' = <<>>
        /\ ~busy' /\ waiters' = <<>> /\ reports' = 0 /\ UNCHANGED <<rec, res, end>>
        /\ \A i \in Agents : pc'[i] = "idle" /\ cand'[i] = None /\ handle'[i] = None /\ draft'[i] = None
        /\ host' = IF rec.status = "running" THEN "reading" ELSE "up"
    BY <1>5 DEF Crash, Restarted, Recovering, disk, journal, Started, None
  <2> QED BY <2>1 DEF LifeInv, None
<1>6. CASE RecoverySteps \/ RecoveryFails
  <2>1. /\ host # "up" /\ UNCHANGED <<boot, intent, fin, runner, tail, busy, waiters, reports, pc, cand, handle>>
        /\ \/ UNCHANGED rec /\ host' # "up"
           \/ Recovered
    BY <1>6 DEF RecoverySteps, RecoveryReads, Backfills, EndBackfilled, Recovered, RecoveryFails, service,
                final, inbox, slots, report, calls, disk, journal
  <2>2. ~Started /\ boot = None /\ rec.status = "running"
    BY <2>1 DEF LifeInv, Started, None
  <2>3. CASE UNCHANGED rec /\ host' # "up"
    BY <2>1, <2>2, <2>3 DEF LifeInv, Started, None, Terminal
  <2>4. CASE Recovered
    <3>1. rec'.status = end /\ end # None /\ host' = "up" /\ \A i \in Agents : draft'[i] = None
      BY <2>4 DEF Recovered, RecoverInv
    <3> QED BY <2>1, <2>2, <3>1 DEF LifeInv, Started, None
  <2> QED BY <2>1, <2>3, <2>4
<1>7. CASE UNCHANGED vars
  BY <1>7 DEF vars, service, inbox, slots, calls, final, report, disk, journal, LifeInv, Started
<1> QED BY <1>1, <1>2, <1>3, <1>4, <1>5, <1>6, <1>7 DEF Next, BootSteps

----------------------------------------
(* Recovery                                                                *)

\* Only recovery, and the death of the host, move a host that is not up.
LEMMA HostStays ==
  ASSUME TypeOK, LifeInv, [Next]_vars, ~Crash, ~RecoverySteps, ~RecoveryFails
  PROVE  /\ UNCHANGED host
         /\ host = "up" \/ UNCHANGED vars \/ RequestStopAll
<1>1. CASE Create \/ CreateFails \/ Created \/ RequestStopAll \/ StopAll
  BY <1>1 DEF Create, CreateFails, Created, RequestStopAll, StopAll
<1>2. CASE \/ Launched \/ LaunchFails \/ Stop \/ ScriptEmits \/ RunnerExits \/ QueueSteps \/ RegisterFails
           \/ EmitFails \/ FinalSteps \/ EndFails \/ WriteFails
           \/ \E s \in Terminal : ScriptEnds(s)
           \/ \E i \in Agents : \/ ScriptCalls(i) \/ AgentSteps(i) \/ RecordFails(i) \/ JournalFails(i)
                                \/ StoreFails(i) \/ \E s \in Terminal : TurnSettles(i, s)
  BY <1>2, StartedFirst
<1>3. CASE UNCHANGED vars
  BY <1>3 DEF vars
<1> QED BY <1>1, <1>2, <1>3 DEF Next, BootSteps

\* Every step keeps what recovery has read.
LEMMA RecoverNext ==
  ASSUME TypeOK, LifeInv, RecoverInv, [Next]_vars
  PROVE  RecoverInv'
<1>a. ASSUME NEW agents \in [Agents -> Marks], Active(agents) = {} PROVE \A i \in Agents : agents[i] \in Results
  BY <1>a DEF Active, Marks
<1>1. CASE RecoveryReads
  <2>1. draft' = Adopted /\ Adopted \in [Agents -> Marks] /\ UNCHANGED <<res, end>>
    BY <1>1 DEF RecoveryReads, Adopted, TypeOK, Marks, disk, journal
  <2>2. \A i \in Agents : res[i] # None => draft'[i] = res[i]
    BY <2>1 DEF Adopted
  <2>3. host' = "writing" => end # None /\ Active(Adopted) = {}
    BY <1>1 DEF RecoveryReads
  <2> QED BY <1>a, <2>1, <2>2, <2>3 DEF RecoverInv
<1>2. ASSUME NEW i \in Agents, Backfills(i) PROVE RecoverInv'
  <2>1. /\ host = "backfilling" /\ UNCHANGED host
        /\ res' = [res EXCEPT ![i] = "stopped"] /\ draft' = [draft EXCEPT ![i] = "stopped"]
    BY <1>2 DEF Backfills
  <2>2. \A j \in Agents : res'[j] # None => draft'[j] = res'[j]
    BY <2>1 DEF RecoverInv, TypeOK
  <2> QED BY <2>1, <2>2 DEF RecoverInv
<1>3. CASE EndBackfilled
  <2>1. host = "backfilling" /\ UNCHANGED <<res, draft>> /\ end' = "stopped" /\ \A i \in Agents : draft[i] \in Results
    BY <1>a, <1>3 DEF EndBackfilled, TypeOK, calls
  <2> QED BY <2>1 DEF RecoverInv, None
<1>4. CASE Recovered \/ RecoveryFails
  BY <1>4 DEF Recovered, RecoveryFails, RecoverInv
<1>5. CASE Crash
  BY <1>5 DEF Crash, RecoverInv
<1>6. CASE ~Crash /\ ~RecoverySteps /\ ~RecoveryFails
  <2>1. UNCHANGED host /\ (host = "up" \/ UNCHANGED <<res, draft, end>>)
    BY <1>6, HostStays DEF vars, calls, disk, journal, RequestStopAll
  <2> QED BY <2>1 DEF RecoverInv
<1> QED BY <1>1, <1>2, <1>3, <1>4, <1>5, <1>6 DEF RecoverySteps

----------------------------------------
(* The runner                                                              *)

\* No step brings the runner back behind the stop of finalize.
LEMMA RunnerNext ==
  ASSUME TypeOK, LifeInv, EndInv, RunnerInv, [Next]_vars
  PROVE  RunnerInv'
<1> DEFINE Down == runner \in {None, "gone"}
<1>a. ASSUME fin' = fin, fin # None => stuck' = stuck, Down => Down' PROVE RunnerInv'
  BY <1>a DEF RunnerInv, Ending, Written, Over, None
<1>b. ASSUME fin' \in {None, "stopping"} PROVE RunnerInv'
  BY <1>b DEF RunnerInv, Ending, Written, Over, None
<1>c. ASSUME EndsOrNot, Down => Down' PROVE RunnerInv'
  <2>1. (fin' = fin \/ fin' = "stopping") /\ (fin # None => stuck' = stuck)
    BY <1>c, EndsOrNotMoves
  <2> QED BY <1>a, <1>b, <1>c, <2>1
<1>1. CASE Created
  <2>1. fin' \in {None, "stopping"}
    BY <1>1, RunEnds, EndsOrNotMoves DEF BootSteps, Created, LifeInv, Started
  <2> QED BY <1>b, <2>1
<1>2. CASE \/ Create \/ CreateFails \/ Launched \/ LaunchFails \/ Stop \/ StopAll \/ RequestStopAll
           \/ ScriptEmits \/ RunnerExits \/ (\E s \in Terminal : ScriptEnds(s))
           \/ \E i \in Agents : ScriptCalls(i)
  <2>1. EndsOrNot
    BY <1>2, RunEnds DEF BootSteps
  <2>2. Down => Down'
    BY <1>2 DEF Create, CreateFails, Launched, LaunchFails, Stop, StopAll, Stops, RequestStopAll, ScriptEmits, RunnerExits,
                ScriptEnds, ScriptCalls, None
  <2> QED BY <1>c, <2>1, <2>2
<1>3. CASE QueueSteps \/ RegisterFails \/ EmitFails
  BY <1>c, <1>3, QueueEnds
<1>4. ASSUME NEW i \in Agents,
             \/ AgentSteps(i) \/ RecordFails(i) \/ JournalFails(i) \/ StoreFails(i) \/ Leftover(i)
             \/ \E s \in Terminal : TurnSettles(i, s)
      PROVE  RunnerInv'
  BY <1>b, <1>c, <1>4, CallEnds, FinalizeFailsEnds
<1>5. CASE RunnerStopped
  BY <1>5 DEF RunnerStopped, RunnerInv, Ending, Written, Over
<1>6. CASE \/ HandlesKnown \/ Drained \/ EndJournaled \/ EndWritten \/ Delivered \/ \E i \in Agents : HandleClosed(i)
  BY <1>6 DEF HandlesKnown, Drained, EndJournaled, EndWritten, Delivered, HandleClosed, RunnerInv, Ending,
              Written, Over, final
<1>7. CASE ClosesSettled \/ Completed \/ EndFails \/ WriteFails
  <2>1. CASE FinalizeFails
    BY <1>b, <2>1, FinalizeFailsEnds
  <2>2. CASE ~FinalizeFails
    BY <1>7, <2>2 DEF ClosesSettled, Completed, EndFails, WriteFails, RunnerInv, Ending, Written, Over
  <2> QED BY <2>1, <2>2
<1>8. CASE RecoverySteps \/ RecoveryFails \/ UNCHANGED vars
  BY <1>a, <1>8 DEF RecoverySteps, RecoveryReads, Backfills, EndBackfilled, Recovered, RecoveryFails, vars, final
<1>9. CASE Crash
  BY <1>b, <1>9 DEF Crash, Restarted
<1> QED BY <1>1, <1>2, <1>3, <1>4, <1>5, <1>6, <1>7, <1>8, <1>9 DEF Next, BootSteps, FinalSteps

----------------------------------------
(* The TeamMates                                                           *)

\* A TeamMate begins to be created only while the run is not ending.
LEMMA CreatesInTime ==
  ASSUME TypeOK, SlotInv, NEW i \in Agents,
         \/ AgentSteps(i) \/ RecordFails(i) \/ JournalFails(i) \/ StoreFails(i) \/ Leftover(i)
         \/ \E s \in Terminal : TurnSettles(i, s)
  PROVE  \/ intent = None /\ UNCHANGED <<fin, handle>>
         \/ /\ \A j \in Agents : pc'[j] = "creating" => pc[j] = "creating"
            /\ UNCHANGED handle \/ (pc[i] = "creating" /\ UNCHANGED fin)
<1>0. pc \in [Agents -> Paths] /\ "lost" \in Paths /\ "done" \in Paths
  BY DEF TypeOK, Paths
<1>1. \A j \in Agents : j # i => (pc'[j] = "creating" => pc[j] = "creating")
  BY CallMoves DEF Stays
<1>a. ASSUME NEW s, Completes(i, s) PROVE pc'[i] # "creating"
  BY <1>0, <1>a DEF Completes
<1>b. ASSUME Lost(i), pc[i] # "waiting" PROVE pc'[i] # "creating"
  BY <1>0, <1>b, ReleaseMoves DEF Lost
<1>c. ASSUME Thrown(i), pc[i] # "waiting" PROVE pc'[i] # "creating"
  BY <1>0, <1>b, <1>c DEF Thrown
<1>2. CASE TurnedAway(i) \/ TeammateFails(i) \/ Leftover(i)
  BY <1>1, <1>a, <1>2 DEF TurnedAway, TeammateFails, Leftover
<1>3. CASE Granted(i) \/ Recorded(i)
  BY <1>0, <1>1, <1>a, <1>3 DEF Granted, Recorded, final
<1>4. CASE TeammateCreated(i) \/ Admitted(i)
  BY <1>0, <1>1, <1>4 DEF TeammateCreated, Admitted, final
<1>5. ASSUME NEW s, NotAdmitted(i, s) \/ TurnSettles(i, s)
      PROVE  (\A j \in Agents : pc'[j] = "creating" => pc[j] = "creating") /\ UNCHANGED handle
  BY <1>1, <1>a, <1>5 DEF NotAdmitted, TurnSettles
<1>6. CASE Journaled(i)
  BY <1>0, <1>1, <1>c, <1>6 DEF Journaled
<1>7. CASE RecordFails(i) \/ JournalFails(i) \/ StoreFails(i)
  BY <1>1, <1>b, <1>c, <1>7 DEF RecordFails, JournalFails, StoreFails
<1>8. CASE Stored(i)
  BY <1>0, <1>1, <1>8, ReleaseMoves DEF Stored
<1> QED BY <1>2, <1>3, <1>4, <1>5, <1>6, <1>7, <1>8 DEF AgentSteps

\* No step opens a TeamMate behind the closes.
LEMMA HandleNext ==
  ASSUME TypeOK, LifeInv, SlotInv, EndInv, HandleInv, [Next]_vars
  PROVE  HandleInv'
<1>a. ASSUME fin' \in {None, "stopping"} PROVE HandleInv'
  BY <1>a DEF HandleInv, Behind, Still, Ending, Written, Over, None
<1>b. ASSUME fin' = fin, UNCHANGED handle, \A i \in Agents : pc'[i] = "creating" => pc[i] = "creating"
      PROVE  HandleInv'
  BY <1>b DEF HandleInv
<1>c. ASSUME EndsOrNot, UNCHANGED handle, \A i \in Agents : pc'[i] = "creating" => pc[i] = "creating"
      PROVE  HandleInv'
  BY <1>a, <1>b, <1>c, EndsOrNotMoves
<1>1. CASE \/ Create \/ CreateFails \/ BootSteps \/ Stop \/ StopAll \/ RequestStopAll
           \/ ScriptEmits \/ RunnerExits \/ (\E s \in Terminal : ScriptEnds(s))
           \/ \E i \in Agents : ScriptCalls(i)
  <2>1. UNCHANGED handle /\ \A i \in Agents : pc'[i] = "creating" => pc[i] = "creating"
    BY <1>1 DEF Create, CreateFails, BootSteps, Created, Launched, LaunchFails, Stop, StopAll, Stops, RequestStopAll,
                ScriptEmits, RunnerExits, ScriptEnds, ScriptCalls, calls, TypeOK
  <2> QED BY <1>1, <1>c, <2>1, RunEnds
<1>2. CASE QueueSteps \/ RegisterFails \/ EmitFails
  <2>0. pc \in [Agents -> Paths]
    BY DEF TypeOK
  <2>1. \A i \in Agents : pc'[i] = "creating" => pc[i] = "creating"
    <3>1. CASE Registered
      BY <2>0, <3>1 DEF Registered, Acquire
    <3>2. CASE ~Registered
      BY <1>2, <2>0, <3>2 DEF QueueSteps, RegisterFails, EmitFails, AgentRefused, AgentStarts, EmitWritten,
                              ResultHandled, calls
    <3> QED BY <3>1, <3>2
  <2> QED BY <1>2, <1>c, <2>1, QueueEnds
<1>3. ASSUME NEW i \in Agents,
             \/ AgentSteps(i) \/ RecordFails(i) \/ JournalFails(i) \/ StoreFails(i) \/ Leftover(i)
             \/ \E s \in Terminal : TurnSettles(i, s)
      PROVE  HandleInv'
  <2>1. CASE fin' \in {None, "stopping"}
    BY <1>a, <2>1
  <2>2. CASE fin' \notin {None, "stopping"}
    <3>1. fin' = fin /\ fin # None
      BY <1>3, <2>2, CallEnds, EndsOrNotMoves, FinalizeFailsEnds
    <3>2. intent # None
      BY <3>1 DEF EndInv
    <3>3. /\ \A j \in Agents : pc'[j] = "creating" => pc[j] = "creating"
          /\ UNCHANGED handle \/ pc[i] = "creating"
      BY <1>3, <3>2, CreatesInTime
    <3>4. pc[i] = "creating" => fin \notin {"closing"} \cup Behind
      BY DEF HandleInv
    <3>5. CASE UNCHANGED handle
      BY <1>b, <3>1, <3>3, <3>5
    <3>6. CASE pc[i] = "creating"
      BY <3>1, <3>4, <3>6 DEF HandleInv, Behind, Still, Ending, Written, Over
    <3> QED BY <3>3, <3>5, <3>6
  <2> QED BY <2>1, <2>2
<1>4. CASE ClosesSettled
  <2>1. CASE FinalizeFails
    BY <1>a, <2>1, FinalizeFailsEnds
  <2>2. CASE ~FinalizeFails
    <3>1. /\ fin = "closing" /\ fin' = "draining" /\ UNCHANGED <<pc, handle>>
          /\ \A i \in Agents : handle[i] # "open" /\ handle[i] # "unclosed"
      BY <1>4, <2>2 DEF ClosesSettled
    <3> QED BY <3>1 DEF HandleInv, Behind, Still, Ending, Written, Over, TypeOK
  <2> QED BY <2>1, <2>2
<1>5. CASE EndWritten
  <2>1. fin = "writing" /\ fin' \in Over /\ handle' = Unlocked /\ UNCHANGED pc
    BY <1>5 DEF EndWritten, Over
  <2>2. \A i \in Agents : handle[i] \in {None, "closed", "unlocked"} /\ pc[i] # "creating"
    BY <2>1 DEF HandleInv, Behind, Still, Ending, Written
  <2>3. \A i \in Agents : handle'[i] \in {None, "unlocked"}
    BY <2>1, <2>2 DEF Unlocked, None
  <2> QED BY <2>1, <2>2, <2>3 DEF HandleInv
<1>6. ASSUME NEW i \in Agents, HandleClosed(i) PROVE HandleInv'
  BY <1>6 DEF HandleClosed, HandleInv, Behind, Still, Ending, Written, Over, final
<1>7. CASE RunnerStopped \/ HandlesKnown \/ Drained \/ Delivered
  BY <1>7 DEF RunnerStopped, HandlesKnown, Materialized, Drained, Delivered, HandleInv, Behind,
              Still, Ending, Written, Over, calls, journal
<1>8. CASE Completed \/ EndJournaled \/ EndFails \/ WriteFails
  <2>1. CASE FinalizeFails
    BY <1>a, <2>1, FinalizeFailsEnds
  <2>2. CASE ~FinalizeFails
    BY <1>8, <2>2 DEF Completed, EndJournaled, EndFails, WriteFails, HandleInv, Behind, Still, Ending, Written, Over, calls
  <2> QED BY <2>1, <2>2
<1>9. CASE RecoverySteps \/ RecoveryFails \/ UNCHANGED vars
  BY <1>b, <1>9 DEF RecoverySteps, RecoveryReads, Backfills, EndBackfilled, Recovered, RecoveryFails, vars,
                    final, calls
<1>10. CASE Crash
  BY <1>a, <1>10 DEF Crash, Restarted
<1> QED BY <1>1, <1>2, <1>3, <1>4, <1>5, <1>6, <1>7, <1>8, <1>9, <1>10 DEF Next, FinalSteps

----------------------------------------
(* Behind the drain                                                        *)

\* Behind the drain a call moves only where finalize completes it.
LEMMA StillCalls ==
  ASSUME TypeOK, SlotInv, StillInv, NEW i \in Agents,
         \/ AgentSteps(i) \/ RecordFails(i) \/ JournalFails(i) \/ StoreFails(i) \/ Leftover(i)
         \/ \E s \in Terminal : TurnSettles(i, s)
  PROVE  StillInv'
<1>0. pc \in [Agents -> Paths] /\ {"done", "storing", "journaling"} \subseteq Paths
  BY DEF TypeOK, Paths
<1>1. CASE fin' \notin Still
  BY <1>1 DEF StillInv, Still
<1>2. CASE fin' \in Still
  <2>1. fin' = fin
    BY <1>2, CallEnds, EndsOrNotMoves, FinalizeFailsEnds DEF Still, Ending, Written, Over, None
  <2>2. /\ pc[i] \in {"idle", "refused", "done", "lost", "journaling", "storing"} /\ i \notin holds
        /\ fin \in Ending => pc[i] \in {"idle", "refused", "done"}
    BY <1>2, <2>1 DEF StillInv
  <2>3. UNCHANGED inbox
    BY CallMoves
  <2>4. fin = "leftovers" /\ pc[i] \in {"lost", "journaling", "storing"}
    <3>1. pc[i] \notin {"idle", "refused", "done"}
      BY DEF AgentSteps, RecordFails, JournalFails, StoreFails, Leftover, TurnSettles, TurnedAway, Granted,
             Recorded, TeammateCreated, TeammateFails, Admitted, NotAdmitted, Journaled, Stored
    <3> QED BY <1>2, <2>1, <2>2, <3>1 DEF Still
  <2>5. Journaled(i) \/ Stored(i) \/ JournalFails(i) \/ StoreFails(i) \/ Leftover(i)
    BY <2>4 DEF AgentSteps, RecordFails, TurnSettles, TurnedAway, Granted, Recorded, TeammateCreated,
                TeammateFails, Admitted, NotAdmitted
  <2>6. ~Thrown(i)
    BY <2>1, <2>4, FinalizeFailsEnds DEF Thrown, None
  <2>7. \E p \in {"done", "storing", "journaling"} : pc' = [pc EXCEPT ![i] = p]
    <3>1. CASE Stored(i)
      <4>1. Release(i, [pc EXCEPT ![i] = "done"], waiters)
        BY <3>1 DEF Stored
      <4> QED BY <2>2, <4>1 DEF Release
    <3>2. CASE ~Stored(i)
      BY <2>5, <2>6, <3>2 DEF Journaled, JournalFails, StoreFails, Leftover, Completes
    <3> QED BY <3>1, <3>2
  <2>8. holds' = holds
    <3>1. CASE Stored(i)
      <4>1. Release(i, [pc EXCEPT ![i] = "done"], waiters)
        BY <3>1 DEF Stored
      <4> QED BY <2>2, <4>1 DEF Release
    <3>2. CASE ~Stored(i)
      BY <2>5, <2>6, <3>2 DEF Journaled, JournalFails, StoreFails, Leftover, slots
    <3> QED BY <3>1, <3>2
  <2>9. \A j \in Agents : pc'[j] \in {"idle", "refused", "done", "lost", "journaling", "storing"}
    BY <1>0, <1>2, <2>1, <2>7 DEF StillInv
  <2>10. fin' \notin Ending
    BY <2>1, <2>4 DEF Ending, Written, Over
  <2> QED BY <1>2, <2>1, <2>3, <2>8, <2>9, <2>10 DEF StillInv, inbox
<1> QED BY <1>1, <1>2

\* Every step leaves what is still so.
LEMMA StillNext ==
  ASSUME TypeOK, LifeInv, SlotInv, EndInv, StillInv, [Next]_vars
  PROVE  StillInv'
<1>a. ASSUME fin' \in {None, "stopping", "materializing", "closing", "draining"} PROVE StillInv'
  BY <1>a DEF StillInv, Still, Ending, Written, Over, None
<1>b. ASSUME fin' = fin, UNCHANGED <<busy, tail, holds, pc>> PROVE StillInv'
  BY <1>b DEF StillInv
<1>c. ASSUME EndsOrNot, UNCHANGED <<busy, tail, holds, pc>> \/ intent = None PROVE StillInv'
  <2>1. fin' = fin \/ fin' = "stopping"
    BY <1>c, EndsOrNotMoves
  <2>2. intent = None => fin = None
    BY DEF EndInv
  <2> QED BY <1>a, <1>b, <1>c, <2>1, <2>2
<1>1. CASE \/ Create \/ CreateFails \/ BootSteps \/ Stop \/ StopAll \/ RequestStopAll
           \/ ScriptEmits \/ RunnerExits \/ (\E s \in Terminal : ScriptEnds(s))
           \/ \E i \in Agents : ScriptCalls(i)
  <2>1. UNCHANGED <<busy, tail, holds, pc>> \/ intent = None
    BY <1>1 DEF Create, CreateFails, BootSteps, Created, Launched, LaunchFails, Stop, StopAll, Stops, RequestStopAll,
                ScriptEmits, RunnerExits, ScriptEnds, ScriptCalls, Listening, calls, inbox, slots
  <2> QED BY <1>1, <1>c, <2>1, RunEnds
<1>2. CASE QueueSteps \/ RegisterFails \/ EmitFails
  <2>0. tail # <<>> => /\ Message = tail[1] /\ 1 \in 1..Len(tail) /\ Len(tail) \in Nat
                       /\ \A k \in 1..Len(Tail(tail)) : k + 1 \in 1..Len(tail) /\ Tail(tail)[k] = tail[k + 1]
    BY DEF Message, TypeOK
  <2>1. CASE fin \in Still
    <3>1. /\ ~busy /\ \A k \in 1..Len(tail) : tail[k] \notin Agents \cup {"emit"}
      BY <2>1 DEF StillInv
    <3>2. ResultHandled
      BY <1>2, <2>0, <3>1 DEF QueueSteps, RegisterFails, EmitFails, AgentRefused, AgentStarts, Registered,
                              EmitWritten, Ready
    <3>3. tail # <<>> /\ tail' = Tail(tail) /\ ~busy' /\ UNCHANGED <<holds, pc>>
      BY <3>2 DEF ResultHandled, Ready, Handled, calls
    <3>4. \A k \in 1..Len(tail') : tail'[k] \notin Agents \cup {"emit"}
      BY <2>0, <3>1, <3>3
    <3>5. fin' = fin
      BY <1>2, <2>1, QueueEnds, EndsOrNotMoves DEF Still, Ending, Written, Over, None
    <3> QED BY <2>1, <3>3, <3>4, <3>5 DEF StillInv
  <2>2. CASE fin \notin Still
    <3>1. fin' = fin \/ fin' = "stopping"
      BY <1>2, QueueEnds, EndsOrNotMoves
    <3> QED BY <2>2, <3>1, <1>a DEF StillInv, Still
  <2> QED BY <2>1, <2>2
<1>3. ASSUME NEW i \in Agents,
             \/ AgentSteps(i) \/ RecordFails(i) \/ JournalFails(i) \/ StoreFails(i) \/ Leftover(i)
             \/ \E s \in Terminal : TurnSettles(i, s)
      PROVE  StillInv'
  BY <1>3, StillCalls
<1>4. CASE \/ RunnerStopped \/ HandlesKnown \/ ClosesSettled \/ Drained \/ Completed
           \/ EndJournaled \/ EndWritten \/ Delivered \/ EndFails \/ WriteFails
           \/ \E i \in Agents : HandleClosed(i)
  <2>1. UNCHANGED <<busy, tail, holds, pc>>
    BY <1>4, FinalEnds DEF inbox, slots
  <2>2. CASE Drained
    <3>1. Quiet /\ fin' = "leftovers"
      BY <2>2 DEF Drained
    <3>2. ~busy /\ \A k \in 1..Len(tail) : tail[k] \notin Agents \cup {"emit"}
      BY <3>1, RunAssumption DEF Quiet, Terminal
    <3>3. \A i \in Agents : pc[i] \in {"idle", "refused", "done", "lost"} /\ i \notin holds
      BY <3>1 DEF Quiet, SlotInv, Holding, Working
    <3> QED BY <2>1, <3>1, <3>2, <3>3 DEF StillInv, Ending, Written, Over
  <2>3. CASE Completed /\ fin' = "ending"
    <3>1. fin = "leftovers" /\ AllCompleted
      BY <2>3 DEF Completed
    <3>2. \A i \in Agents : pc[i] \in {"idle", "refused", "done"}
      BY <3>1 DEF AllCompleted
    <3> QED BY <2>1, <2>3, <3>1, <3>2 DEF StillInv, Still, Ending
  <2>4. CASE fin \in Ending /\ fin' \in Ending
    BY <2>1, <2>4 DEF StillInv, Still
  <2>5. CASE ~Drained /\ ~(Completed /\ fin' = "ending") /\ ~(fin \in Ending /\ fin' \in Ending)
    <3>1. fin' \in {None, "stopping", "materializing", "closing", "draining"}
      <4>1. fin = "leftovers" /\ fin' = "ending" => Completed
        BY <1>4 DEF RunnerStopped, HandlesKnown, ClosesSettled, Completed, Drained, EndJournaled, EndWritten,
                    Delivered, EndFails, WriteFails, HandleClosed
      <4>2. fin = "draining" /\ fin' = "leftovers" => Drained
        BY <1>4 DEF RunnerStopped, HandlesKnown, ClosesSettled, Completed, Drained, EndJournaled, EndWritten,
                    Delivered, EndFails, WriteFails, HandleClosed
      <4> QED BY <1>4, <2>5, <4>1, <4>2, FinalEnds DEF Ending, Written, Over
    <3> QED BY <1>a, <3>1
  <2> QED BY <2>2, <2>3, <2>4, <2>5
<1>5. CASE RecoverySteps \/ RecoveryFails \/ UNCHANGED vars
  BY <1>b, <1>5 DEF RecoverySteps, RecoveryReads, Backfills, EndBackfilled, Recovered, RecoveryFails, vars,
                    final, calls, inbox, slots
<1>6. CASE Crash
  BY <1>a, <1>6 DEF Crash, Restarted
<1> QED BY <1>1, <1>2, <1>3, <1>4, <1>5, <1>6 DEF Next, FinalSteps

----------------------------------------
(* The calls                                                               *)

\* A call that is left alone, or is given a slot.
LEMMA CallStays ==
  ASSUME NEW j \in Agents, CallStands(j), Stays(j), res'[j] = res[j], cand'[j] = cand[j], draft'[j] = draft[j]
  PROVE  CallStands(j)'
  BY DEF CallStands, Stays, Early

\* A call that completes has its first result.
LEMMA CallCompletes ==
  ASSUME TypeOK, NEW i \in Agents, CallStands(i), NEW status \in Terminal, Completes(i, status), UNCHANGED res
  PROVE  /\ CallStands(i)'
         /\ \A j \in Agents : j # i => cand'[j] = cand[j] /\ draft'[j] = draft[j] /\ res'[j] = res[j]
<1>1. /\ cand'[i] = Candidate(i, status) /\ draft'[i] = Candidate(i, status) /\ pc'[i] = "journaling"
      /\ \A j \in Agents : j # i => cand'[j] = cand[j] /\ draft'[j] = draft[j]
  BY DEF Completes, TypeOK
<1>2. Candidate(i, status) # None /\ (cand[i] # None => Candidate(i, status) = cand[i])
  BY DEF Candidate, Terminal, None
<1> QED BY <1>1, <1>2 DEF CallStands, Early

\* The steps of a call.
LEMMA CallStep ==
  ASSUME TypeOK, SlotInv, NEW i \in Agents, \A j \in Agents : CallStands(j),
         \/ AgentSteps(i) \/ RecordFails(i) \/ JournalFails(i) \/ StoreFails(i) \/ Leftover(i)
         \/ \E s \in Terminal : TurnSettles(i, s)
  PROVE  \A j \in Agents : CallStands(j)'
<1>0. /\ pc \in [Agents -> Paths] /\ {"done", "lost", "storing", "marking"} \subseteq Paths
      /\ cand \in [Agents -> Results] /\ draft \in [Agents -> Marks] /\ res \in [Agents -> Results]
  BY DEF TypeOK, Paths
<1> DEFINE Others == \A j \in Agents : j # i => cand'[j] = cand[j] /\ draft'[j] = draft[j] /\ res'[j] = res[j]
<1> SUFFICES Others /\ CallStands(i)'
  BY CallMoves, CallStays
<1>s. "stopped" \in Terminal /\ Blamed \in Terminal
  BY BlamedType DEF Terminal
<1>a. ASSUME NEW s \in Terminal, Completes(i, s), UNCHANGED res PROVE Others /\ CallStands(i)'
  BY <1>a, CallCompletes
<1>b. ASSUME pc[i] # "waiting", Lost(i) \/ Thrown(i) PROVE pc'[i] = "lost"
  <2>1. CASE Lost(i)
    BY <1>0, <1>b, <2>1, ReleaseMoves DEF Lost
  <2>2. CASE Thrown(i)
    BY <1>0, <2>1, <2>2 DEF Thrown
  <2> QED BY <1>b, <2>1, <2>2
<1>c. ASSUME pc'[i] = "lost", UNCHANGED <<cand, draft>>,
             res' = res \/ res' = [res EXCEPT ![i] = cand[i]]
      PROVE  Others /\ CallStands(i)'
  <2>1. Others /\ res'[i] \in {res[i], cand[i]}
    BY <1>0, <1>c
  <2> QED BY <1>c, <2>1 DEF CallStands, Early
<1>d. ASSUME NEW p \in Early, pc[i] \in Early, pc' = [pc EXCEPT ![i] = p], UNCHANGED <<cand, res>>,
             draft' = draft \/ draft' = [draft EXCEPT ![i] = "running"]
      PROVE  Others /\ CallStands(i)'
  <2>1. Others /\ pc'[i] = p
    BY <1>0, <1>d
  <2> QED BY <1>d, <2>1 DEF CallStands, Early
<1>1. CASE TurnedAway(i) \/ TeammateFails(i) \/ Leftover(i)
  BY <1>a, <1>s, <1>1 DEF TurnedAway, TeammateFails, Leftover, disk, journal
<1>2. CASE Granted(i)
  <2>1. CASE Completes(i, "stopped")
    BY <1>a, <1>s, <1>2, <2>1 DEF Granted, disk, journal
  <2>2. CASE ~Completes(i, "stopped")
    <3>1. /\ pc[i] = "granted" /\ pc' = [pc EXCEPT ![i] = "marking"] /\ UNCHANGED <<cand, res>>
          /\ draft' = [draft EXCEPT ![i] = "running"]
      BY <1>2, <2>2 DEF Granted, disk, journal
    <3> QED BY <1>d, <3>1 DEF Early
  <2> QED BY <2>1, <2>2
<1>3. CASE Recorded(i)
  <2>1. CASE Completes(i, "stopped")
    BY <1>a, <1>s, <1>3, <2>1 DEF Recorded, journal
  <2>2. CASE ~Completes(i, "stopped")
    <3>1. /\ pc[i] \in {"marking", "noting"} /\ UNCHANGED <<cand, draft, res>>
          /\ pc' = [pc EXCEPT ![i] = "creating"] \/ pc' = [pc EXCEPT ![i] = "submitting"]
      BY <1>3, <2>2 DEF Recorded, journal
    <3> QED BY <1>d, <3>1 DEF Early
  <2> QED BY <2>1, <2>2
<1>4. CASE TeammateCreated(i) \/ Admitted(i)
  <2>1. /\ pc[i] \in {"creating", "submitting"} /\ UNCHANGED <<cand, draft, res>>
        /\ pc' = [pc EXCEPT ![i] = "noting"] \/ pc' = [pc EXCEPT ![i] = "working"]
    BY <1>4 DEF TeammateCreated, Admitted, disk, journal
  <2> QED BY <1>d, <2>1 DEF Early
<1>5. ASSUME NEW s \in Terminal, NotAdmitted(i, s) \/ TurnSettles(i, s) PROVE Others /\ CallStands(i)'
  BY <1>a, <1>5 DEF NotAdmitted, TurnSettles, disk, journal
<1>6. CASE Journaled(i)
  <2>1. CASE Readable /\ Agrees(i)
    <3>1. /\ pc[i] = "journaling" /\ UNCHANGED <<cand, draft>> /\ res' = [res EXCEPT ![i] = cand[i]]
          /\ pc' = [pc EXCEPT ![i] = "storing"]
      BY <1>6, <2>1 DEF Journaled, journal
    <3>2. Others /\ pc'[i] = "storing" /\ res'[i] = cand[i]
      BY <1>0, <3>1
    <3> QED BY <3>1, <3>2 DEF CallStands, Early
  <2>2. CASE ~(Readable /\ Agrees(i))
    BY <1>b, <1>c, <1>6, <2>2 DEF Journaled
  <2> QED BY <2>1, <2>2
<1>7. CASE RecordFails(i) \/ JournalFails(i) \/ StoreFails(i)
  <2>1. /\ pc[i] # "waiting" /\ UNCHANGED <<cand, draft>> /\ (Lost(i) \/ Thrown(i))
        /\ res' = res \/ res' = [res EXCEPT ![i] = cand[i]]
    BY <1>7 DEF RecordFails, JournalFails, StoreFails, disk, journal
  <2> QED BY <1>b, <1>c, <2>1
<1>8. CASE Stored(i)
  <2>1. pc[i] = "storing" /\ UNCHANGED <<cand, draft, res>> /\ Release(i, [pc EXCEPT ![i] = "done"], waiters)
    BY <1>8 DEF Stored, journal
  <2>2. pc'[i] = "done"
    BY <1>0, <2>1, ReleaseMoves
  <2> QED BY <2>1, <2>2 DEF CallStands, Early
<1> QED BY <1>1, <1>2, <1>3, <1>4, <1>5, <1>6, <1>7, <1>8 DEF AgentSteps

\* Every step keeps each call to one result.
LEMMA CallNext ==
  ASSUME TypeOK, LifeInv, InboxInv, SlotInv, CallInv, [Next]_vars
  PROVE  CallInv'
<1>0. pc \in [Agents -> Paths] /\ draft \in [Agents -> Marks]
  BY DEF TypeOK
<1>a. ASSUME Started, UNCHANGED <<pc, res, cand, draft>> PROVE CallInv'
  BY <1>a DEF CallInv, CallStands, Started, None
<1>1. CASE Create
  <2>1. /\ boot = None /\ host = "up" /\ rec = Absent /\ UNCHANGED <<pc, cand, draft, res>>
    BY <1>1 DEF Create, calls, disk, journal
  <2>2. \A i \in Agents : pc[i] = "idle" /\ cand[i] = None /\ draft[i] = None /\ res[i] = None
    BY <2>1 DEF LifeInv, Started, Absent, None
  <2> QED BY <2>1, <2>2 DEF CallInv, CallStands, Early
<1>2. CASE CreateFails \/ Created \/ RequestStopAll \/ StopAll
  <2>1. boot' # None => boot # None
    BY <1>2 DEF CreateFails, Created, RequestStopAll, StopAll, None
  <2>2. UNCHANGED <<pc, cand, draft, res>>
    BY <1>2 DEF CreateFails, Created, RequestStopAll, StopAll, calls, disk, journal
  <2> QED BY <2>1, <2>2 DEF CallInv, CallStands
<1>3. CASE \/ Launched \/ LaunchFails \/ Stop \/ ScriptEmits \/ RunnerExits \/ \E s \in Terminal : ScriptEnds(s)
  <2>1. UNCHANGED <<pc, cand, draft, res>>
    BY <1>3 DEF Launched, LaunchFails, Stop, ScriptEmits, RunnerExits, ScriptEnds, calls, disk, journal
  <2> QED BY <1>3, <1>a, <2>1, StartedFirst
<1>4. ASSUME NEW i \in Agents, NEW p \in Paths \ {"journaling", "storing", "done"}, Started,
             pc[i] \in {"idle", "asked", "registering"}, pc[i] = "registering" => p \notin {"asked", "refused", "idle"},
             pc' = [pc EXCEPT ![i] = p], UNCHANGED <<cand, res>>,
             IF p = "registering" THEN draft' = [draft EXCEPT ![i] = "queued"] ELSE draft' = draft
      PROVE  CallInv'
  <2>1. /\ pc'[i] = p /\ \A j \in Agents : j # i => pc'[j] = pc[j] /\ draft'[j] = draft[j]
    BY <1>0, <1>4
  <2>2. \A j \in Agents : CallStands(j)
    BY <1>4 DEF CallInv, Started, None
  <2>3. \A j \in Agents : j # i => CallStands(j)'
    BY <1>4, <2>1, <2>2 DEF CallStands
  <2>4. CallStands(i)'
    <3>1. cand[i] = None /\ res[i] = None
      BY <1>4, <2>2 DEF CallStands, Early, None
    <3>2. cand'[i] = None /\ res'[i] = None
      BY <1>4, <3>1
    <3>3. p \in {"idle", "asked", "refused"} => draft'[i] = None
      BY <1>4, <2>2 DEF CallStands
    <3> QED BY <1>4, <2>1, <3>2, <3>3 DEF CallStands
  <2> QED BY <2>3, <2>4 DEF CallInv
<1>p. {"asked", "refused", "registering", "lost", "turned away", "granted", "waiting"}
        \subseteq Paths \ {"journaling", "storing", "done"}
  BY DEF Paths
<1>5. ASSUME NEW i \in Agents, ScriptCalls(i) PROVE CallInv'
  <2>1. Started
    BY <1>5, StartedFirst
  <2> QED BY <1>4, <1>5, <1>p, <2>1 DEF ScriptCalls, disk, journal
<1>6. CASE QueueSteps \/ RegisterFails \/ EmitFails
  <2>0. Started
    BY <1>6, StartedFirst
  <2>m. tail # <<>> => Message = tail[1] /\ 1 \in 1..Len(tail)
    BY DEF Message, TypeOK
  <2>1. CASE EmitWritten \/ EmitFails \/ ResultHandled
    BY <1>a, <2>0, <2>1 DEF EmitWritten, EmitFails, ResultHandled, calls, disk, journal
  <2>2. CASE AgentRefused \/ AgentStarts
    <3>1. PICK m \in Agents : m = Message /\ pc[m] = "asked"
      BY <2>m, <2>2 DEF AgentRefused, AgentStarts, Ready, InboxInv
    <3>2. CASE AgentRefused
      <4>1. pc' = [pc EXCEPT ![m] = "refused"] /\ UNCHANGED <<cand, res>> /\ draft' = draft
        BY <3>1, <3>2 DEF AgentRefused, disk, journal
      <4> QED BY <1>4, <1>p, <2>0, <3>1, <4>1
    <3>3. CASE AgentStarts
      <4>1. /\ pc' = [pc EXCEPT ![m] = "registering"] /\ UNCHANGED <<cand, res>>
            /\ draft' = [draft EXCEPT ![m] = "queued"]
        BY <3>1, <3>3 DEF AgentStarts, disk, journal
      <4> QED BY <1>4, <1>p, <2>0, <3>1, <4>1
    <3> QED BY <2>2, <3>2, <3>3
  <2>3. CASE RegisterFails
    <3>1. PICK m \in Agents : m = Message /\ pc[m] = "registering"
      BY <2>m, <2>3 DEF RegisterFails, InboxInv
    <3>2. pc' = [pc EXCEPT ![m] = "lost"] /\ UNCHANGED <<cand, res>> /\ draft' = draft
      BY <2>3, <3>1 DEF RegisterFails, disk, journal
    <3> QED BY <1>4, <1>p, <2>0, <3>1, <3>2
  <2>4. CASE Registered
    <3>1. PICK m \in Agents : m = Message /\ pc[m] = "registering"
      BY <2>m, <2>4 DEF Registered, InboxInv
    <3>2. PICK p \in {"turned away", "granted", "waiting"} : pc' = [pc EXCEPT ![m] = p]
      BY <2>4, <3>1 DEF Registered, Acquire
    <3>3. UNCHANGED <<cand, res, draft>>
      BY <2>4 DEF Registered, journal
    <3> QED BY <1>4, <1>p, <2>0, <3>1, <3>2, <3>3
  <2> QED BY <1>6, <2>1, <2>2, <2>3, <2>4 DEF QueueSteps
<1>7. ASSUME NEW i \in Agents,
             \/ AgentSteps(i) \/ RecordFails(i) \/ JournalFails(i) \/ StoreFails(i) \/ Leftover(i)
             \/ \E s \in Terminal : TurnSettles(i, s)
      PROVE  CallInv'
  <2>1. \A j \in Agents : CallStands(j)
    BY <1>7, StartedFirst DEF CallInv, Started, None, FinalSteps
  <2> QED BY <1>7, <2>1, CallStep DEF CallInv
<1>8. CASE \/ RunnerStopped \/ HandlesKnown \/ ClosesSettled \/ Drained \/ Completed
           \/ EndJournaled \/ EndWritten \/ Delivered \/ EndFails \/ WriteFails
           \/ \E i \in Agents : HandleClosed(i)
  BY <1>8, <1>a, FinalEnds, StartedFirst DEF FinalSteps
<1>9. CASE RecoverySteps \/ RecoveryFails
  <2>1. host # "up" /\ UNCHANGED boot
    BY <1>9 DEF RecoverySteps, RecoveryReads, Backfills, EndBackfilled, Recovered, RecoveryFails, service
  <2> QED BY <2>1 DEF LifeInv, CallInv
<1>10. CASE Crash
  BY <1>10 DEF Crash, Restarted, CallInv
<1>11. CASE UNCHANGED vars
  BY <1>11 DEF vars, service, calls, disk, journal, CallInv, CallStands
<1> QED BY <1>1, <1>2, <1>3, <1>5, <1>6, <1>7, <1>8, <1>9, <1>10, <1>11 DEF Next, BootSteps, FinalSteps

----------------------------------------
(* The record                                                              *)

\* What stands at the end: a call that was never heard of, or one settled as the journal has it.
LEMMA DraftAsJournaled ==
  ASSUME TypeOK, LifeInv, EndInv, CallInv, StillInv, fin \in Ending
  PROVE  \A i \in Agents : draft[i] \in Results /\ (res[i] # None => draft[i] = res[i])
<1>1. Started
  BY DEF EndInv, Ending, Written, Over, None
<1>2. SUFFICES ASSUME NEW i \in Agents
               PROVE  draft[i] \in Results /\ (res[i] # None => draft[i] = res[i])
  OBVIOUS
<1>3. pc[i] \in {"idle", "refused", "done"}
  BY DEF StillInv
<1>4. CallStands(i)
  BY <1>1 DEF CallInv, Started, None
<1>5. cand[i] \in Results /\ None \in Results
  BY DEF TypeOK, Results
<1> QED BY <1>3, <1>4, <1>5 DEF CallStands

\* A record that says how the run ended is not written again while that run is in memory.
LEMMA TerminalRests ==
  ASSUME TypeOK, LifeInv, InboxInv, SlotInv, EndInv, StillInv, Started, rec.status \in Terminal,
         \/ Launched \/ LaunchFails \/ Stop \/ ScriptEmits \/ RunnerExits \/ QueueSteps \/ RegisterFails
         \/ EmitFails \/ FinalSteps \/ EndFails \/ WriteFails
         \/ \E s \in Terminal : ScriptEnds(s)
         \/ \E i \in Agents : \/ ScriptCalls(i) \/ AgentSteps(i) \/ RecordFails(i) \/ JournalFails(i)
                              \/ StoreFails(i) \/ \E s \in Terminal : TurnSettles(i, s)
  PROVE  UNCHANGED <<rec, res, end>>
<1>1. fin \in Over /\ fin \in Still /\ fin \in Ending /\ fin # "leftovers"
  BY DEF LifeInv, Over, Still, Ending, Written
<1>2. /\ ~busy /\ \A k \in 1..Len(tail) : tail[k] \notin Agents \cup {"emit"}
      /\ \A i \in Agents : pc[i] \in {"idle", "refused", "done"}
  BY <1>1 DEF StillInv
<1>3. CASE \/ Launched \/ LaunchFails \/ Stop \/ ScriptEmits \/ RunnerExits
           \/ (\E s \in Terminal : ScriptEnds(s)) \/ \E i \in Agents : ScriptCalls(i)
  BY <1>3 DEF Launched, LaunchFails, Stop, ScriptEmits, RunnerExits, ScriptEnds, ScriptCalls, disk, journal
<1>4. CASE QueueSteps \/ RegisterFails \/ EmitFails
  <2>1. tail # <<>> => Message = tail[1] /\ 1 \in 1..Len(tail)
    BY DEF Message, TypeOK
  <2>2. ResultHandled
    BY <1>2, <1>4, <2>1 DEF QueueSteps, RegisterFails, EmitFails, AgentRefused, AgentStarts, Registered,
                            EmitWritten, Ready
  <2> QED BY <2>2 DEF ResultHandled, disk, journal
<1>5. ASSUME NEW i \in Agents,
             \/ AgentSteps(i) \/ RecordFails(i) \/ JournalFails(i) \/ StoreFails(i) \/ Leftover(i)
             \/ \E s \in Terminal : TurnSettles(i, s)
      PROVE  FALSE
  BY <1>1, <1>2, <1>5 DEF AgentSteps, RecordFails, JournalFails, StoreFails, Leftover, TurnSettles, TurnedAway,
                          Granted, Recorded, TeammateCreated, TeammateFails, Admitted, NotAdmitted, Journaled,
                          Stored
<1>6. CASE \/ RunnerStopped \/ HandlesKnown \/ ClosesSettled \/ Drained \/ Completed
           \/ EndJournaled \/ EndWritten \/ Delivered \/ EndFails \/ WriteFails
           \/ \E i \in Agents : HandleClosed(i)
  <2>1. UNCHANGED res /\ (end' = end \/ fin = "ending") /\ (rec' = rec \/ fin = "writing")
    BY <1>6, FinalEnds
  <2> QED BY <1>1, <2>1 DEF Over
<1> QED BY <1>3, <1>4, <1>5, <1>6 DEF FinalSteps

\* Every step keeps a terminal record to the journal.
LEMMA TerminalNext ==
  ASSUME TypeOK, LifeInv, InboxInv, SlotInv, EndInv, CallInv, StillInv, RecoverInv, TerminalAsJournaled,
         [Next]_vars
  PROVE  TerminalAsJournaled'
<1>a. ASSUME UNCHANGED <<rec, res, end>> PROVE TerminalAsJournaled'
  BY <1>a DEF TerminalAsJournaled
<1>b. ASSUME rec'.status \notin Terminal PROVE TerminalAsJournaled'
  BY <1>b DEF TerminalAsJournaled
<1>1. CASE Create \/ CreateFails \/ RequestStopAll \/ StopAll
  BY <1>a, <1>1 DEF Create, CreateFails, RequestStopAll, StopAll, disk, journal
<1>2. CASE Created
  BY <1>b, <1>2 DEF Created, Absent, Terminal
<1>3. CASE \/ Launched \/ LaunchFails \/ Stop \/ ScriptEmits \/ RunnerExits \/ QueueSteps \/ RegisterFails
           \/ EmitFails \/ FinalSteps \/ EndFails \/ WriteFails
           \/ \E s \in Terminal : ScriptEnds(s)
           \/ \E i \in Agents : \/ ScriptCalls(i) \/ AgentSteps(i) \/ RecordFails(i) \/ JournalFails(i)
                                \/ StoreFails(i) \/ \E s \in Terminal : TurnSettles(i, s)
  <2>1. Started
    BY <1>3, StartedFirst
  <2>2. CASE rec.status \in Terminal
    BY <1>a, <1>3, <2>1, <2>2, TerminalRests
  <2>3. CASE rec.status \notin Terminal /\ rec'.status \in Terminal
    <3>1. EndWritten
      <4>1. CASE \/ Launched \/ LaunchFails \/ Stop \/ ScriptEmits \/ RunnerExits
                 \/ (\E s \in Terminal : ScriptEnds(s)) \/ \E i \in Agents : ScriptCalls(i)
        BY <2>3, <4>1 DEF Launched, LaunchFails, Stop, ScriptEmits, RunnerExits, ScriptEnds, ScriptCalls, disk, journal
      <4>2. CASE QueueSteps \/ RegisterFails \/ EmitFails
        BY <2>3, <4>2, QueueEnds DEF Publish, TypeOK
      <4>3. ASSUME NEW i \in Agents,
                   \/ AgentSteps(i) \/ RecordFails(i) \/ JournalFails(i) \/ StoreFails(i) \/ Leftover(i)
                   \/ \E s \in Terminal : TurnSettles(i, s)
            PROVE  FALSE
        BY <2>3, <4>3, CallEnds DEF Publish, TypeOK
      <4>4. CASE \/ RunnerStopped \/ HandlesKnown \/ ClosesSettled \/ Drained \/ Completed
                 \/ EndJournaled \/ Delivered \/ EndFails \/ WriteFails
                 \/ \E i \in Agents : HandleClosed(i)
        BY <2>3, <4>4 DEF RunnerStopped, HandlesKnown, ClosesSettled, Drained, Completed, EndJournaled,
                          Delivered, EndFails, WriteFails, HandleClosed, disk, journal
      <4> QED BY <1>3, <4>1, <4>2, <4>3, <4>4 DEF FinalSteps
    <3>2. fin = "writing" /\ rec' = [status |-> intent, agents |-> draft] /\ UNCHANGED <<res, end>>
      BY <3>1 DEF EndWritten, journal
    <3>3. end = intent /\ \A i \in Agents : draft[i] \in Results /\ (res[i] # None => draft[i] = res[i])
      BY <3>2, DraftAsJournaled DEF EndInv, Ending, Written
    <3> QED BY <3>2, <3>3 DEF TerminalAsJournaled
  <2> QED BY <1>b, <2>2, <2>3
<1>4. CASE Recovered
  <2>1. /\ host = "writing" /\ rec' = [status |-> end, agents |-> draft] /\ UNCHANGED <<res, end>>
    BY <1>4 DEF Recovered, journal
  <2>2. \A i \in Agents : draft[i] \in Results /\ (res[i] # None => draft[i] = res[i])
    BY <2>1 DEF RecoverInv
  <2> QED BY <2>1, <2>2 DEF TerminalAsJournaled
<1>5. CASE RecoveryFails \/ RecoveryReads \/ EndBackfilled \/ \E i \in Agents : Backfills(i)
  <2>1. host # "up" /\ UNCHANGED rec
    BY <1>5 DEF RecoveryFails, RecoveryReads, EndBackfilled, Backfills, disk, journal
  <2> QED BY <1>b, <2>1 DEF LifeInv, Terminal
<1>6. CASE Crash \/ UNCHANGED vars
  BY <1>a, <1>6 DEF Crash, vars, disk, journal
<1> QED BY <1>1, <1>2, <1>3, <1>4, <1>5, <1>6 DEF Next, BootSteps, RecoverySteps

----------------------------------------
(* The theorems                                                            *)

\* What every state of a run satisfies.
RunInv ==
  /\ TypeOK /\ LifeInv /\ CallInv /\ InboxInv /\ SlotInv /\ EndInv /\ HandleInv /\ RunnerInv /\ StillInv
  /\ RecoverInv /\ TerminalAsJournaled

\* A run begins in the invariant.
LEMMA RunInit == Init => RunInv
<1> SUFFICES ASSUME Init PROVE RunInv
  OBVIOUS
<1>1. TypeOK
  BY TypeInit
<1>2. /\ boot = None /\ intent = None /\ tail = <<>> /\ busy = FALSE /\ runner = None /\ active = 0
      /\ holds = {} /\ waiters = <<>> /\ fin = None /\ owed = TRUE /\ reports = 0 /\ end = None /\ host = "up"
      /\ rec = Absent /\ \A i \in Agents : /\ pc[i] = "idle" /\ cand[i] = None /\ draft[i] = None
                                           /\ handle[i] = None /\ res[i] = None
  BY DEF Init, Fresh
<1>3. 1..Len(tail) = {} /\ 1..Len(waiters) = {}
  BY <1>2
<1>4. LifeInv /\ CallInv
  BY <1>2 DEF LifeInv, CallInv, Started, Absent, None, Terminal
<1>5. InboxInv
  BY <1>2, <1>3 DEF InboxInv
<1>6. SlotInv
  <2>1. Slots \in Nat
    BY RunAssumption
  <2> QED BY <1>2, <1>3, <2>1, FS_EmptySet DEF SlotInv, Working
<1>7. EndInv /\ HandleInv /\ RunnerInv /\ StillInv
  BY <1>2 DEF EndInv, HandleInv, RunnerInv, StillInv, Behind, Still, Ending, Written, Over, None
<1>8. RecoverInv /\ TerminalAsJournaled
  BY <1>2 DEF RecoverInv, TerminalAsJournaled, Absent, None, Terminal
<1> QED BY <1>1, <1>4, <1>5, <1>6, <1>7, <1>8 DEF RunInv

\* Every step keeps it.
LEMMA RunNext == RunInv /\ [Next]_vars => RunInv'
<1> SUFFICES ASSUME RunInv, [Next]_vars PROVE RunInv'
  OBVIOUS
<1> USE DEF RunInv
<1>1. TypeOK'
  BY TypeNext
<1>2. LifeInv' /\ CallInv'
  BY LifeNext, CallNext
<1>3. InboxInv' /\ SlotInv'
  BY InboxNext, SlotNext
<1>4. EndInv' /\ HandleInv'
  BY EndNext, HandleNext
<1>5. RunnerInv' /\ StillInv'
  BY RunnerNext, StillNext
<1>6. RecoverInv' /\ TerminalAsJournaled'
  BY RecoverNext, TerminalNext
<1> QED BY <1>1, <1>2, <1>3, <1>4, <1>5, <1>6

\* The invariant holds of every run.
LEMMA RunInvariant == Spec => []RunInv
  BY RunInit, RunNext, PTL DEF Spec

\* Every variable of a run stays in its type.
THEOREM TypeCorrect == Spec => []TypeOK
  BY RunInvariant, PTL DEF RunInv

\* Whatever fails and whenever the host dies, a terminal record says what the journal says.
THEOREM TerminalAlwaysJournaled == Spec => []TerminalAsJournaled
  BY RunInvariant, PTL DEF RunInv

\* No call works without a slot, and a run that has ended leaves no process, no slot and no
\* TeamMate behind.
THEOREM NothingOutlives == Spec => []NothingOutlivesTheRun
<1>1. RunInv => NothingOutlivesTheRun
  <2> SUFFICES ASSUME RunInv PROVE NothingOutlivesTheRun
    OBVIOUS
  <2>1. active = Cardinality(holds) /\ active <= Slots
    BY DEF RunInv, SlotInv
  <2>2. \A i \in Agents : pc[i] \in Working => i \in holds
    BY DEF RunInv, SlotInv
  <2>3. fin \in Behind => \A i \in Agents : handle[i] # "open" /\ pc[i] # "creating"
    BY DEF RunInv, HandleInv, None
  <2>4. ASSUME fin = "settled"
        PROVE  /\ runner \in {None, "gone"} /\ active = 0 /\ waiters = <<>>
               /\ \A i \in Agents : handle[i] \in {None, "unlocked"}
    <3>1. fin \in Over /\ fin \in Ending /\ fin \in Still /\ fin # None
      BY <2>4 DEF Over, Ending, Still, Written, None
    <3>2. runner \in {None, "gone"} /\ \A i \in Agents : handle[i] \in {None, "unlocked"}
      BY <3>1 DEF RunInv, RunnerInv, HandleInv
    <3>3. waiters = <<>>
      BY <3>1 DEF RunInv, EndInv, SlotInv
    <3>4. holds = {}
      BY <3>1 DEF RunInv, StillInv, TypeOK
    <3> QED BY <2>1, <3>2, <3>3, <3>4, FS_EmptySet
  <2> QED BY <2>1, <2>2, <2>3, <2>4 DEF NothingOutlivesTheRun, Working, Behind, Still, Ending, Written, Over
<1> QED BY <1>1, RunInvariant, PTL

\* A run is reported once, unless it was stopped, and as its record says.
THEOREM ReportedTruly == Spec => []ReportedOnceAndTruly
<1>1. RunInv => ReportedOnceAndTruly
  <2> SUFFICES ASSUME RunInv PROVE ReportedOnceAndTruly
    OBVIOUS
  <2>1. reports \in {0, 1}
    BY DEF RunInv, EndInv
  <2>2. reports = 1 => intent \in {"completed", "failed"} /\ rec.status = intent
    <3>1. reports = 1 => fin = "settled" /\ intent # "stopped" /\ intent # None /\ rec.status = intent
      BY DEF RunInv, EndInv, Over, None
    <3>2. intent \in Results
      BY DEF RunInv, TypeOK
    <3> QED BY <3>1, <3>2 DEF Results, Terminal
  <2>3. fin = "settled" /\ intent # "stopped" => reports = 1
    BY <2>1 DEF RunInv, EndInv
  <2> QED BY <2>1, <2>2, <2>3 DEF ReportedOnceAndTruly
<1> QED BY <1>1, RunInvariant, PTL
========================================
