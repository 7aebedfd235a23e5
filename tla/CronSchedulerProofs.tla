----------------------- MODULE CronSchedulerProofs -----------------------
(***************************************************************************)
(* Theorems about the scheduler at one job, for every cron grid, every     *)
(* number of submissions and starts, and every bound on edits, failures    *)
(* and clock moves.                                                        *)
(***************************************************************************)
EXTENDS CronScheduler, SequenceTheorems, TLAPS

----------------------------------------
(* Type correctness                                                        *)

\* The bounds are numbers.
LEMMA Bounds ==
  /\ MaxTime \in Nat /\ MaxBack \in Nat /\ MaxWrites \in Nat
  /\ MaxStarts \in Nat /\ MaxFailures \in Nat
  BY SchedulerAssumption

\* The next instant of the grid is an instant, and never the one that means "none".
LEMMA NextRunType ==
  ASSUME NEW period \in Periods, NEW t \in Nat
  PROVE  NextRun(period, t) \in Nat \ {0}
<1>1. period \in Nat \ {0}
  BY SchedulerAssumption
<1>2. t \div period \in Nat
  BY <1>1, Z3
<1>3. (t \div period) + 1 \in Nat \ {0}
  BY <1>2
<1>4. \A a, b \in Nat \ {0} : a * b \in Nat \ {0}
  BY Z3
<1> QED BY <1>1, <1>3, <1>4 DEF NextRun

\* An enabled job that goes on or ends is a job, with the same last run.
LEMMA AdvanceType ==
  ASSUME NEW job \in Jobs, job.enabled, NEW t \in Nat
  PROVE  Advance(job, t) \in Jobs /\ Advance(job, t).last = job.last
<1>1. job.period \in Periods
  BY DEF Jobs
<1> DEFINE next == NextRun(job.period, t)
<1>2. next \in Nat \ {0}
  BY <1>1, NextRunType
<1> HIDE DEF next
<1>3. CASE job.recurring
  BY <1>2, <1>3 DEF Advance, Jobs, next
<1>4. CASE ~job.recurring
  BY <1>4 DEF Advance, Jobs, Never
<1> QED BY <1>3, <1>4 DEF Jobs

\* A row that is given a due instant of its own stays a job, with a new occurrence.
LEMMA OccursType ==
  ASSUME NEW job \in Jobs, occurrences \in Nat, Occurs(job)
  PROVE  /\ row' \in Jobs /\ occurrences' \in Nat /\ occurrences' = occurrences + 1
         /\ row'.occ = occurrences' /\ row'.last = job.last
         /\ row'.enabled = job.enabled /\ row'.due = job.due
  BY DEF Occurs, Jobs

\* A new or edited schedule is a job.
LEMMA ScheduleType ==
  ASSUME NEW e \in BOOLEAN, NEW r \in BOOLEAN, NEW p \in Periods, NEW t \in Nat, NEW last \in Nat
  PROVE  Job(e, r, p, IF e THEN NextRun(p, t) ELSE Never, last, 0) \in Jobs
<1> DEFINE next == NextRun(p, t)
<1>1. next \in Nat \ {0}
  BY NextRunType
<1> HIDE DEF next
<1>2. Job(e, r, p, IF e THEN next ELSE Never, last, 0) \in Jobs
  BY <1>1 DEF Job, Jobs, Never
<1> QED BY <1>2 DEF next

\* What a row arms is an instant.
LEMMA ArmedType ==
  ASSUME NEW job \in Jobs, NEW run \in BOOLEAN
  PROVE  Armed(job, run) \in Nat
  BY DEF Armed, Jobs, Never

\* Every write that is enqueued is one of the kinds there are.
LEMMA OpType ==
  ASSUME TypeOK, NEW kind \in Kinds
  PROVE  Op(kind) \in Ops /\ Op(kind).kind = kind /\ Op(kind).at = now /\ Op(kind).gen = generation
  BY SchedulerAssumption DEF Op, Ops, TypeOK, Never

\* An appended write leaves a queue of writes.
LEMMA EnqueueType ==
  ASSUME TypeOK, NEW o \in Ops, Enqueue(o)
  PROVE  queue' \in Seq(Ops)
  BY DEF Enqueue, TypeOK

\* The head of a queue is a write, and its rest a queue.
LEMMA HeadType ==
  ASSUME TypeOK, queue # <<>>
  PROVE  op \in Ops /\ op = queue[1] /\ Tail(queue) \in Seq(Ops) /\ Len(queue) \in Nat \ {0}
  BY DEF op, TypeOK

\* The types hold at first ...
LEMMA TypeInit == Init => TypeOK
<1> SUFFICES ASSUME Init PROVE TypeOK
  OBVIOUS
<1>1. row \in {NoJob} \cup Jobs /\ (row # NoJob => row.occ <= occurrences)
  <2>1. CASE row = NoJob
    BY <2>1
  <2>2. ASSUME NEW r \in BOOLEAN, NEW p \in Periods, NEW d \in 1..2,
               row = Job(TRUE, r, p, d, Never, 1)
        PROVE  row \in Jobs /\ row.occ <= occurrences
    <3>1. occurrences = 1
      BY DEF Init
    <3> QED BY <2>2, <3>1 DEF Job, Jobs, Never
  <2> QED BY <2>1, <2>2 DEF Init
<1>2. /\ now \in Nat \ {0} /\ back \in 0..MaxBack
      /\ timer \in Nat /\ generation \in Nat
      /\ accepted \in Nat /\ spent = {}
  BY Bounds DEF Init, Never
<1>5. fence \in BOOLEAN /\ running \in BOOLEAN /\ refused \in BOOLEAN /\ lost \in BOOLEAN
  BY DEF Init
<1>4. /\ written \in 0..MaxWrites /\ failures \in 0..MaxFailures
      /\ occurrences \in Nat
  BY Bounds DEF Init
<1>3. /\ starts \in [1..MaxStarts -> {"no", "reading", "queued", "others", "done"}]
      /\ listed \in [1..MaxStarts -> {NoJob} \cup Jobs]
      /\ fires \in [Fires -> {NoFire} \cup Submissions]
      /\ \A f \in Fires : fires[f] = NoFire
      /\ queue \in Seq(Ops)
  BY DEF Init
<1> QED BY <1>1, <1>2, <1>3, <1>4, <1>5 DEF TypeOK

\* The steps that start or stop the scheduler.
LEMMA TypeLife ==
  ASSUME TypeOK, Stops \/ \E s \in 1..MaxStarts : StartBegins(s) \/ StartLists(s) \/ StartArms(s)
  PROVE  TypeOK'
<1>1. CASE Stops
  <2>1. queue' \in Seq(Ops)
    BY <1>1, OpType, EnqueueType DEF Stops, Kinds, TypeOK
  <2>2. fence' \in BOOLEAN /\ running' \in BOOLEAN /\ lost' \in BOOLEAN
    BY <1>1 DEF Stops
  <2>3. generation' \in Nat /\ timer' \in Nat
    BY <1>1 DEF Stops, TypeOK, Never
  <2>4. UNCHANGED <<clock, starts, listed, row, occurrences, failures, fires, written, past>>
    BY <1>1 DEF Stops
  <2> QED BY <2>1, <2>2, <2>3, <2>4 DEF TypeOK, clock, past
<1>2. ASSUME NEW s \in 1..MaxStarts, StartBegins(s) PROVE TypeOK'
  BY <1>2 DEF StartBegins, TypeOK, clock, store, past
<1>3. ASSUME NEW s \in 1..MaxStarts, StartLists(s) PROVE TypeOK'
  <2>1. queue' \in Seq(Ops)
    <3> DEFINE o == [Op("reconcile") EXCEPT !.start = s]
    <3>1. o \in Ops
      BY OpType DEF Ops, Kinds
    <3> HIDE DEF o
    <3> QED BY <1>3, <3>1, EnqueueType DEF StartLists, TypeOK, o
  <2> QED BY <1>3, <2>1 DEF StartLists, TypeOK, clock, past
<1>4. ASSUME NEW s \in 1..MaxStarts, StartArms(s) PROVE TypeOK'
  <2>1. timer' \in Nat /\ lost' \in BOOLEAN
    <3>1. CASE listed[s] = NoJob
      BY <1>4, <3>1 DEF StartArms, TypeOK
    <3>2. CASE listed[s] # NoJob
      <4>1. timer' = Armed(listed[s], TRUE) /\ lost' = FALSE /\ listed[s] \in Jobs
        BY <1>4, <3>2 DEF StartArms, TypeOK
      <4> QED BY <4>1, ArmedType
    <3> QED BY <3>1, <3>2
  <2> QED BY <1>4, <2>1 DEF StartArms, TypeOK, clock, store, past
<1> QED BY <1>1, <1>2, <1>3, <1>4

\* The edits and the fires.
LEMMA TypeFires ==
  ASSUME TypeOK,
         Creates \/ Updates \/ Deletes \/ TimerFires \/ \E f \in Fires : FireSteps(f)
  PROVE  TypeOK'
<1>1. ASSUME NEW kind \in Kinds, Edits(kind), timer' \in Nat, UNCHANGED lost PROVE TypeOK'
  <2>1. queue' \in Seq(Ops)
    BY <1>1, OpType, EnqueueType DEF Edits
  <2>2. written' \in 0..MaxWrites
    BY <1>1, Bounds DEF Edits, TypeOK
  <2> QED BY <1>1, <2>1, <2>2 DEF Edits, TypeOK, clock, life, past
<1>2. CASE Creates \/ Updates \/ Deletes
  BY <1>1, <1>2 DEF Creates, Updates, Deletes, Kinds, TypeOK, Never
<1>3. CASE TimerFires
  <2>1. /\ fires' \in [Fires -> {NoFire} \cup Submissions]
        /\ \A f \in Fires : fires'[f] # NoFire => fires'[f].occ <= occurrences
    <3>1. CASE UNCHANGED fires
      BY <3>1 DEF TypeOK
    <3>2. CASE ~UNCHANGED fires
      <4>1. row \in Jobs
        BY <1>3, <3>2 DEF TimerFires, TypeOK
      <4>2. PICK f \in Fires : fires' = [fires EXCEPT
               ![f] = [due |-> row.due, occ |-> row.occ, gen |-> generation]]
        BY <1>3, <3>2 DEF TimerFires
      <4>3. [due |-> row.due, occ |-> row.occ, gen |-> generation] \in Submissions
        BY <4>1 DEF Jobs, Submissions, TypeOK
      <4>4. row.occ <= occurrences
        BY <4>1, SchedulerAssumption DEF TypeOK
      <4> QED BY <4>2, <4>3, <4>4 DEF TypeOK
    <3> QED BY <3>1, <3>2
  <2> QED BY <1>3, <2>1 DEF TimerFires, TypeOK, clock, life, store, past, Never
<1>4. ASSUME NEW f \in Fires, Accepted(f) PROVE TypeOK'
  <2>1. fires[f] \in Submissions /\ fires[f].occ <= occurrences
    BY <1>4 DEF Accepted, TypeOK
  <2>2. queue' \in Seq(Ops)
    <3> DEFINE o == [Op("fired") EXCEPT !.due = fires[f].due, !.gen = fires[f].gen]
    <3>1. o \in Ops
      BY <2>1, OpType DEF Ops, Kinds, Submissions
    <3> HIDE DEF o
    <3>2. Enqueue(o)
      BY <1>4 DEF Accepted, Recorded, o
    <3> QED BY <3>1, <3>2, EnqueueType
  <2>3. spent' \subseteq 0..occurrences
    BY <1>4, <2>1 DEF Accepted, TypeOK, Submissions
  <2>4. UNCHANGED <<clock, life, row, occurrences, failures, timer, lost, written, refused>>
        /\ accepted' \in Nat
    BY <1>4 DEF Accepted, TypeOK
  <2>5. fires' \in [Fires -> {NoFire} \cup Submissions]
        /\ \A g \in Fires : fires'[g] # NoFire => fires'[g].occ <= occurrences
    BY <1>4 DEF Accepted, TypeOK
  <2> QED BY <2>2, <2>3, <2>4, <2>5 DEF TypeOK, clock, life
<1>5. ASSUME NEW f \in Fires, Refused(f) PROVE TypeOK'
  <2>1. queue' \in Seq(Ops)
    BY <1>5, OpType, EnqueueType DEF Refused, TypeOK, Kinds
  <2>2. fires' \in [Fires -> {NoFire} \cup Submissions]
        /\ \A g \in Fires : fires'[g] # NoFire => fires'[g].occ <= occurrences
    BY <1>5 DEF Refused, TypeOK
  <2>3. refused' \in BOOLEAN
    BY <1>5 DEF Refused
  <2>4. UNCHANGED <<clock, life, row, occurrences, failures, timer, lost, written, accepted, spent>>
    BY <1>5 DEF Refused
  <2> QED BY <2>1, <2>2, <2>3, <2>4 DEF TypeOK, clock, life
<1> QED BY <1>2, <1>3, <1>4, <1>5 DEF FireSteps

\* A commit of the store, by what it leaves alone: the rest is the row and its timer.
LEMMA CommitType ==
  ASSUME TypeOK, NEW kind \in Kinds, Commits(kind),
         row' \in {NoJob} \cup Jobs, row' # NoJob => row'.occ <= occurrences',
         occurrences' \in Nat, occurrences <= occurrences',
         timer' \in Nat, lost' \in BOOLEAN,
         UNCHANGED <<clock, life, fires, written, past>>
  PROVE  TypeOK'
<1>1. queue' \in Seq(Ops) /\ failures' = failures
  BY HeadType DEF Commits
<1>2. \A f \in Fires : fires'[f] # NoFire => fires'[f].occ <= occurrences'
  BY DEF TypeOK, Submissions
<1>3. spent' \subseteq 0..occurrences'
  BY DEF TypeOK, past
<1> QED BY <1>1, <1>2, <1>3 DEF TypeOK, clock, life, past

\* A row that was rewritten is a job with the latest occurrence.
LEMMA RewrittenType ==
  ASSUME TypeOK, NEW job \in Jobs, Occurs(job)
  PROVE  /\ row' \in Jobs /\ row' # NoJob /\ row'.occ = occurrences'
         /\ occurrences' = occurrences + 1 /\ occurrences' \in Nat
         /\ row'.last = job.last /\ row'.enabled = job.enabled /\ row'.due = job.due
  BY OccursType, SchedulerAssumption DEF TypeOK

\* What each commit does to the row: it is left, goes away, or becomes a job with a new
\* occurrence, but for a fire that only notes when it was accepted.
LEMMA CreateMoves ==
  ASSUME TypeOK, CreateCommits
  PROVE  /\ row' \in Jobs /\ row' # NoJob /\ row'.occ = occurrences'
         /\ occurrences' = occurrences + 1 /\ occurrences' \in Nat
         /\ row'.last = Never /\ timer' = Armed(row', running) /\ timer' \in Nat
<1>1. op \in Ops
  BY HeadType DEF CreateCommits, Commits
<1>2. PICK r \in BOOLEAN, p \in Periods : Occurs(Job(TRUE, r, p, NextRun(p, op.at), Never, 0))
  BY DEF CreateCommits
<1> DEFINE job == Job(TRUE, r, p, NextRun(p, op.at), Never, 0)
<1>3. job \in Jobs
  <2>1. Never \in Nat /\ op.at \in Nat
    BY <1>1 DEF Ops, Never
  <2> QED BY <2>1, ScheduleType
<1>4. job.last = Never
  BY DEF Job
<1> HIDE DEF job
<1>5. /\ row' \in Jobs /\ row' # NoJob /\ row'.occ = occurrences'
      /\ occurrences' = occurrences + 1 /\ occurrences' \in Nat /\ row'.last = Never
  BY <1>2, <1>3, <1>4, RewrittenType DEF job
<1>6. timer' = Armed(row', running)
  BY DEF CreateCommits, Rearms
<1>7. running \in BOOLEAN
  BY DEF TypeOK
<1> QED BY <1>5, <1>6, <1>7, ArmedType

\* An update makes the row anew and arms it.
LEMMA UpdateMoves ==
  ASSUME TypeOK, UpdateCommits, row # NoJob
  PROVE  /\ row' \in Jobs /\ row' # NoJob /\ row'.occ = occurrences'
         /\ occurrences' = occurrences + 1 /\ occurrences' \in Nat
         /\ row'.last = row.last /\ timer' = Armed(row', running) /\ timer' \in Nat
<1>1. row \in Jobs /\ row.last \in Nat /\ now \in Nat
  BY DEF TypeOK, Jobs
<1>2. PICK e \in BOOLEAN, r \in BOOLEAN, p \in Periods :
             Occurs(Job(e, r, p, IF e THEN NextRun(p, now) ELSE Never, row.last, 0))
  BY DEF UpdateCommits
<1> DEFINE job == Job(e, r, p, IF e THEN NextRun(p, now) ELSE Never, row.last, 0)
<1>3. job \in Jobs
  BY <1>1, ScheduleType
<1>4. job.last = row.last
  BY DEF Job
<1> HIDE DEF job
<1>5. /\ row' \in Jobs /\ row' # NoJob /\ row'.occ = occurrences'
      /\ occurrences' = occurrences + 1 /\ occurrences' \in Nat /\ row'.last = row.last
  BY <1>2, <1>3, <1>4, RewrittenType DEF job
<1>6. timer' = Armed(row', running)
  BY DEF UpdateCommits, Rearms
<1>7. running \in BOOLEAN
  BY DEF TypeOK
<1> QED BY <1>5, <1>6, <1>7, ArmedType

\* A fire is noted in the row; the occurrence it was of is settled.
LEMMA FiredMoves ==
  ASSUME TypeOK, FiredCommits, row # NoJob
  PROVE  /\ op \in Ops /\ row' \in Jobs /\ row' # NoJob /\ row'.last = op.at
         /\ \/ /\ row.enabled /\ row.due = op.due
               /\ row'.occ = occurrences' /\ occurrences' = occurrences + 1 /\ occurrences' \in Nat
               /\ timer' = IF op.gen = generation THEN Armed(row', running) ELSE timer
            \/ /\ ~(row.enabled /\ row.due = op.due)
               /\ row'.enabled = row.enabled /\ row'.due = row.due /\ row'.occ = row.occ
               /\ UNCHANGED <<occurrences, timer>>
         /\ timer' \in Nat
<1>1. op \in Ops /\ op.at \in Nat /\ row \in Jobs
  BY HeadType DEF FiredCommits, Commits, TypeOK, Ops
<1> DEFINE seen == [row EXCEPT !.last = op.at]
<1>2. /\ seen \in Jobs /\ seen.last = op.at /\ seen.enabled = row.enabled
      /\ seen.due = row.due /\ seen.occ = row.occ
  BY <1>1 DEF Jobs
<1>3. \/ /\ SubmittedOccurrence(row) /\ Occurs(Advance(seen, op.at))
         /\ IF op.gen = generation THEN Rearms ELSE UNCHANGED <<timer, lost>>
      \/ ~SubmittedOccurrence(row) /\ row' = seen /\ UNCHANGED <<occurrences, timer>>
  BY DEF FiredCommits, ReplacementArms
<1> HIDE DEF seen
<1>4. CASE SubmittedOccurrence(row)
  <2>1. Occurs(Advance(seen, op.at))
    BY <1>3, <1>4
  <2>2. seen.enabled
    BY <1>2, <1>4 DEF SubmittedOccurrence
  <2>3. Advance(seen, op.at) \in Jobs /\ Advance(seen, op.at).last = op.at
    BY <1>1, <1>2, <2>2, AdvanceType
  <2>4. /\ row' \in Jobs /\ row' # NoJob /\ row'.last = op.at /\ row'.occ = occurrences'
        /\ occurrences' = occurrences + 1 /\ occurrences' \in Nat
    BY <2>1, <2>3, RewrittenType
  <2>5. timer' = IF op.gen = generation THEN Armed(row', running) ELSE timer
    BY <1>3, <1>4 DEF Rearms
  <2>6. running \in BOOLEAN /\ timer \in Nat
    BY DEF TypeOK
  <2>7. timer' \in Nat
    BY <2>4, <2>5, <2>6, ArmedType
  <2>8. row.enabled /\ row.due = op.due
    BY <1>4 DEF SubmittedOccurrence
  <2> QED BY <1>1, <2>4, <2>5, <2>7, <2>8
<1>5. CASE ~SubmittedOccurrence(row)
  <2>1. row' = seen /\ UNCHANGED <<occurrences, timer>>
    BY <1>3, <1>5
  <2>2. timer' \in Nat
    BY <2>1 DEF TypeOK
  <2>3. seen # NoJob
    BY <1>2, SchedulerAssumption
  <2> QED BY <1>1, <1>2, <1>5, <2>1, <2>2, <2>3 DEF SubmittedOccurrence
<1> QED BY <1>4, <1>5

\* A miss and a reconcile leave the row or move an enabled job on, and keep its last run.
Moved ==
  \/ UNCHANGED <<row, occurrences>>
  \/ /\ row' \in Jobs /\ row' # NoJob /\ row'.last = row.last /\ row'.occ = occurrences'
     /\ occurrences' = occurrences + 1 /\ occurrences' \in Nat

\* A miss arms the row it leaves.
LEMMA MissMoves ==
  ASSUME TypeOK, MissCommits, row # NoJob
  PROVE  Moved /\ row' # NoJob /\ timer' = Armed(row', running) /\ timer' \in Nat
<1>1. op \in Ops /\ op.at \in Nat /\ row \in Jobs
  BY HeadType DEF MissCommits, Commits, TypeOK, Ops
<1>2. Moved /\ row' # NoJob /\ row' \in Jobs
  <2>1. CASE LeftAlone(row)
    BY <1>1, <2>1 DEF MissCommits, Moved
  <2>2. CASE ~LeftAlone(row)
    <3>1. Advance(row, op.at) \in Jobs /\ Advance(row, op.at).last = row.last
      BY <1>1, <2>2, AdvanceType DEF LeftAlone
    <3>2. Occurs(Advance(row, op.at))
      BY <2>2 DEF MissCommits
    <3> QED BY <3>1, <3>2, RewrittenType DEF Moved
  <2> QED BY <2>1, <2>2
<1>3. timer' = Armed(row', running)
  BY DEF MissCommits, MissArms, Rearms
<1>4. running \in BOOLEAN
  BY DEF TypeOK
<1> QED BY <1>2, <1>3, <1>4, ArmedType

\* A reconcile makes no job, and takes none away.
LEMMA ReconcileMoves ==
  ASSUME TypeOK, ReconcileCommits
  PROVE  Moved /\ (row # NoJob <=> row' # NoJob) /\ row' \in {NoJob} \cup Jobs
<1>1. CASE row = NoJob \/ ~row.enabled \/ row.due > now
  BY <1>1 DEF ReconcileCommits, Moved, TypeOK
<1>2. CASE ~(row = NoJob \/ ~row.enabled \/ row.due > now)
  <2>1. row \in Jobs /\ row.enabled /\ now \in Nat
    BY <1>2 DEF TypeOK
  <2>2. Advance(row, now) \in Jobs /\ Advance(row, now).last = row.last
    BY <2>1, AdvanceType
  <2>3. Occurs(Advance(row, now))
    BY <1>2 DEF ReconcileCommits
  <2> QED BY <1>2, <2>2, <2>3, RewrittenType DEF Moved
<1> QED BY <1>1, <1>2

\* A deletion leaves no job.
LEMMA RemovalMoves ==
  ASSUME RemovalCommits
  PROVE  /\ row' = NoJob
         /\ UNCHANGED <<clock, life, occurrences, timer, lost, fires, written, past>>
  BY DEF RemovalCommits

\* The commits of the store.
LEMMA TypeStore ==
  ASSUME TypeOK, StoreSteps \/ WriteFails
  PROVE  TypeOK'
<1>1. row \in {NoJob} \cup Jobs /\ (row # NoJob => row.occ <= occurrences)
      /\ timer \in Nat /\ occurrences \in Nat
  BY DEF TypeOK
<1>9. StoreSteps => lost' \in BOOLEAN
  BY DEF StoreSteps, CreateCommits, UpdateCommits, RemovalCommits, FiredCommits, MissCommits,
         ReconcileCommits, Rearms, ReplacementArms, MissArms, TypeOK
<1>2. CASE CreateCommits
  <2>1. Commits("create") /\ UNCHANGED <<clock, life, fires, written, past>>
    BY <1>2 DEF CreateCommits
  <2> QED BY <1>1, <1>9, <1>2, <2>1, CreateMoves, CommitType DEF StoreSteps, Kinds, Jobs
<1>3. CASE UpdateCommits
  <2>1. Commits("update") /\ UNCHANGED <<clock, life, fires, written, past>>
        /\ (row = NoJob => UNCHANGED <<row, occurrences, timer>>)
    BY <1>3 DEF UpdateCommits
  <2> QED BY <1>1, <1>9, <1>3, <2>1, UpdateMoves, CommitType DEF StoreSteps, Kinds, Jobs
<1>4. CASE RemovalCommits
  <2>1. Commits("delete") \/ Commits("remove")
    BY <1>4 DEF RemovalCommits
  <2> QED BY <1>1, <1>9, <1>4, <2>1, RemovalMoves, CommitType DEF StoreSteps, Kinds
<1>5. CASE FiredCommits
  <2>1. Commits("fired") /\ UNCHANGED <<clock, life, fires, written, past>>
        /\ (row = NoJob => UNCHANGED <<row, occurrences, timer>>)
    BY <1>5 DEF FiredCommits
  <2> QED BY <1>1, <1>9, <1>5, <2>1, FiredMoves, CommitType DEF StoreSteps, Kinds, Jobs
<1>6. CASE MissCommits
  <2>1. Commits("missed") /\ UNCHANGED <<clock, life, fires, written, past>>
        /\ (row = NoJob => UNCHANGED <<row, occurrences, timer>>)
    BY <1>6 DEF MissCommits
  <2> QED BY <1>1, <1>9, <1>6, <2>1, MissMoves, CommitType DEF StoreSteps, Kinds, Jobs, Moved
<1>7. CASE ReconcileCommits
  <2>1. /\ Commits("reconcile") /\ op \in Ops
        /\ UNCHANGED <<clock, fence, running, generation, timer, fires, written, past>>
        /\ starts' = [starts EXCEPT ![op.start] = "others"]
        /\ listed' = [listed EXCEPT ![op.start] = row']
    BY <1>7, HeadType DEF ReconcileCommits, Commits
  <2>2. /\ row' \in {NoJob} \cup Jobs /\ occurrences' \in Nat /\ occurrences <= occurrences'
        /\ (row' # NoJob => row'.occ <= occurrences')
    BY <1>1, <1>7, ReconcileMoves DEF Moved, Jobs
  <2>3. starts' \in [1..MaxStarts -> {"no", "reading", "queued", "others", "done"}]
        /\ listed' \in [1..MaxStarts -> {NoJob} \cup Jobs]
    BY <2>1, <2>2 DEF TypeOK
  <2>4. queue' \in Seq(Ops) /\ failures' = failures
    BY <2>1, HeadType DEF Commits
  <2>5. (\A f \in Fires : fires'[f] # NoFire => fires'[f].occ <= occurrences')
        /\ spent' \subseteq 0..occurrences'
    BY <2>1, <2>2 DEF TypeOK, Submissions, past
  <2> QED BY <1>7, <1>9, <2>1, <2>2, <2>3, <2>4, <2>5 DEF TypeOK, clock, past, StoreSteps
<1>8. CASE WriteFails
  <2>1. op \in Ops /\ Tail(queue) \in Seq(Ops)
    BY <1>8, HeadType DEF WriteFails
  <2>2. queue' \in Seq(Ops)
    BY <1>8, <2>1, OpType DEF WriteFails, Kinds
  <2>3. failures' \in 0..MaxFailures /\ lost' \in BOOLEAN
    BY <1>8, Bounds DEF WriteFails, TypeOK
  <2>4. starts' \in [1..MaxStarts -> {"no", "reading", "queued", "others", "done"}]
    BY <1>8, <2>1 DEF WriteFails, TypeOK
  <2>5. UNCHANGED <<clock, fence, running, generation, listed, row, occurrences, timer, fires, written, past>>
    BY <1>8 DEF WriteFails
  <2> QED BY <2>2, <2>3, <2>4, <2>5 DEF TypeOK, clock, past
<1> QED BY <1>2, <1>3, <1>4, <1>5, <1>6, <1>7, <1>8 DEF StoreSteps

\* The clock.
LEMMA TypeClock ==
  ASSUME TypeOK, Ticks \/ SetBack \/ UNCHANGED vars
  PROVE  TypeOK'
<1>1. CASE Ticks
  BY <1>1 DEF Ticks, TypeOK, life, store, past
<1>2. CASE SetBack
  BY <1>2, Bounds DEF SetBack, TypeOK, life, store, past
<1>3. CASE UNCHANGED vars
  BY <1>3 DEF vars, TypeOK, clock, life, store, past
<1> QED BY <1>1, <1>2, <1>3

\* ... and no step breaks them.
LEMMA TypeNext == TypeOK /\ [Next]_vars => TypeOK'
  BY TypeClock, TypeLife, TypeFires, TypeStore DEF Next

\* Types: a job has a due instant exactly when it is enabled, and what is under way or was
\* submitted belongs to an occurrence there has been.
THEOREM TypeCorrect == Spec => []TypeOK
  BY TypeInit, TypeNext, PTL DEF Spec

----------------------------------------
(* The store's queue                                                       *)

\* A write of this kind waits in the queue.
Waits(kind) == \E i \in 1..Len(queue) : queue[i].kind = kind

\* What an appended write changes.
LEMMA Appended ==
  ASSUME TypeOK, NEW o \in Ops, queue' = Append(queue, o)
  PROVE  /\ Len(queue) \in Nat /\ Len(queue') = Len(queue) + 1
         /\ \A i \in 1..Len(queue) : queue'[i] = queue[i]
         /\ queue'[Len(queue) + 1] = o
         /\ \A kind : Waits(kind)' <=> (Waits(kind) \/ kind = o.kind)
<1>1. /\ Len(queue) \in Nat /\ Len(queue') = Len(queue) + 1
      /\ \A i \in 1..Len(queue) : queue'[i] = queue[i]
      /\ queue'[Len(queue) + 1] = o
  BY DEF TypeOK
<1> QED BY <1>1 DEF Waits

\* What taking the first write changes.
LEMMA Taken ==
  ASSUME TypeOK, queue # <<>>, queue' = Tail(queue)
  PROVE  /\ Len(queue) \in Nat \ {0} /\ Len(queue') = Len(queue) - 1
         /\ \A i \in 1..Len(queue') : i + 1 \in 1..Len(queue) /\ queue'[i] = queue[i + 1]
         /\ op = queue[1] /\ Waits(op.kind)
         /\ \A kind : Waits(kind)' => Waits(kind)
         /\ \A kind : Waits(kind) /\ kind # op.kind => Waits(kind)'
<1>1. /\ Len(queue) \in Nat \ {0} /\ Len(queue') = Len(queue) - 1
      /\ \A i \in 1..Len(queue') : i + 1 \in 1..Len(queue) /\ queue'[i] = queue[i + 1]
      /\ op = queue[1]
  BY DEF TypeOK, op
<1>2. \A kind : Waits(kind)' => Waits(kind)
  BY <1>1 DEF Waits
<1>3. Waits(op.kind)
  BY <1>1 DEF Waits
<1>4. ASSUME NEW kind, Waits(kind), kind # op.kind PROVE Waits(kind)'
  <2>1. PICK i \in 1..Len(queue) : queue[i].kind = kind
    BY <1>4 DEF Waits
  <2>2. i # 1
    BY <1>1, <1>4, <2>1
  <2>3. i - 1 \in 1..Len(queue') /\ (i - 1) + 1 = i
    BY <1>1, <2>2
  <2>4. queue'[i - 1] = queue[i]
    BY <1>1, <2>3
  <2> QED BY <2>1, <2>3, <2>4 DEF Waits
<1> QED BY <1>1, <1>2, <1>3, <1>4

\* An index that is not the last one is below it.
LEMMA BelowLast ==
  ASSUME NEW n \in Nat, NEW i \in 1..n, i # n
  PROVE  i \in 1..n - 1
  OBVIOUS

\* What replacing the first write by another at the end changes.
LEMMA TookAndAppended ==
  ASSUME TypeOK, queue # <<>>, NEW o \in Ops, queue' = Append(Tail(queue), o)
  PROVE  /\ Len(queue) \in Nat \ {0} /\ Len(queue') = Len(queue)
         /\ \A i \in 1..Len(queue) - 1 : i + 1 \in 1..Len(queue) /\ queue'[i] = queue[i + 1]
         /\ queue'[Len(queue)] = o
         /\ \A kind : Waits(kind)' => Waits(kind) \/ kind = o.kind
         /\ \A kind : Waits(kind) /\ kind # op.kind => Waits(kind)'
         /\ Waits(o.kind)'
<1>1. /\ Len(queue) \in Nat \ {0} /\ Len(queue') = Len(queue)
      /\ \A i \in 1..Len(queue) - 1 : i + 1 \in 1..Len(queue) /\ queue'[i] = queue[i + 1]
      /\ queue'[Len(queue)] = o
      /\ op = queue[1]
  BY DEF TypeOK, op
<1>2. ASSUME NEW kind, Waits(kind)', kind # o.kind PROVE Waits(kind)
  <2>1. PICK i \in 1..Len(queue') : queue'[i].kind = kind
    BY <1>2 DEF Waits
  <2>4. i # Len(queue)
    BY <1>1, <1>2, <2>1
  <2>5. Len(queue) \in Nat \ {0} /\ Len(queue') = Len(queue)
    BY <1>1
  <2>6. i \in 1..Len(queue)
    BY <2>1, <2>5
  <2>2. i \in 1..Len(queue) - 1
    BY <2>4, <2>5, <2>6, BelowLast
  <2>3. i + 1 \in 1..Len(queue) /\ queue[i + 1].kind = kind
    BY <1>1, <2>1, <2>2
  <2> QED BY <2>3 DEF Waits
<1>3. ASSUME NEW kind, Waits(kind), kind # op.kind PROVE Waits(kind)'
  <2>1. PICK i \in 1..Len(queue) : queue[i].kind = kind
    BY <1>3 DEF Waits
  <2>2. i # 1
    BY <1>1, <1>3, <2>1
  <2>3. i - 1 \in 1..Len(queue) - 1 /\ (i - 1) + 1 = i
    BY <1>1, <2>2
  <2>4. queue'[i - 1] = queue[i] /\ i - 1 \in 1..Len(queue')
    BY <1>1, <2>3
  <2> QED BY <2>1, <2>4 DEF Waits
<1>4. Waits(o.kind)'
  <2>1. Len(queue) \in 1..Len(queue')
    BY <1>1
  <2> QED BY <1>1, <2>1 DEF Waits
<1> QED BY <1>1, <1>2, <1>3, <1>4

----------------------------------------
(* An accepted submission is on disk                                       *)

\* The job has never been there, and so nothing was ever submitted.
NeverRan ==
  /\ row = NoJob /\ accepted = Never /\ ~Waits("fired")
  /\ \A f \in Fires : fires[f] = NoFire

\* A job is created once, before anything is submitted for it.
CreateInv ==
  /\ written = 0 => ~Waits("create") /\ ~Waits("delete")
  /\ ~fence => ~Waits("remove")
  /\ written = 0 /\ ~fence /\ row = NoJob => NeverRan
  /\ Waits("create") => NeverRan
  /\ \A i, j \in 1..Len(queue) : queue[i].kind = "create" /\ queue[j].kind = "create" => i = j

\* The last submission accepted is in the row, or in the last "fired" that waits.
RecordInv ==
  failures = 0 /\ row # NoJob =>
    /\ ~Waits("fired") => row.last = accepted
    /\ \A i \in 1..Len(queue) :
         queue[i].kind = "fired" /\ (\A j \in i + 1..Len(queue) : queue[j].kind # "fired")
           => queue[i].at = accepted

\* The unique "create" of a queue stays so, when another write is appended or one taken.
LEMMA CreateOnce ==
  ASSUME TypeOK, CreateInv,
         \/ UNCHANGED queue
         \/ \E o \in Ops : queue' = Append(queue, o) /\ (o.kind = "create" => ~Waits("create"))
         \/ queue # <<>> /\ queue' = Tail(queue)
         \/ queue # <<>> /\ \E o \in Ops : queue' = Append(Tail(queue), o) /\ o.kind # "create"
  PROVE  \A i, j \in 1..Len(queue') : queue'[i].kind = "create" /\ queue'[j].kind = "create" => i = j
<1>1. CASE UNCHANGED queue
  BY <1>1 DEF CreateInv
<1>2. ASSUME NEW o \in Ops, queue' = Append(queue, o), o.kind = "create" => ~Waits("create")
      PROVE  \A i, j \in 1..Len(queue') : queue'[i].kind = "create" /\ queue'[j].kind = "create" => i = j
  <2> SUFFICES ASSUME NEW i \in 1..Len(queue'), NEW j \in 1..Len(queue'),
                      queue'[i].kind = "create", queue'[j].kind = "create"
               PROVE  i = j
    OBVIOUS
  <2>1. /\ Len(queue) \in Nat /\ Len(queue') = Len(queue) + 1
        /\ \A k \in 1..Len(queue) : queue'[k] = queue[k]
        /\ queue'[Len(queue) + 1] = o
    BY <1>2, Appended
  <2>2. CASE o.kind = "create"
    <3>1. \A k \in 1..Len(queue) : queue[k].kind # "create"
      BY <1>2, <2>2 DEF Waits
    <3>2. \A k \in 1..Len(queue') : k # Len(queue) + 1 => k \in 1..Len(queue)
      BY <2>1
    <3> QED BY <2>1, <3>1, <3>2
  <2>3. CASE o.kind # "create"
    <3>1. i # Len(queue) + 1 /\ j # Len(queue) + 1
      BY <2>1, <2>3
    <3>2. i \in 1..Len(queue) /\ j \in 1..Len(queue)
      BY <2>1, <3>1
    <3> QED BY <2>1, <3>2 DEF CreateInv
  <2> QED BY <2>2, <2>3
<1>3. CASE queue # <<>> /\ queue' = Tail(queue)
  <2> SUFFICES ASSUME NEW i \in 1..Len(queue'), NEW j \in 1..Len(queue'),
                      queue'[i].kind = "create", queue'[j].kind = "create"
               PROVE  i = j
    OBVIOUS
  <2>1. /\ i + 1 \in 1..Len(queue) /\ queue'[i] = queue[i + 1]
        /\ j + 1 \in 1..Len(queue) /\ queue'[j] = queue[j + 1]
    BY <1>3, Taken
  <2>2. i + 1 = j + 1
    BY <2>1 DEF CreateInv
  <2> QED BY <2>2
<1>4. ASSUME NEW o \in Ops, queue # <<>>, queue' = Append(Tail(queue), o), o.kind # "create"
      PROVE  \A i, j \in 1..Len(queue') : queue'[i].kind = "create" /\ queue'[j].kind = "create" => i = j
  <2> SUFFICES ASSUME NEW i \in 1..Len(queue'), NEW j \in 1..Len(queue'),
                      queue'[i].kind = "create", queue'[j].kind = "create"
               PROVE  i = j
    OBVIOUS
  <2>1. i \in 1..Len(queue) - 1 /\ j \in 1..Len(queue) - 1
    BY <1>4, TookAndAppended
  <2>2. i + 1 = j + 1
    BY <1>4, <2>1, TookAndAppended DEF CreateInv
  <2> QED BY <2>1, <2>2
<1> QED BY <1>1, <1>2, <1>3, <1>4

\* The steps that neither submit nor create nor commit anything.
LEMMA CreateQuiet ==
  ASSUME TypeOK, CreateInv,
         \/ UNCHANGED queue
         \/ \E o \in Ops : /\ queue' = Append(queue, o) /\ o.kind \notin {"create", "fired"}
                           /\ o.kind = "delete" => written' # 0
                           /\ o.kind = "remove" => fence',
         UNCHANGED <<row, accepted, fires>>, written' = 0 => written = 0, ~fence' => ~fence
  PROVE  CreateInv'
<1>1. /\ \A kind \in {"create", "fired"} : Waits(kind)' <=> Waits(kind)
      /\ Waits("delete")' => Waits("delete") \/ written' # 0
      /\ Waits("remove")' => Waits("remove") \/ fence'
  <2>1. CASE UNCHANGED queue
    BY <2>1 DEF Waits
  <2>2. CASE ~UNCHANGED queue
    BY <2>2, Appended
  <2> QED BY <2>1, <2>2
<1>2. NeverRan => NeverRan'
  BY <1>1 DEF NeverRan
<1>3. \A i, j \in 1..Len(queue') : queue'[i].kind = "create" /\ queue'[j].kind = "create" => i = j
  BY CreateOnce
<1> QED BY <1>1, <1>2, <1>3 DEF CreateInv

\* A commit takes one write and keeps a job that is there, or that is not.
LEMMA CreateCommit ==
  ASSUME TypeOK, CreateInv, queue # <<>>,
         \/ queue' = Tail(queue)
         \/ \E o \in Ops : queue' = Append(Tail(queue), o) /\ o.kind = "missed",
         UNCHANGED <<accepted, fires, written, fence>>, row = NoJob <=> row' = NoJob
  PROVE  CreateInv'
<1>1. \A kind \in Kinds \ {"missed"} : Waits(kind)' => Waits(kind)
  <2>1. CASE queue' = Tail(queue)
    BY <2>1, Taken
  <2>2. CASE queue' # Tail(queue)
    BY <2>2, TookAndAppended
  <2> QED BY <2>1, <2>2
<1>2. NeverRan => NeverRan'
  BY <1>1 DEF NeverRan, Kinds
<1>3. \A i, j \in 1..Len(queue') : queue'[i].kind = "create" /\ queue'[j].kind = "create" => i = j
  BY CreateOnce
<1> QED BY <1>1, <1>2, <1>3 DEF CreateInv, Kinds

\* Every step keeps it.
LEMMA CreateNext ==
  ASSUME TypeOK, CreateInv, [Next]_vars
  PROVE  CreateInv'
<1>0. written \in Nat
  BY Bounds DEF TypeOK
<1>1. CASE Ticks \/ SetBack \/ UNCHANGED vars
  <2>1. UNCHANGED <<queue, row, accepted, fires, written, fence>>
    BY <1>1 DEF Ticks, SetBack, vars, life, store, past
  <2> QED BY <2>1, CreateQuiet
<1>2. CASE Stops
  <2>1. UNCHANGED <<row, accepted, fires, written>> /\ fence'
    BY <1>2 DEF Stops, past
  <2>2. UNCHANGED queue \/ queue' = Append(queue, Op("remove"))
    BY <1>2 DEF Stops, Enqueue
  <2>3. Op("remove") \in Ops /\ Op("remove").kind = "remove"
    BY OpType DEF Kinds
  <2> QED BY <2>1, <2>2, <2>3, CreateQuiet
<1>3. ASSUME NEW s \in 1..MaxStarts, StartBegins(s) \/ StartLists(s) \/ StartArms(s)
      PROVE  CreateInv'
  <2>1. UNCHANGED <<row, accepted, fires, written, fence>>
    BY <1>3 DEF StartBegins, StartLists, StartArms, store, past
  <2> DEFINE o == [Op("reconcile") EXCEPT !.start = s]
  <2>2. UNCHANGED queue \/ queue' = Append(queue, o)
    BY <1>3 DEF StartBegins, StartLists, StartArms, store, Enqueue
  <2>3. o \in Ops /\ o.kind = "reconcile"
    BY OpType DEF Kinds, Ops
  <2> HIDE DEF o
  <2> QED BY <2>1, <2>2, <2>3, CreateQuiet
<1>4. CASE Creates
  <2>1. /\ row = NoJob /\ written = 0 /\ ~fence /\ written' = 1
        /\ UNCHANGED <<row, accepted, fires, fence>>
        /\ queue' = Append(queue, Op("create"))
    BY <1>4 DEF Creates, Edits, Enqueue, life, past
  <2>2. Op("create") \in Ops /\ Op("create").kind = "create"
    BY OpType DEF Kinds
  <2>3. NeverRan /\ ~Waits("create") /\ ~Waits("remove")
    BY <2>1 DEF CreateInv
  <2>4. ~Waits("fired")' /\ ~Waits("remove")'
    BY <2>1, <2>2, <2>3, Appended DEF NeverRan
  <2>5. NeverRan'
    BY <2>1, <2>3, <2>4 DEF NeverRan
  <2>6. \A i, j \in 1..Len(queue') : queue'[i].kind = "create" /\ queue'[j].kind = "create" => i = j
    BY <2>1, <2>2, <2>3, CreateOnce
  <2> QED BY <2>1, <2>4, <2>5, <2>6 DEF CreateInv
<1>5. CASE Updates \/ Deletes
  <2>1. PICK kind \in {"update", "delete"} : Edits(kind)
    BY <1>5 DEF Updates, Deletes
  <2>2. /\ UNCHANGED <<row, accepted, fires, fence>> /\ written' = written + 1
        /\ queue' = Append(queue, Op(kind))
    BY <2>1 DEF Edits, Enqueue, life, past
  <2>3. Op(kind) \in Ops /\ Op(kind).kind = kind
    BY OpType DEF Kinds
  <2>4. written' # 0
    BY <1>0, <2>2
  <2> QED BY <2>2, <2>3, <2>4, CreateQuiet
<1>6. CASE TimerFires
  <2>1. UNCHANGED <<queue, row, accepted, written, fence>>
    BY <1>6 DEF TimerFires, clock, life, store, past
  <2>2. CASE UNCHANGED fires
    BY <2>1, <2>2, CreateQuiet
  <2>3. CASE ~UNCHANGED fires
    <3>1. row # NoJob
      BY <1>6, <2>3 DEF TimerFires
    <3>2. ~Waits("create") /\ (Waits("create")' <=> Waits("create"))
          /\ (Waits("delete")' <=> Waits("delete")) /\ (Waits("remove")' <=> Waits("remove"))
      BY <2>1, <3>1 DEF CreateInv, NeverRan, Waits
    <3>3. \A i, j \in 1..Len(queue') : queue'[i].kind = "create" /\ queue'[j].kind = "create" => i = j
      BY <2>1, CreateOnce
    <3> QED BY <2>1, <3>1, <3>2, <3>3 DEF CreateInv
  <2> QED BY <2>2, <2>3
<1>7. ASSUME NEW f \in Fires, FireSteps(f) PROVE CreateInv'
  <2>1. fires[f] # NoFire /\ UNCHANGED <<row, written, fence>>
    BY <1>7 DEF FireSteps, Accepted, Refused, life
  <2> DEFINE a == [Op("fired") EXCEPT !.due = fires[f].due, !.gen = fires[f].gen]
  <2>2. UNCHANGED queue \/ queue' = Append(queue, a) \/ queue' = Append(queue, Op("missed"))
    BY <1>7 DEF FireSteps, Accepted, Refused, Enqueue
  <2>3. a \in Ops /\ a.kind = "fired" /\ Op("missed") \in Ops /\ Op("missed").kind = "missed"
    BY <2>1, OpType DEF Kinds, Ops, TypeOK, Submissions
  <2> HIDE DEF a
  <2>4. ~NeverRan
    BY <2>1 DEF NeverRan
  <2>5. \A kind \in {"create", "delete", "remove"} : Waits(kind)' <=> Waits(kind)
    <3>1. CASE UNCHANGED queue
      BY <3>1 DEF Waits
    <3>2. CASE ~UNCHANGED queue
      BY <2>2, <2>3, <3>2, Appended
    <3> QED BY <3>1, <3>2
  <2>6. \A i, j \in 1..Len(queue') : queue'[i].kind = "create" /\ queue'[j].kind = "create" => i = j
    BY <2>2, <2>3, CreateOnce
  <2> QED BY <2>1, <2>4, <2>5, <2>6 DEF CreateInv
<1>8. CASE CreateCommits
  <2>1. /\ Commits("create") /\ UNCHANGED <<fires, written, accepted, fence>>
    BY <1>8 DEF CreateCommits, life, past
  <2>2. queue # <<>> /\ queue' = Tail(queue) /\ op.kind = "create"
    BY <2>1 DEF Commits
  <2>3. row' # NoJob
    BY <1>8, CreateMoves
  <2>4. ~Waits("create")'
    <3> SUFFICES ASSUME NEW i \in 1..Len(queue'), queue'[i].kind = "create" PROVE FALSE
      BY DEF Waits
    <3>1. i + 1 \in 1..Len(queue) /\ queue[i + 1].kind = "create" /\ queue[1].kind = "create"
          /\ 1 \in 1..Len(queue)
      BY <2>2, Taken
    <3>2. i + 1 = 1
      BY <3>1 DEF CreateInv
    <3> QED BY <3>2
  <2>5. Waits("create")
    BY <2>2, Taken
  <2>6. (Waits("delete")' => Waits("delete")) /\ (Waits("remove")' => Waits("remove"))
    BY <2>2, Taken
  <2>7. \A i, j \in 1..Len(queue') : queue'[i].kind = "create" /\ queue'[j].kind = "create" => i = j
    BY <2>2, CreateOnce
  <2> QED BY <2>1, <2>3, <2>4, <2>5, <2>6, <2>7 DEF CreateInv
<1>9. CASE RemovalCommits
  <2>1. /\ Commits("delete") \/ Commits("remove")
        /\ row' = NoJob /\ UNCHANGED <<fires, written, accepted, fence>>
    BY <1>9 DEF RemovalCommits, life, past
  <2>2. queue # <<>> /\ queue' = Tail(queue) /\ op.kind \in {"delete", "remove"}
    BY <2>1 DEF Commits
  <2>3. CASE row = NoJob
    BY <2>1, <2>2, <2>3, CreateCommit
  <2>4. CASE row # NoJob
    <3>1. ~Waits("create")
      BY <2>4 DEF CreateInv, NeverRan
    <3>2. (Waits("delete")' => Waits("delete")) /\ (Waits("remove")' => Waits("remove"))
          /\ ~Waits("create")'
      BY <2>2, <3>1, Taken
    <3>3. Waits("delete") \/ Waits("remove")
      BY <2>2, Taken
    <3>4. \A i, j \in 1..Len(queue') : queue'[i].kind = "create" /\ queue'[j].kind = "create" => i = j
      BY <2>2, CreateOnce
    <3> QED BY <2>1, <3>1, <3>2, <3>3, <3>4 DEF CreateInv
  <2> QED BY <2>3, <2>4
<1>10. CASE UpdateCommits \/ FiredCommits \/ MissCommits \/ ReconcileCommits
  <2>1. queue # <<>> /\ queue' = Tail(queue) /\ UNCHANGED <<accepted, fires, written, fence>>
    BY <1>10 DEF UpdateCommits, FiredCommits, MissCommits, ReconcileCommits, Commits, life, past
  <2>2. row = NoJob <=> row' = NoJob
    <3>1. CASE ReconcileCommits
      BY <3>1, ReconcileMoves
    <3>2. CASE ~ReconcileCommits /\ row = NoJob
      BY <1>10, <3>2 DEF UpdateCommits, FiredCommits, MissCommits
    <3>3. CASE ~ReconcileCommits /\ row # NoJob
      BY <1>10, <3>3, UpdateMoves, FiredMoves, MissMoves
    <3> QED BY <3>1, <3>2, <3>3
  <2> QED BY <2>1, <2>2, CreateCommit
<1>11. CASE WriteFails
  <2>1. queue # <<>> /\ UNCHANGED <<accepted, fires, written, fence, row>>
    BY <1>11 DEF WriteFails, past
  <2>2. queue' = Tail(queue) \/ queue' = Append(Tail(queue), Op("missed"))
    BY <1>11 DEF WriteFails
  <2>3. Op("missed") \in Ops /\ Op("missed").kind = "missed"
    BY OpType DEF Kinds
  <2> QED BY <2>1, <2>2, <2>3, CreateCommit
<1> QED BY <1>1, <1>2, <1>3, <1>4, <1>5, <1>6, <1>7, <1>8, <1>9, <1>10, <1>11 DEF Next, StoreSteps

\* A write of another kind appended, or none.
LEMMA RecordAppend ==
  ASSUME TypeOK, RecordInv,
         \/ UNCHANGED queue
         \/ \E o \in Ops : queue' = Append(queue, o) /\ o.kind # "fired",
         UNCHANGED <<row, accepted, failures>>
  PROVE  RecordInv'
<1>1. CASE UNCHANGED queue
  BY <1>1 DEF RecordInv, Waits
<1>2. ASSUME NEW o \in Ops, queue' = Append(queue, o), o.kind # "fired" PROVE RecordInv'
  <2>1. /\ Len(queue) \in Nat /\ Len(queue') = Len(queue) + 1
        /\ \A k \in 1..Len(queue) : queue'[k] = queue[k]
        /\ queue'[Len(queue) + 1] = o /\ (Waits("fired")' <=> Waits("fired"))
    BY <1>2, Appended
  <2> SUFFICES ASSUME failures = 0, row # NoJob,
                      NEW i \in 1..Len(queue'), queue'[i].kind = "fired",
                      \A j \in i + 1..Len(queue') : queue'[j].kind # "fired"
               PROVE  queue'[i].at = accepted
    BY <2>1 DEF RecordInv
  <2>2. i # Len(queue) + 1
    BY <1>2, <2>1
  <2>3. i \in 1..Len(queue)
    BY <2>1, <2>2
  <2>4. \A j \in i + 1..Len(queue) : j \in i + 1..Len(queue') /\ j \in 1..Len(queue)
    BY <2>1, <2>3
  <2>5. \A j \in i + 1..Len(queue) : queue[j].kind # "fired"
    BY <2>1, <2>4
  <2> QED BY <2>1, <2>3, <2>5 DEF RecordInv
<1> QED BY <1>1, <1>2

\* The first write taken, which is not a fire's: the last run in the row stays what it was.
LEMMA RecordTake ==
  ASSUME TypeOK, RecordInv, queue # <<>>, queue' = Tail(queue), op.kind # "fired",
         UNCHANGED <<accepted, failures>>,
         row' # NoJob => row # NoJob /\ row'.last = row.last
  PROVE  RecordInv'
<1>1. /\ Len(queue) \in Nat \ {0} /\ Len(queue') = Len(queue) - 1
      /\ \A i \in 1..Len(queue') : i + 1 \in 1..Len(queue) /\ queue'[i] = queue[i + 1]
      /\ (Waits("fired")' => Waits("fired")) /\ (Waits("fired") => Waits("fired")')
  BY Taken
<1> SUFFICES ASSUME failures = 0, row # NoJob,
                    NEW i \in 1..Len(queue'), queue'[i].kind = "fired",
                    \A j \in i + 1..Len(queue') : queue'[j].kind # "fired"
             PROVE  queue'[i].at = accepted
  BY <1>1 DEF RecordInv
<1>2. \A j \in (i + 1) + 1..Len(queue) : queue[j].kind # "fired"
  <2> SUFFICES ASSUME NEW j \in (i + 1) + 1..Len(queue) PROVE queue[j].kind # "fired"
    OBVIOUS
  <2>1. j - 1 \in i + 1..Len(queue') /\ j - 1 \in 1..Len(queue') /\ (j - 1) + 1 = j
    BY <1>1
  <2>2. queue'[j - 1] = queue[j]
    BY <1>1, <2>1
  <2> QED BY <2>1, <2>2
<1> QED BY <1>1, <1>2 DEF RecordInv

\* The first write taken is a fire's: it is the last one, or a later one waits.
LEMMA RecordFired ==
  ASSUME TypeOK, RecordInv, FiredCommits
  PROVE  RecordInv'
<1>1. /\ queue # <<>> /\ queue' = Tail(queue) /\ op.kind = "fired"
      /\ UNCHANGED <<accepted, failures>>
  BY DEF FiredCommits, Commits, past
<1>2. /\ Len(queue) \in Nat \ {0} /\ Len(queue') = Len(queue) - 1
      /\ \A i \in 1..Len(queue') : i + 1 \in 1..Len(queue) /\ queue'[i] = queue[i + 1]
      /\ op = queue[1]
  BY <1>1, Taken
<1>3. CASE row = NoJob
  BY <1>3 DEF FiredCommits, RecordInv
<1>4. ASSUME row # NoJob, failures = 0 PROVE RecordInv'
  <2>1. row'.last = op.at
    BY <1>4, FiredMoves
  <2>2. ASSUME ~Waits("fired")' PROVE row'.last = accepted
    <3>1. \A j \in 1 + 1..Len(queue) : queue[j].kind # "fired"
      <4> SUFFICES ASSUME NEW j \in 1 + 1..Len(queue) PROVE queue[j].kind # "fired"
        OBVIOUS
      <4>1. j - 1 \in 1..Len(queue') /\ (j - 1) + 1 = j
        BY <1>2
      <4>2. queue'[j - 1] = queue[j]
        BY <1>2, <4>1
      <4> QED BY <2>2, <4>1, <4>2 DEF Waits
    <3>2. 1 \in 1..Len(queue)
      BY <1>2
    <3> QED BY <1>1, <1>2, <1>4, <2>1, <3>1, <3>2 DEF RecordInv
  <2>3. ASSUME NEW i \in 1..Len(queue'), queue'[i].kind = "fired",
               \A j \in i + 1..Len(queue') : queue'[j].kind # "fired"
        PROVE  queue'[i].at = accepted
    <3>1. \A j \in (i + 1) + 1..Len(queue) : queue[j].kind # "fired"
      <4> SUFFICES ASSUME NEW j \in (i + 1) + 1..Len(queue) PROVE queue[j].kind # "fired"
        OBVIOUS
      <4>1. j - 1 \in i + 1..Len(queue') /\ j - 1 \in 1..Len(queue') /\ (j - 1) + 1 = j
        BY <1>2
      <4>2. queue'[j - 1] = queue[j]
        BY <1>2, <4>1
      <4> QED BY <2>3, <4>1, <4>2
    <3> QED BY <1>2, <1>4, <2>3, <3>1 DEF RecordInv
  <2> QED BY <1>1, <2>2, <2>3 DEF RecordInv
<1> QED BY <1>1, <1>3, <1>4 DEF RecordInv

\* No step loses an accepted submission.
LEMMA RecordNext ==
  ASSUME TypeOK, CreateInv, RecordInv, [Next]_vars
  PROVE  RecordInv'
<1>1. CASE Ticks \/ SetBack \/ TimerFires \/ UNCHANGED vars
  <2>1. UNCHANGED <<queue, row, accepted, failures>>
    BY <1>1 DEF Ticks, SetBack, TimerFires, vars, life, store, past
  <2> QED BY <2>1, RecordAppend
<1>2. CASE Stops \/ Creates \/ Updates \/ Deletes
  <2>1. UNCHANGED <<row, accepted, failures>>
    BY <1>2 DEF Stops, Creates, Updates, Deletes, Edits, past
  <2>2. UNCHANGED queue \/ \E kind \in {"remove", "create", "update", "delete"} :
                             queue' = Append(queue, Op(kind))
    BY <1>2 DEF Stops, Creates, Updates, Deletes, Edits, Enqueue
  <2>3. \A kind \in {"remove", "create", "update", "delete"} :
          Op(kind) \in Ops /\ Op(kind).kind # "fired"
    BY OpType DEF Kinds
  <2> QED BY <2>1, <2>2, <2>3, RecordAppend
<1>3. ASSUME NEW s \in 1..MaxStarts, StartBegins(s) \/ StartLists(s) \/ StartArms(s)
      PROVE  RecordInv'
  <2>1. UNCHANGED <<row, accepted, failures>>
    BY <1>3 DEF StartBegins, StartLists, StartArms, store, past
  <2> DEFINE o == [Op("reconcile") EXCEPT !.start = s]
  <2>2. UNCHANGED queue \/ queue' = Append(queue, o)
    BY <1>3 DEF StartBegins, StartLists, StartArms, store, Enqueue
  <2>3. o \in Ops /\ o.kind = "reconcile"
    BY OpType DEF Kinds, Ops
  <2> HIDE DEF o
  <2> QED BY <2>1, <2>2, <2>3, RecordAppend
<1>4. ASSUME NEW f \in Fires, Accepted(f) PROVE RecordInv'
  <2> DEFINE a == [Op("fired") EXCEPT !.due = fires[f].due, !.gen = fires[f].gen]
  <2>1. queue' = Append(queue, a) /\ accepted' = now
    BY <1>4 DEF Accepted, Recorded, Enqueue
  <2>2. a \in Ops /\ a.kind = "fired" /\ a.at = now
    <3>1. fires[f] \in Submissions
      BY <1>4 DEF Accepted, TypeOK
    <3> QED BY <3>1, OpType DEF Kinds, Ops, Submissions
  <2> HIDE DEF a
  <2>3. /\ Len(queue) \in Nat /\ Len(queue') = Len(queue) + 1
        /\ queue'[Len(queue) + 1] = a /\ Waits("fired")'
    BY <2>1, <2>2, Appended
  <2>4. ASSUME NEW i \in 1..Len(queue'), \A j \in i + 1..Len(queue') : queue'[j].kind # "fired"
        PROVE  queue'[i].at = now
    <3>1. CASE i = Len(queue) + 1
      BY <2>2, <2>3, <3>1
    <3>2. CASE i # Len(queue) + 1
      <4>1. Len(queue) + 1 \in i + 1..Len(queue')
        BY <2>3, <3>2
      <4> QED BY <2>2, <2>3, <2>4, <4>1
    <3> QED BY <3>1, <3>2
  <2> QED BY <2>1, <2>3, <2>4 DEF RecordInv
<1>5. ASSUME NEW f \in Fires, Refused(f) PROVE RecordInv'
  <2>1. UNCHANGED <<row, accepted, failures>>
    BY <1>5 DEF Refused
  <2>2. UNCHANGED queue \/ queue' = Append(queue, Op("missed"))
    BY <1>5 DEF Refused, Enqueue
  <2>3. Op("missed") \in Ops /\ Op("missed").kind = "missed"
    BY OpType DEF Kinds
  <2> QED BY <2>1, <2>2, <2>3, RecordAppend
<1>6. CASE CreateCommits
  <2>1. /\ queue # <<>> /\ queue' = Tail(queue) /\ op.kind = "create" /\ UNCHANGED accepted
    BY <1>6 DEF CreateCommits, Commits, past
  <2>2. NeverRan
    BY <2>1, Taken DEF CreateInv
  <2>3. ~Waits("fired")'
    BY <2>1, <2>2, Taken DEF NeverRan
  <2>4. row'.last = Never
    BY <1>6, CreateMoves
  <2> QED BY <2>1, <2>2, <2>3, <2>4 DEF RecordInv, NeverRan, Waits
<1>7. CASE UpdateCommits \/ RemovalCommits \/ MissCommits \/ ReconcileCommits
  <2>1. /\ queue # <<>> /\ queue' = Tail(queue) /\ op.kind # "fired"
        /\ UNCHANGED <<accepted, failures>>
    BY <1>7 DEF UpdateCommits, RemovalCommits, MissCommits, ReconcileCommits, Commits, past
  <2>2. row' # NoJob => row # NoJob /\ row'.last = row.last
    <3>1. CASE RemovalCommits
      BY <3>1 DEF RemovalCommits
    <3>2. CASE ReconcileCommits
      BY <3>2, ReconcileMoves DEF Moved
    <3>3. CASE (UpdateCommits \/ MissCommits) /\ row = NoJob
      BY <3>3 DEF UpdateCommits, MissCommits
    <3>4. CASE (UpdateCommits \/ MissCommits) /\ row # NoJob
      BY <3>4, UpdateMoves, MissMoves DEF Moved
    <3> QED BY <1>7, <3>1, <3>2, <3>3, <3>4
  <2> QED BY <2>1, <2>2, RecordTake
<1>8. CASE WriteFails
  <2>1. failures' # 0
    BY <1>8, Bounds DEF WriteFails, TypeOK
  <2> QED BY <2>1 DEF RecordInv
<1> QED BY <1>1, <1>2, <1>3, <1>4, <1>5, <1>6, <1>7, <1>8, RecordFired
    DEF Next, StoreSteps, FireSteps

\* At first nothing was accepted.
LEMMA RecordInit == Init => CreateInv /\ RecordInv
<1> SUFFICES ASSUME Init PROVE CreateInv /\ RecordInv
  OBVIOUS
<1>1. Len(queue) = 0 /\ 1..Len(queue) = {}
  BY DEF Init
<1>2. \A f \in Fires : fires[f] = NoFire
  BY DEF Init
<1>3. CreateInv
  BY <1>1, <1>2 DEF Init, CreateInv, NeverRan, Waits
<1>4. row = NoJob \/ row.last = Never
  BY DEF Init, Job
<1>5. RecordInv
  BY <1>1, <1>4 DEF Init, RecordInv
<1> QED BY <1>3, <1>5

\* A submission that was accepted never looks on disk as if it had not happened: with nothing
\* under way and no write failed, the row names the last one, whatever edits, refusals and
\* stops came in between (runJob, index.ts:384-392).
THEOREM AcceptedAlwaysRecorded == Spec => []AcceptedIsRecorded
<1>1. Init => TypeOK /\ CreateInv /\ RecordInv
  BY TypeInit, RecordInit
<1>2. (TypeOK /\ CreateInv /\ RecordInv) /\ [Next]_vars => (TypeOK /\ CreateInv /\ RecordInv)'
  BY TypeNext, CreateNext, RecordNext
<1>3. RecordInv => AcceptedIsRecorded
  <2>1. queue = <<>> => ~Waits("fired")
    BY DEF Waits
  <2> QED BY <2>1 DEF RecordInv, AcceptedIsRecorded, Settled
<1> QED BY <1>1, <1>2, <1>3, PTL DEF Spec

----------------------------------------
(* Starts that do not overlap                                              *)

UnderWay(s) == starts[s] \in {"reading", "queued", "others"}

\* The owner starts its scheduler once, or again after a start that failed: what the theorems
\* about timers assume.  Two starts at a time are left out (start, index.ts:88-104).
StartsInTurn == \A s, t \in 1..MaxStarts : UnderWay(s) /\ UnderWay(t) => s = t

\* A "reconcile" that waits is the one of a start that waits for it.
ReconcileOnce ==
  \A i, j \in 1..Len(queue) :
    queue[i].kind = "reconcile" /\ queue[j].kind = "reconcile" /\ queue[i].start = queue[j].start => i = j
ReconcileWaits ==
  \A i \in 1..Len(queue) : queue[i].kind = "reconcile" =>
    queue[i].start \in 1..MaxStarts /\ starts[queue[i].start] = "queued"

\* Appending something else, or taking a write, makes no new "reconcile".
LEMMA ReconcileQueue ==
  ASSUME TypeOK, ReconcileOnce,
         \/ UNCHANGED queue
         \/ \E o \in Ops : queue' = Append(queue, o) /\ o.kind # "reconcile"
         \/ queue # <<>> /\ queue' = Tail(queue)
         \/ queue # <<>> /\ \E o \in Ops : queue' = Append(Tail(queue), o) /\ o.kind # "reconcile"
  PROVE  /\ ReconcileOnce'
         /\ \A i \in 1..Len(queue') : queue'[i].kind = "reconcile" =>
              \E k \in 1..Len(queue) : queue[k] = queue'[i]
<1>1. CASE UNCHANGED queue
  BY <1>1 DEF ReconcileOnce
<1>2. ASSUME NEW o \in Ops, queue' = Append(queue, o), o.kind # "reconcile"
      PROVE  \A i \in 1..Len(queue') : queue'[i].kind = "reconcile" => i \in 1..Len(queue) /\ queue'[i] = queue[i]
  <2>1. /\ Len(queue) \in Nat /\ Len(queue') = Len(queue) + 1
        /\ \A k \in 1..Len(queue) : queue'[k] = queue[k]
        /\ queue'[Len(queue) + 1] = o
    BY <1>2, Appended
  <2> QED BY <1>2, <2>1
<1>3. CASE queue # <<>> /\ queue' = Tail(queue)
  <2>1. \A i \in 1..Len(queue') : i + 1 \in 1..Len(queue) /\ queue'[i] = queue[i + 1]
    BY <1>3, Taken
  <2>2. ReconcileOnce'
    <3> SUFFICES ASSUME NEW i \in 1..Len(queue'), NEW j \in 1..Len(queue'),
                        queue'[i].kind = "reconcile", queue'[j].kind = "reconcile",
                        queue'[i].start = queue'[j].start
                 PROVE  i = j
      BY DEF ReconcileOnce
    <3>1. i + 1 = j + 1
      BY <2>1 DEF ReconcileOnce
    <3> QED BY <3>1
  <2> QED BY <2>1, <2>2
<1>4. ASSUME NEW o \in Ops, queue # <<>>, queue' = Append(Tail(queue), o), o.kind # "reconcile"
      PROVE  ReconcileOnce' /\ \A i \in 1..Len(queue') : queue'[i].kind = "reconcile" =>
               \E k \in 1..Len(queue) : queue[k] = queue'[i]
  <2>1. \A i \in 1..Len(queue') : queue'[i].kind = "reconcile" =>
           i + 1 \in 1..Len(queue) /\ queue'[i] = queue[i + 1]
    <3> SUFFICES ASSUME NEW i \in 1..Len(queue'), queue'[i].kind = "reconcile"
                 PROVE  i + 1 \in 1..Len(queue) /\ queue'[i] = queue[i + 1]
      OBVIOUS
    <3>1. /\ Len(queue) \in Nat \ {0} /\ Len(queue') = Len(queue)
          /\ \A k \in 1..Len(queue) - 1 : k + 1 \in 1..Len(queue) /\ queue'[k] = queue[k + 1]
          /\ queue'[Len(queue)] = o
      BY <1>4, TookAndAppended
    <3>2. i # Len(queue)
      BY <1>4, <3>1
    <3>3. Len(queue) \in Nat /\ i \in 1..Len(queue)
      BY <3>1
    <3>4. i \in 1..Len(queue) - 1
      BY <3>2, <3>3, BelowLast
    <3> QED BY <3>1, <3>4
  <2>2. ReconcileOnce'
    <3> SUFFICES ASSUME NEW i \in 1..Len(queue'), NEW j \in 1..Len(queue'),
                        queue'[i].kind = "reconcile", queue'[j].kind = "reconcile",
                        queue'[i].start = queue'[j].start
                 PROVE  i = j
      BY DEF ReconcileOnce
    <3>1. i + 1 = j + 1
      BY <2>1 DEF ReconcileOnce
    <3> QED BY <3>1
  <2> QED BY <2>1, <2>2
<1>5. ASSUME NEW o \in Ops, queue' = Append(queue, o), o.kind # "reconcile"
      PROVE  ReconcileOnce'
  BY <1>2, <1>5 DEF ReconcileOnce
<1> QED BY <1>1, <1>2, <1>3, <1>4, <1>5

\* Once its "reconcile" is taken, no other waits for the same start.
LEMMA ReconcileTaken ==
  ASSUME TypeOK, ReconcileOnce, queue # <<>>, queue' = Tail(queue), op.kind = "reconcile"
  PROVE  \A i \in 1..Len(queue') : queue'[i].kind = "reconcile" => queue'[i].start # op.start
<1> SUFFICES ASSUME NEW i \in 1..Len(queue'), queue'[i].kind = "reconcile", queue'[i].start = op.start
             PROVE  FALSE
  OBVIOUS
<1>1. /\ i + 1 \in 1..Len(queue) /\ queue'[i] = queue[i + 1] /\ op = queue[1]
      /\ 1 \in 1..Len(queue)
  BY Taken
<1>2. i + 1 = 1
  BY <1>1 DEF ReconcileOnce
<1> QED BY <1>2

ReconcileInv == ReconcileOnce /\ ReconcileWaits

\* Every "reconcile" in the queue stays that of one start that waits for it.
LEMMA ReconcileNext ==
  ASSUME TypeOK, ReconcileInv, [Next]_vars
  PROVE  ReconcileInv'
<1>0. ASSUME UNCHANGED starts,
             \/ UNCHANGED queue
             \/ \E o \in Ops : queue' = Append(queue, o) /\ o.kind # "reconcile"
             \/ queue # <<>> /\ queue' = Tail(queue)
             \/ queue # <<>> /\ \E o \in Ops : queue' = Append(Tail(queue), o) /\ o.kind # "reconcile"
      PROVE  ReconcileInv'
  BY <1>0, ReconcileQueue DEF ReconcileInv, ReconcileWaits
<1>1. CASE Ticks \/ SetBack \/ TimerFires \/ UNCHANGED vars
  <2>1. UNCHANGED <<queue, starts>>
    BY <1>1 DEF Ticks, SetBack, TimerFires, vars, life, store
  <2> QED BY <1>0, <2>1
<1>2. CASE Stops \/ Creates \/ Updates \/ Deletes
  <2>1. UNCHANGED starts
    BY <1>2 DEF Stops, Creates, Updates, Deletes, Edits, life
  <2>2. UNCHANGED queue \/ \E kind \in {"remove", "create", "update", "delete"} :
                             queue' = Append(queue, Op(kind))
    BY <1>2 DEF Stops, Creates, Updates, Deletes, Edits, Enqueue
  <2>3. \A kind \in {"remove", "create", "update", "delete"} :
          Op(kind) \in Ops /\ Op(kind).kind # "reconcile"
    BY OpType DEF Kinds
  <2> QED BY <1>0, <2>1, <2>2, <2>3
<1>3. ASSUME NEW f \in Fires, FireSteps(f) PROVE ReconcileInv'
  <2>1. fires[f] # NoFire /\ UNCHANGED starts
    BY <1>3 DEF FireSteps, Accepted, Refused, life
  <2> DEFINE a == [Op("fired") EXCEPT !.due = fires[f].due, !.gen = fires[f].gen]
  <2>2. UNCHANGED queue \/ queue' = Append(queue, a) \/ queue' = Append(queue, Op("missed"))
    BY <1>3 DEF FireSteps, Accepted, Refused, Enqueue
  <2>3. a \in Ops /\ a.kind = "fired" /\ Op("missed") \in Ops /\ Op("missed").kind = "missed"
    BY <2>1, OpType DEF Kinds, Ops, TypeOK, Submissions
  <2> HIDE DEF a
  <2> QED BY <1>0, <2>1, <2>2, <2>3
<1>4. CASE CreateCommits \/ UpdateCommits \/ RemovalCommits \/ FiredCommits \/ MissCommits
  <2>1. UNCHANGED starts /\ queue # <<>> /\ queue' = Tail(queue)
    BY <1>4 DEF CreateCommits, UpdateCommits, RemovalCommits, FiredCommits, MissCommits, Commits, life
  <2> QED BY <1>0, <2>1
<1>5. ASSUME NEW s \in 1..MaxStarts, StartBegins(s) \/ StartArms(s) PROVE ReconcileInv'
  <2>1. UNCHANGED queue /\ starts[s] # "queued" /\ \E where : starts' = [starts EXCEPT ![s] = where]
    BY <1>5 DEF StartBegins, StartArms, store
  <2>2. starts \in [1..MaxStarts -> {"no", "reading", "queued", "others", "done"}]
    BY DEF TypeOK
  <2>3. \A t \in 1..MaxStarts : starts[t] = "queued" => starts'[t] = "queued"
    BY <2>1, <2>2
  <2>4. ReconcileOnce' /\ UNCHANGED queue
    BY <2>1 DEF ReconcileInv, ReconcileOnce
  <2> QED BY <2>3, <2>4 DEF ReconcileInv, ReconcileWaits
<1>6. ASSUME NEW s \in 1..MaxStarts, StartLists(s) PROVE ReconcileInv'
  <2>1. starts[s] = "reading"
    BY <1>6 DEF StartLists
  <2>2. CASE row = NoJob
    <3>1. UNCHANGED queue /\ starts' = [starts EXCEPT ![s] = "others"]
      BY <1>6, <2>2 DEF StartLists
    <3>2. starts \in [1..MaxStarts -> {"no", "reading", "queued", "others", "done"}]
      BY DEF TypeOK
    <3>3. \A t \in 1..MaxStarts : starts[t] = "queued" => starts'[t] = "queued"
      BY <2>1, <3>1, <3>2
    <3>4. ReconcileOnce'
      BY <3>1 DEF ReconcileInv, ReconcileOnce
    <3> QED BY <3>1, <3>3, <3>4 DEF ReconcileInv, ReconcileWaits
  <2>3. CASE row # NoJob
    <3> DEFINE o == [Op("reconcile") EXCEPT !.start = s]
    <3>1. queue' = Append(queue, o) /\ starts' = [starts EXCEPT ![s] = "queued"]
      BY <1>6, <2>3 DEF StartLists, Enqueue
    <3>2. o \in Ops /\ o.kind = "reconcile" /\ o.start = s
      BY OpType DEF Kinds, Ops
    <3> HIDE DEF o
    <3>3. /\ Len(queue) \in Nat /\ Len(queue') = Len(queue) + 1
          /\ \A k \in 1..Len(queue) : queue'[k] = queue[k]
          /\ queue'[Len(queue) + 1] = o
      BY <3>1, <3>2, Appended
    <3>4. \A k \in 1..Len(queue) : queue[k].kind = "reconcile" => queue[k].start # s
      BY <2>1 DEF ReconcileInv, ReconcileWaits
    <3>5. \A k \in 1..Len(queue') : k = Len(queue) + 1 \/ k \in 1..Len(queue)
      BY <3>3
    <3>6. ReconcileOnce'
      <4> SUFFICES ASSUME NEW i \in 1..Len(queue'), NEW j \in 1..Len(queue'),
                          queue'[i].kind = "reconcile", queue'[j].kind = "reconcile",
                          queue'[i].start = queue'[j].start
                   PROVE  i = j
        BY DEF ReconcileOnce
      <4>1. CASE i = Len(queue) + 1 \/ j = Len(queue) + 1
        BY <3>2, <3>3, <3>4, <3>5, <4>1
      <4>2. CASE i \in 1..Len(queue) /\ j \in 1..Len(queue)
        BY <3>3, <4>2 DEF ReconcileInv, ReconcileOnce
      <4> QED BY <3>5, <4>1, <4>2
    <3>7. ReconcileWaits'
      <4> SUFFICES ASSUME NEW i \in 1..Len(queue'), queue'[i].kind = "reconcile"
                   PROVE  queue'[i].start \in 1..MaxStarts /\ starts'[queue'[i].start] = "queued"
        BY DEF ReconcileWaits
      <4>1. starts \in [1..MaxStarts -> {"no", "reading", "queued", "others", "done"}]
        BY DEF TypeOK
      <4>2. CASE i = Len(queue) + 1
        BY <3>1, <3>2, <3>3, <4>1, <4>2
      <4>3. CASE i \in 1..Len(queue)
        BY <3>1, <3>3, <3>4, <4>1, <4>3 DEF ReconcileInv, ReconcileWaits
      <4> QED BY <3>5, <4>2, <4>3
    <3> QED BY <3>6, <3>7 DEF ReconcileInv
  <2> QED BY <2>2, <2>3
<1>7. ASSUME queue # <<>>, queue' = Tail(queue), op.kind = "reconcile",
             \E where : starts' = [starts EXCEPT ![op.start] = where]
      PROVE  ReconcileInv'
  <2>1. ReconcileOnce' /\ \A i \in 1..Len(queue') : queue'[i].kind = "reconcile" =>
           \E k \in 1..Len(queue) : queue[k] = queue'[i]
    BY <1>7, ReconcileQueue DEF ReconcileInv
  <2>2. \A i \in 1..Len(queue') : queue'[i].kind = "reconcile" => queue'[i].start # op.start
    BY <1>7, ReconcileTaken DEF ReconcileInv
  <2>3. starts \in [1..MaxStarts -> {"no", "reading", "queued", "others", "done"}]
    BY DEF TypeOK
  <2> QED BY <1>7, <2>1, <2>2, <2>3 DEF ReconcileInv, ReconcileWaits
<1>8. CASE ReconcileCommits
  BY <1>7, <1>8 DEF ReconcileCommits, Commits
<1>9. CASE WriteFails
  <2>1. CASE op.kind = "reconcile"
    BY <1>7, <1>9, <2>1 DEF WriteFails
  <2>2. CASE op.kind # "reconcile"
    <3>1. UNCHANGED starts /\ queue # <<>>
          /\ (queue' = Tail(queue) \/ queue' = Append(Tail(queue), Op("missed")))
      BY <1>9, <2>2 DEF WriteFails
    <3>2. Op("missed") \in Ops /\ Op("missed").kind = "missed"
      BY OpType DEF Kinds
    <3> QED BY <1>0, <3>1, <3>2
  <2> QED BY <2>1, <2>2
<1> QED BY <1>1, <1>2, <1>3, <1>4, <1>5, <1>6, <1>8, <1>9 DEF Next, StoreSteps

----------------------------------------
(* A scheduler that does not run                                           *)

\* It holds no timer; before it runs nothing is submitted, and a start is under way only then.
TimerInv == ~running => timer = Never
Unused == ~running /\ ~fence => spent = {} /\ \A f \in Fires : fires[f] = NoFire
Unarmed == ~fence => \A s \in 1..MaxStarts : UnderWay(s) => ~running
IdleInv == Unused /\ Unarmed /\ (Waits("missed") => refused \/ failures # 0)

\* How a commit moves the timer: as it was, or to what the new row earns.
LEMMA CommitTimer ==
  ASSUME TypeOK, StoreSteps \/ WriteFails
  PROVE  /\ UNCHANGED <<fence, running, generation, fires, spent, accepted, refused, now>>
         /\ timer' = timer \/ timer' = Armed(row', running)
<1>1. CASE CreateCommits
  BY <1>1, CreateMoves DEF CreateCommits, life, past, clock
<1>2. CASE UpdateCommits
  BY <1>2, UpdateMoves DEF UpdateCommits, life, past, clock
<1>3. CASE RemovalCommits
  BY <1>3 DEF RemovalCommits, life, past, clock
<1>4. CASE FiredCommits
  BY <1>4, FiredMoves DEF FiredCommits, life, past, clock
<1>5. CASE MissCommits
  BY <1>5, MissMoves DEF MissCommits, life, past, clock
<1>6. CASE ReconcileCommits
  BY <1>6 DEF ReconcileCommits, past, clock
<1>7. CASE WriteFails
  BY <1>7 DEF WriteFails, past, clock
<1> QED BY <1>1, <1>2, <1>3, <1>4, <1>5, <1>6, <1>7 DEF StoreSteps

\* No step arms a scheduler that does not run.
LEMMA TimerNext ==
  ASSUME TypeOK, TimerInv, [Next]_vars
  PROVE  TimerInv'
<1>1. CASE Ticks \/ SetBack \/ UNCHANGED vars
  BY <1>1 DEF Ticks, SetBack, vars, life, TimerInv
<1>2. CASE Stops \/ Deletes \/ TimerFires
  BY <1>2 DEF Stops, Deletes, TimerFires, TimerInv
<1>3. CASE Creates \/ Updates
  BY <1>3 DEF Creates, Updates, Edits, life, TimerInv
<1>4. ASSUME NEW s \in 1..MaxStarts, StartBegins(s) \/ StartLists(s) \/ StartArms(s) PROVE TimerInv'
  BY <1>4 DEF StartBegins, StartLists, StartArms, TimerInv
<1>5. ASSUME NEW f \in Fires, FireSteps(f) PROVE TimerInv'
  BY <1>5 DEF FireSteps, Accepted, Refused, life, TimerInv
<1>6. CASE StoreSteps \/ WriteFails
  BY <1>6, CommitTimer DEF TimerInv, Armed
<1> QED BY <1>1, <1>2, <1>3, <1>4, <1>5, <1>6 DEF Next

\* A miss is queued only for a refusal or a failed write.
LEMMA MissNext ==
  ASSUME TypeOK, IdleInv, [Next]_vars
  PROVE  Waits("missed")' => refused' \/ failures' # 0
<1>0. failures \in Nat
  BY Bounds DEF TypeOK
<1>1. CASE Ticks \/ SetBack \/ TimerFires \/ UNCHANGED vars
  BY <1>1 DEF Ticks, SetBack, TimerFires, vars, store, past, IdleInv, Waits
<1>2. CASE Stops \/ Creates \/ Updates \/ Deletes
  <2>1. UNCHANGED <<refused, failures>>
    BY <1>2 DEF Stops, Creates, Updates, Deletes, Edits, past
  <2>2. UNCHANGED queue \/ \E kind \in {"remove", "create", "update", "delete"} :
                             queue' = Append(queue, Op(kind))
    BY <1>2 DEF Stops, Creates, Updates, Deletes, Edits, Enqueue
  <2>3. \A kind \in {"remove", "create", "update", "delete"} :
          Op(kind) \in Ops /\ Op(kind).kind # "missed"
    BY OpType DEF Kinds
  <2>4. Waits("missed")' => Waits("missed")
    <3>1. CASE UNCHANGED queue
      BY <3>1 DEF Waits
    <3>2. CASE ~UNCHANGED queue
      BY <2>2, <2>3, <3>2, Appended
    <3> QED BY <3>1, <3>2
  <2> QED BY <2>1, <2>4 DEF IdleInv
<1>3. ASSUME NEW s \in 1..MaxStarts, StartBegins(s) \/ StartLists(s) \/ StartArms(s)
      PROVE  Waits("missed")' => refused' \/ failures' # 0
  <2>1. UNCHANGED <<refused, failures>>
    BY <1>3 DEF StartBegins, StartLists, StartArms, store, past
  <2> DEFINE o == [Op("reconcile") EXCEPT !.start = s]
  <2>2. UNCHANGED queue \/ queue' = Append(queue, o)
    BY <1>3 DEF StartBegins, StartLists, StartArms, store, Enqueue
  <2>3. o \in Ops /\ o.kind = "reconcile"
    BY OpType DEF Kinds, Ops
  <2> HIDE DEF o
  <2>4. Waits("missed")' => Waits("missed")
    <3>1. CASE UNCHANGED queue
      BY <3>1 DEF Waits
    <3>2. CASE ~UNCHANGED queue
      BY <2>2, <2>3, <3>2, Appended
    <3> QED BY <3>1, <3>2
  <2> QED BY <2>1, <2>4 DEF IdleInv
<1>4. ASSUME NEW f \in Fires, Accepted(f) PROVE Waits("missed")' => refused' \/ failures' # 0
  <2> DEFINE a == [Op("fired") EXCEPT !.due = fires[f].due, !.gen = fires[f].gen]
  <2>1. queue' = Append(queue, a) /\ UNCHANGED <<refused, failures>>
    BY <1>4 DEF Accepted, Recorded, Enqueue
  <2>2. a \in Ops /\ a.kind = "fired"
    <3>1. fires[f] \in Submissions
      BY <1>4 DEF Accepted, TypeOK
    <3> QED BY <3>1, OpType DEF Kinds, Ops, Submissions
  <2> HIDE DEF a
  <2>3. Waits("missed")' => Waits("missed")
    BY <2>1, <2>2, Appended
  <2> QED BY <2>1, <2>3 DEF IdleInv
<1>5. ASSUME NEW f \in Fires, Refused(f) PROVE refused'
  BY <1>5 DEF Refused
<1>6. CASE StoreSteps
  <2>1. queue # <<>> /\ queue' = Tail(queue) /\ UNCHANGED failures
    BY <1>6 DEF StoreSteps, CreateCommits, UpdateCommits, RemovalCommits, FiredCommits,
                MissCommits, ReconcileCommits, Commits
  <2>2. UNCHANGED refused
    BY <1>6, CommitTimer
  <2>3. Waits("missed")' => Waits("missed")
    BY <2>1, Taken
  <2> QED BY <2>1, <2>2, <2>3 DEF IdleInv
<1>7. CASE WriteFails
  BY <1>0, <1>7 DEF WriteFails
<1> QED BY <1>1, <1>2, <1>3, <1>4, <1>5, <1>6, <1>7 DEF Next, FireSteps

\* Nothing fires, and nothing is submitted, before a start is over.
LEMMA IdleNext ==
  ASSUME TypeOK, TimerInv, ReconcileInv, IdleInv, StartsInTurn, [Next]_vars
  PROVE  IdleInv'
<1> SUFFICES Unused' /\ Unarmed'
  BY MissNext DEF IdleInv
<1>a. Unused /\ Unarmed
  BY DEF IdleInv
<1>b. starts \in [1..MaxStarts -> {"no", "reading", "queued", "others", "done"}]
  BY DEF TypeOK
<1>0. ASSUME UNCHANGED <<fence, running, spent, fires, starts>> PROVE Unused' /\ Unarmed'
  BY <1>0, <1>a DEF Unused, Unarmed, UnderWay
<1>1. CASE Ticks \/ SetBack \/ UNCHANGED vars
  BY <1>0, <1>1 DEF Ticks, SetBack, vars, life, past
<1>2. CASE Creates \/ Updates \/ Deletes
  BY <1>0, <1>2 DEF Creates, Updates, Deletes, Edits, life, past
<1>3. CASE Stops
  BY <1>3 DEF Stops, Unused, Unarmed
<1>4. ASSUME NEW s \in 1..MaxStarts, StartBegins(s) \/ StartLists(s) PROVE Unused' /\ Unarmed'
  <2>1. UNCHANGED <<fence, running, spent, fires>>
    BY <1>4 DEF StartBegins, StartLists, past
  <2>2. (~fence => ~running) /\ \E where : starts' = [starts EXCEPT ![s] = where]
    BY <1>4, <1>a DEF StartBegins, StartLists, UnderWay, Unarmed
  <2> QED BY <2>1, <2>2, <1>a, <1>b DEF Unused, Unarmed, UnderWay
<1>5. ASSUME NEW s \in 1..MaxStarts, StartArms(s) PROVE Unused' /\ Unarmed'
  <2>1. running' /\ starts[s] = "others" /\ starts' = [starts EXCEPT ![s] = "done"]
    BY <1>5 DEF StartArms
  <2>2. \A t \in 1..MaxStarts : ~UnderWay(t)'
    BY <2>1, <1>b DEF StartsInTurn, UnderWay
  <2> QED BY <2>1, <2>2 DEF Unused, Unarmed
<1>6. CASE TimerFires
  <2>1. UNCHANGED <<fence, running, spent, starts>> /\ running
    BY <1>6 DEF TimerFires, life, past, TimerInv
  <2> QED BY <2>1, <1>a DEF Unused, Unarmed, UnderWay
<1>7. ASSUME NEW f \in Fires, FireSteps(f) PROVE Unused' /\ Unarmed'
  <2>1. UNCHANGED <<fence, running, starts>> /\ fires[f] # NoFire
    BY <1>7 DEF FireSteps, Accepted, Refused, life
  <2> QED BY <2>1, <1>a DEF Unused, Unarmed, UnderWay
<1>8. CASE StoreSteps \/ WriteFails
  <2>1. UNCHANGED <<fence, running, spent, fires>>
    BY <1>8, CommitTimer
  <2>2. CASE UNCHANGED starts
    BY <1>0, <2>1, <2>2
  <2>3. CASE ~UNCHANGED starts
    <3>1. queue # <<>> /\ op.kind = "reconcile" /\ \E where : starts' = [starts EXCEPT ![op.start] = where]
      BY <1>8, <2>3 DEF StoreSteps, CreateCommits, UpdateCommits, RemovalCommits, FiredCommits,
                        MissCommits, ReconcileCommits, Commits, WriteFails, life
    <3>2. op = queue[1] /\ 1 \in 1..Len(queue)
      BY <3>1, HeadType
    <3>3. op.start \in 1..MaxStarts /\ UnderWay(op.start)
      BY <3>1, <3>2 DEF ReconcileInv, ReconcileWaits, UnderWay
    <3>4. ~fence => ~running
      BY <1>a, <3>3 DEF Unarmed
    <3> QED BY <2>1, <3>4, <1>a DEF Unused, Unarmed
  <2> QED BY <2>2, <2>3
<1> QED BY <1>1, <1>2, <1>3, <1>4, <1>5, <1>6, <1>7, <1>8 DEF Next

----------------------------------------
(* An occurrence is submitted once                                         *)

\* Nobody was given this occurrence, and nobody is about to be.
Unspent(occ) == occ \notin spent /\ \A f \in Fires : fires[f] # NoFire => fires[f].occ # occ

\* While nothing was refused and no write failed, an armed timer is that of an unspent occurrence.
TakenInv ==
  ~fence /\ ~refused /\ failures = 0 /\ timer # Never /\ row # NoJob /\ row.enabled
    => Unspent(row.occ)

\* A new occurrence is unspent.
LEMMA NewIsUnspent ==
  ASSUME TypeOK, UNCHANGED <<spent, fires>>, row'.occ = occurrences + 1
  PROVE  Unspent(row.occ)'
<1>1. /\ \A o \in spent : o <= occurrences
      /\ \A f \in Fires : fires[f] # NoFire => fires[f].occ <= occurrences /\ fires[f].occ \in Nat
      /\ occurrences \in Nat /\ spent \subseteq Nat
  BY DEF TypeOK, Submissions
<1> QED BY <1>1 DEF Unspent

\* No step arms a timer for an occurrence that was submitted.
LEMMA TakenNext ==
  ASSUME TypeOK, TimerInv, IdleInv, TakenInv, StartsInTurn, [Next]_vars
  PROVE  TakenInv'
<1>0. ASSUME UNCHANGED <<fence, refused, failures, row, spent, fires>>, timer' # Never => timer # Never
      PROVE  TakenInv'
  BY <1>0 DEF TakenInv, Unspent
<1>1. CASE Ticks \/ SetBack \/ UNCHANGED vars
  BY <1>0, <1>1 DEF Ticks, SetBack, vars, life, store, past
<1>2. CASE Creates \/ Updates \/ Deletes
  BY <1>0, <1>2 DEF Creates, Updates, Deletes, Edits, life, past
<1>3. CASE Stops \/ TimerFires
  BY <1>3 DEF Stops, TimerFires, TakenInv
<1>4. ASSUME NEW s \in 1..MaxStarts, StartBegins(s) \/ StartLists(s) PROVE TakenInv'
  BY <1>0, <1>4 DEF StartBegins, StartLists, store, past
<1>5. ASSUME NEW s \in 1..MaxStarts, StartArms(s) PROVE TakenInv'
  <2>1. UNCHANGED <<fence, spent, fires, row>> /\ UnderWay(s)
    BY <1>5 DEF StartArms, store, past, UnderWay
  <2>2. ~fence => spent = {} /\ \A f \in Fires : fires[f] = NoFire
    BY <2>1 DEF IdleInv, Unused, Unarmed
  <2> QED BY <2>1, <2>2 DEF TakenInv, Unspent
<1>6. ASSUME NEW f \in Fires, Accepted(f) PROVE TakenInv'
  <2>1. /\ UNCHANGED <<fence, refused, failures, row, timer>> /\ fires[f] # NoFire
        /\ fires' = [fires EXCEPT ![f] = NoFire] /\ spent' = spent \cup {fires[f].occ}
    BY <1>6 DEF Accepted, life
  <2>2. fires \in [Fires -> {NoFire} \cup Submissions]
    BY DEF TypeOK
  <2> QED BY <2>1, <2>2 DEF TakenInv, Unspent
<1>7. ASSUME NEW f \in Fires, Refused(f) PROVE TakenInv'
  BY <1>7 DEF Refused, TakenInv
<1>8. CASE WriteFails
  <2>1. failures' # 0
    BY <1>8, Bounds DEF WriteFails, TypeOK
  <2> QED BY <2>1 DEF TakenInv
<1>9. ASSUME StoreSteps,
             UNCHANGED <<row, timer>> \/ row' = NoJob \/ row'.occ = occurrences + 1 \/ timer' = Never
      PROVE  TakenInv'
  <2>1. UNCHANGED <<fence, refused, spent, fires>>
    BY <1>9, CommitTimer
  <2>2. UNCHANGED failures
    BY <1>9 DEF StoreSteps, CreateCommits, UpdateCommits, RemovalCommits, FiredCommits,
                MissCommits, ReconcileCommits, Commits
  <2>3. CASE UNCHANGED <<row, timer>>
    BY <1>0, <2>1, <2>2, <2>3
  <2>4. CASE row' = NoJob \/ timer' = Never
    BY <2>4 DEF TakenInv
  <2>5. CASE row'.occ = occurrences + 1
    BY <2>1, <2>5, NewIsUnspent DEF TakenInv
  <2> QED BY <1>9, <2>3, <2>4, <2>5
<1>10. CASE CreateCommits
  <2>1. row'.occ = occurrences + 1
    BY <1>10, CreateMoves
  <2> QED BY <1>9, <1>10, <2>1 DEF StoreSteps
<1>11. CASE UpdateCommits
  <2>1. row = NoJob => UNCHANGED <<row, timer>>
    BY <1>11 DEF UpdateCommits
  <2>2. row # NoJob => row'.occ = occurrences + 1
    BY <1>11, UpdateMoves
  <2> QED BY <1>9, <1>11, <2>1, <2>2 DEF StoreSteps
<1>12. CASE RemovalCommits
  BY <1>9, <1>12 DEF StoreSteps, RemovalCommits
<1>13. CASE FiredCommits
  <2>1. row = NoJob => UNCHANGED <<row, timer>>
    BY <1>13 DEF FiredCommits
  <2>2. CASE row # NoJob /\ row'.occ = occurrences + 1
    BY <1>9, <1>13, <2>2 DEF StoreSteps
  <2>3. CASE row # NoJob /\ row'.occ # occurrences + 1
    <3>1. row'.enabled = row.enabled /\ row'.occ = row.occ /\ UNCHANGED timer
      BY <1>13, <2>3, FiredMoves
    <3>2. UNCHANGED <<fence, refused, spent, fires>>
      BY <1>13, CommitTimer DEF StoreSteps
    <3>3. UNCHANGED failures
      BY <1>13 DEF FiredCommits, Commits
    <3> QED BY <2>3, <3>1, <3>2, <3>3 DEF TakenInv, Unspent
  <2> QED BY <1>9, <1>13, <2>1, <2>2, <2>3 DEF StoreSteps
<1>14. CASE MissCommits
  <2>1. Waits("missed") /\ UNCHANGED failures
    BY <1>14, Taken DEF MissCommits, Commits
  <2>2. UNCHANGED refused
    BY <1>14, CommitTimer DEF StoreSteps
  <2> QED BY <2>1, <2>2 DEF IdleInv, TakenInv
<1>15. CASE ReconcileCommits
  <2>1. UNCHANGED timer /\ Moved
    BY <1>15, ReconcileMoves DEF ReconcileCommits
  <2> QED BY <1>9, <1>15, <2>1 DEF StoreSteps, Moved
<1> QED BY <1>1, <1>2, <1>3, <1>4, <1>5, <1>6, <1>7, <1>8, <1>10, <1>11, <1>12, <1>13, <1>14, <1>15
    DEF Next, StoreSteps, FireSteps

\* Only a timer begins a submission, of the occurrence it was armed for.
LEMMA OnlyTimersSubmit ==
  ASSUME TypeOK, TakenInv, [Next]_vars, NEW f \in Fires, fires[f] = NoFire, fires'[f] # NoFire,
         ~refused, failures = 0
  PROVE  fires'[f].occ \notin spent /\ \A g \in Fires : fires[g] # NoFire => fires[g].occ # fires'[f].occ
<1>1. fires \in [Fires -> {NoFire} \cup Submissions]
  BY DEF TypeOK
<1>2. CASE TimerFires
  <2>1. /\ ~fence /\ row # NoJob /\ row.enabled /\ timer # Never
        /\ \E g \in Fires : fires' = [fires EXCEPT
               ![g] = [due |-> row.due, occ |-> row.occ, gen |-> generation]]
    BY <1>2 DEF TimerFires
  <2>2. fires'[f].occ = row.occ
    BY <1>1, <2>1
  <2>3. Unspent(row.occ)
    BY <2>1 DEF TakenInv
  <2> QED BY <2>2, <2>3 DEF Unspent
<1>3. ASSUME NEW g \in Fires, FireSteps(g) PROVE FALSE
  <2>1. fires' = [fires EXCEPT ![g] = NoFire]
    BY <1>3 DEF FireSteps, Accepted, Refused
  <2> QED BY <1>1, <2>1
<1>4. CASE StoreSteps \/ WriteFails
  BY <1>4, CommitTimer
<1>5. ASSUME NEW s \in 1..MaxStarts, StartBegins(s) \/ StartLists(s) \/ StartArms(s) PROVE FALSE
  BY <1>5 DEF StartBegins, StartLists, StartArms
<1>6. CASE Ticks \/ SetBack \/ Stops \/ Creates \/ Updates \/ Deletes \/ UNCHANGED vars
  BY <1>6 DEF Ticks, SetBack, Stops, Creates, Updates, Deletes, Edits, vars
<1> QED BY <1>2, <1>3, <1>4, <1>5, <1>6 DEF Next

\* At first nothing is armed, submitted or waited for.
LEMMA OnceInit == Init => TypeOK /\ TimerInv /\ ReconcileInv /\ IdleInv /\ TakenInv
<1> SUFFICES ASSUME Init PROVE TypeOK /\ TimerInv /\ ReconcileInv /\ IdleInv /\ TakenInv
  OBVIOUS
<1>1. Len(queue) = 0 /\ 1..Len(queue) = {}
  BY DEF Init
<1>2. /\ timer = Never /\ spent = {}
      /\ \A f \in Fires : fires[f] = NoFire
      /\ \A s \in 1..MaxStarts : starts[s] = "no"
  BY DEF Init
<1> QED BY <1>1, <1>2, TypeInit DEF TimerInv, ReconcileInv, ReconcileOnce, ReconcileWaits,
           IdleInv, Unused, Unarmed, UnderWay, Waits, TakenInv

OnceInv == TypeOK /\ TimerInv /\ ReconcileInv /\ IdleInv /\ TakenInv

\* While nothing is refused and no write fails, no occurrence is submitted again once it was
\* accepted or while it is under way, whatever edits, stops and clock moves come in between,
\* as long as starts do not overlap (rearm, index.ts:397-424).
THEOREM OccurrencesAreSubmittedOnce == Spec /\ []StartsInTurn => SubmittedOnceIfTaken
<1>1. Init => OnceInv
  BY OnceInit DEF OnceInv
<1>2. OnceInv /\ StartsInTurn /\ [Next]_vars => OnceInv'
  BY TypeNext, TimerNext, ReconcileNext, IdleNext, TakenNext DEF OnceInv
<1>3. OnceInv /\ [Next]_vars =>
        [\A f \in Fires :
           fires[f] = NoFire /\ fires'[f] # NoFire /\ ~refused /\ failures = 0 =>
             /\ fires'[f].occ \notin spent
             /\ \A g \in Fires : fires[g] # NoFire => fires[g].occ # fires'[f].occ]_vars
  BY OnlyTimersSubmit DEF OnceInv
<1> QED BY <1>1, <1>2, <1>3, PTL DEF Spec, SubmittedOnceIfTaken

----------------------------------------
(* A scheduler at rest is armed for what the row says                      *)

\* A "fired" of this due instant waits in the queue; one of it is being submitted.
FiredWaits(due) == \E i \in 1..Len(queue) : queue[i].kind = "fired" /\ queue[i].due = due
Submitting(due) == \E f \in Fires : fires[f] # NoFire /\ fires[f].due = due

\* Until the owner closes, all is of the first generation.
GenInv ==
  ~fence =>
    /\ generation = 0
    /\ \A f \in Fires : fires[f] # NoFire => fires[f].gen = 0
    /\ \A i \in 1..Len(queue) : queue[i].gen = 0

\* Where a start stands: nothing but its own "reconcile" waits in the store's queue, and what
\* it lists is what the row holds.
StartStands(s) ==
  /\ starts[s] \in {"no", "reading"} => listed[s] = NoJob
  /\ starts[s] = "reading" => queue = <<>>
  /\ starts[s] = "queued" => Len(queue) = 1 /\ queue[1].kind = "reconcile" /\ queue[1].start = s
  /\ starts[s] = "others" => queue = <<>> /\ listed[s] = row

StartInv == ~fence => \A s \in 1..MaxStarts : StartStands(s)

\* What is left to set the timer, but for what the timer itself says.
Pending ==
  \/ row.enabled /\ (Submitting(row.due) \/ FiredWaits(row.due))
  \/ Waits("missed") \/ Waits("delete")

\* A timer is never a wrong one; a job without the timer it earns has something under way that
\* will set it, or a write that was to set it has failed.
ArmedInv ==
  running /\ ~fence /\ row # NoJob =>
    /\ timer \in {Armed(row, TRUE), Never}
    /\ timer = Armed(row, TRUE) \/ Pending \/ lost

\* What appending or taking a write does to the "fired" that wait.
LEMMA FiredAppended ==
  ASSUME TypeOK, NEW o \in Ops, queue' = Append(queue, o), NEW due,
         FiredWaits(due) \/ (o.kind = "fired" /\ o.due = due)
  PROVE  FiredWaits(due)'
<1>1. /\ Len(queue) \in Nat /\ Len(queue') = Len(queue) + 1
      /\ \A i \in 1..Len(queue) : queue'[i] = queue[i]
      /\ queue'[Len(queue) + 1] = o
  BY Appended
<1>2. Len(queue) + 1 \in 1..Len(queue')
  BY <1>1
<1>3. CASE FiredWaits(due)
  <2>1. PICK i \in 1..Len(queue) : queue[i].kind = "fired" /\ queue[i].due = due
    BY <1>3 DEF FiredWaits
  <2>2. i \in 1..Len(queue') /\ queue'[i] = queue[i]
    BY <1>1, <2>1
  <2> QED BY <2>1, <2>2 DEF FiredWaits
<1>4. CASE o.kind = "fired" /\ o.due = due
  BY <1>1, <1>2, <1>4 DEF FiredWaits
<1> QED BY <1>3, <1>4

\* The first write taken leaves every "fired" of another due instant.
LEMMA FiredTaken ==
  ASSUME TypeOK, queue # <<>>, queue' = Tail(queue), NEW due, FiredWaits(due),
         ~(op.kind = "fired" /\ op.due = due)
  PROVE  FiredWaits(due)'
<1>1. /\ Len(queue) \in Nat \ {0} /\ Len(queue') = Len(queue) - 1
      /\ \A i \in 1..Len(queue') : i + 1 \in 1..Len(queue) /\ queue'[i] = queue[i + 1]
      /\ op = queue[1]
  BY Taken
<1>2. PICK i \in 1..Len(queue) : queue[i].kind = "fired" /\ queue[i].due = due
  BY DEF FiredWaits
<1>3. i # 1
  BY <1>1, <1>2
<1>4. i - 1 \in 1..Len(queue') /\ (i - 1) + 1 = i
  BY <1>1, <1>3
<1>5. queue'[i - 1] = queue[i]
  BY <1>1, <1>4
<1> QED BY <1>2, <1>4, <1>5 DEF FiredWaits

\* Nothing reopens an owner; its generation grows only as it closes.
LEMMA Closes ==
  ASSUME TypeOK, [Next]_vars, ~fence'
  PROVE  ~fence /\ UNCHANGED generation
<1>1. ~Stops
  BY DEF Stops
<1>2. CASE Ticks \/ SetBack \/ TimerFires \/ UNCHANGED vars
  BY <1>2 DEF Ticks, SetBack, TimerFires, vars, life
<1>3. CASE Creates \/ Updates \/ Deletes
  BY <1>3 DEF Creates, Updates, Deletes, Edits, life
<1>4. ASSUME NEW s \in 1..MaxStarts, StartBegins(s) \/ StartLists(s) \/ StartArms(s)
      PROVE  UNCHANGED <<fence, generation>>
  BY <1>4 DEF StartBegins, StartLists, StartArms
<1>5. ASSUME NEW f \in Fires, FireSteps(f) PROVE UNCHANGED <<fence, generation>>
  BY <1>5 DEF FireSteps, Accepted, Refused, life
<1>6. CASE StoreSteps \/ WriteFails
  BY <1>6, CommitTimer
<1> QED BY <1>1, <1>2, <1>3, <1>4, <1>5, <1>6 DEF Next

\* How a step of an owner that stays open changes the queue: a write is appended, one is taken,
\* or a failed "fired" is taken again as a miss.
LEMMA QueueMoves ==
  ASSUME TypeOK, [Next]_vars, ~fence'
  PROVE  \/ UNCHANGED queue
         \/ \E o \in Ops : /\ queue' = Append(queue, o)
                           /\ o.gen = generation \/ \E f \in Fires : fires[f] # NoFire /\ o.gen = fires[f].gen
         \/ queue # <<>> /\ queue' = Tail(queue)
         \/ queue # <<>> /\ op.kind = "fired" /\ queue' = Append(Tail(queue), Op("missed"))
<1>1. ~Stops
  BY DEF Stops
<1>2. CASE Ticks \/ SetBack \/ TimerFires \/ UNCHANGED vars
  BY <1>2 DEF Ticks, SetBack, TimerFires, vars, store
<1>3. CASE Creates \/ Updates \/ Deletes
  <2>1. \E kind \in {"create", "update", "delete"} : queue' = Append(queue, Op(kind))
    BY <1>3 DEF Creates, Updates, Deletes, Edits, Enqueue
  <2>2. \A kind \in {"create", "update", "delete"} : Op(kind) \in Ops /\ Op(kind).gen = generation
    BY OpType DEF Kinds
  <2> QED BY <2>1, <2>2
<1>4. ASSUME NEW s \in 1..MaxStarts, StartBegins(s) \/ StartLists(s) \/ StartArms(s)
      PROVE  UNCHANGED queue \/ \E o \in Ops : queue' = Append(queue, o) /\ o.gen = generation
  <2> DEFINE o == [Op("reconcile") EXCEPT !.start = s]
  <2>1. UNCHANGED queue \/ queue' = Append(queue, o)
    BY <1>4 DEF StartBegins, StartLists, StartArms, store, Enqueue
  <2>2. o \in Ops /\ o.gen = generation
    BY OpType DEF Kinds, Ops
  <2> HIDE DEF o
  <2> QED BY <2>1, <2>2
<1>5. ASSUME NEW f \in Fires, Accepted(f)
      PROVE  \E o \in Ops : queue' = Append(queue, o) /\ fires[f] # NoFire /\ o.gen = fires[f].gen
  <2> DEFINE a == [Op("fired") EXCEPT !.due = fires[f].due, !.gen = fires[f].gen]
  <2>1. queue' = Append(queue, a) /\ fires[f] # NoFire
    BY <1>5 DEF Accepted, Recorded, Enqueue
  <2>2. fires[f] \in Submissions
    BY <1>5 DEF Accepted, TypeOK
  <2>3. a \in Ops /\ a.gen = fires[f].gen
    BY <2>2, OpType DEF Kinds, Ops, Submissions
  <2> HIDE DEF a
  <2> QED BY <2>1, <2>3
<1>6. ASSUME NEW f \in Fires, Refused(f)
      PROVE  UNCHANGED queue \/ \E o \in Ops : queue' = Append(queue, o) /\ o.gen = generation
  <2>1. UNCHANGED queue \/ queue' = Append(queue, Op("missed"))
    BY <1>6 DEF Refused, Enqueue
  <2>2. Op("missed") \in Ops /\ Op("missed").gen = generation
    BY OpType DEF Kinds
  <2> QED BY <2>1, <2>2
<1>7. CASE StoreSteps
  BY <1>7 DEF StoreSteps, CreateCommits, UpdateCommits, RemovalCommits, FiredCommits,
              MissCommits, ReconcileCommits, Commits
<1>8. CASE WriteFails
  BY <1>8 DEF WriteFails
<1> QED BY <1>1, <1>2, <1>3, <1>4, <1>5, <1>6, <1>7, <1>8 DEF Next, FireSteps

\* Writes and submissions stay of the generation that runs.
LEMMA GenNext ==
  ASSUME TypeOK, GenInv, [Next]_vars
  PROVE  GenInv'
<1> SUFFICES ASSUME ~fence' PROVE GenInv'
  BY DEF GenInv
<1>1. ~fence /\ generation = 0 /\ generation' = 0
  BY Closes DEF GenInv
<1>2. /\ \A f \in Fires : fires[f] # NoFire => fires[f].gen = 0
      /\ \A i \in 1..Len(queue) : queue[i].gen = 0
  BY <1>1 DEF GenInv
<1>3. \A i \in 1..Len(queue') : queue'[i].gen = 0
  <2>1. CASE UNCHANGED queue
    BY <1>2, <2>1
  <2>2. ASSUME NEW o \in Ops, queue' = Append(queue, o), o.gen = 0
        PROVE  \A i \in 1..Len(queue') : queue'[i].gen = 0
    <3>1. /\ Len(queue) \in Nat /\ Len(queue') = Len(queue) + 1
          /\ \A i \in 1..Len(queue) : queue'[i] = queue[i]
          /\ queue'[Len(queue) + 1] = o
      BY <2>2, Appended
    <3> QED BY <1>2, <2>2, <3>1
  <2>3. CASE queue # <<>> /\ queue' = Tail(queue)
    <3>1. \A i \in 1..Len(queue') : i + 1 \in 1..Len(queue) /\ queue'[i] = queue[i + 1]
      BY <2>3, Taken
    <3> QED BY <1>2, <3>1
  <2>4. CASE queue # <<>> /\ queue' = Append(Tail(queue), Op("missed"))
    <3>1. Op("missed") \in Ops /\ Op("missed").gen = 0
      BY <1>1, OpType DEF Kinds
    <3>2. /\ Len(queue) \in Nat \ {0} /\ Len(queue') = Len(queue)
          /\ \A i \in 1..Len(queue) - 1 : i + 1 \in 1..Len(queue) /\ queue'[i] = queue[i + 1]
          /\ queue'[Len(queue)] = Op("missed")
      BY <2>4, <3>1, TookAndAppended
    <3> SUFFICES ASSUME NEW i \in 1..Len(queue') PROVE queue'[i].gen = 0
      OBVIOUS
    <3>3. CASE i = Len(queue)
      BY <3>1, <3>2, <3>3
    <3>4. CASE i # Len(queue)
      <4>1. Len(queue) \in Nat /\ i \in 1..Len(queue)
        BY <3>2
      <4>2. i \in 1..Len(queue) - 1
        BY <3>4, <4>1, BelowLast
      <4> QED BY <1>2, <3>2, <4>2
    <3> QED BY <3>3, <3>4
  <2> QED BY <1>1, <1>2, <2>1, <2>2, <2>3, <2>4, QueueMoves
<1>4. \A f \in Fires : fires'[f] # NoFire => fires'[f].gen = 0
  <2>1. fires \in [Fires -> {NoFire} \cup Submissions]
    BY DEF TypeOK
  <2>2. CASE TimerFires
    <3>1. UNCHANGED fires \/ \E f \in Fires :
            fires' = [fires EXCEPT ![f] = [due |-> row.due, occ |-> row.occ, gen |-> generation]]
      BY <2>2 DEF TimerFires
    <3> QED BY <1>1, <1>2, <2>1, <3>1
  <2>3. ASSUME NEW f \in Fires, FireSteps(f) PROVE \A g \in Fires : fires'[g] # NoFire => fires'[g].gen = 0
    <3>1. fires' = [fires EXCEPT ![f] = NoFire]
      BY <2>3 DEF FireSteps, Accepted, Refused
    <3> QED BY <1>2, <2>1, <3>1
  <2>4. CASE StoreSteps \/ WriteFails
    BY <1>2, <2>4, CommitTimer
  <2>5. ASSUME NEW s \in 1..MaxStarts, StartBegins(s) \/ StartLists(s) \/ StartArms(s)
        PROVE  UNCHANGED fires
    BY <2>5 DEF StartBegins, StartLists, StartArms
  <2>6. CASE Ticks \/ SetBack \/ Stops \/ Creates \/ Updates \/ Deletes \/ UNCHANGED vars
    BY <1>2, <2>6 DEF Ticks, SetBack, Stops, Creates, Updates, Deletes, Edits, vars
  <2> QED BY <1>2, <2>2, <2>3, <2>4, <2>5, <2>6 DEF Next
<1> QED BY <1>1, <1>3, <1>4 DEF GenInv


\* While a start is under way before the owner closes, the owner edits nothing, nothing fires,
\* and the store has only the start's own write to commit.
LEMMA StartNext ==
  ASSUME TypeOK, ~EditsWhileStarting, ReconcileInv, IdleInv, StartInv, StartsInTurn, StartsInTurn',
         [Next]_vars
  PROVE  StartInv'
<1> SUFFICES ASSUME ~fence' PROVE \A s \in 1..MaxStarts : StartStands(s)'
  BY DEF StartInv
<1>a. ~fence /\ \A s \in 1..MaxStarts : StartStands(s)
  BY Closes DEF StartInv
<1>b. starts \in [1..MaxStarts -> {"no", "reading", "queued", "others", "done"}]
      /\ listed \in [1..MaxStarts -> {NoJob} \cup Jobs]
  BY DEF TypeOK
<1>c. \A s \in 1..MaxStarts : UnderWay(s) => ~running /\ \A f \in Fires : fires[f] = NoFire
  BY <1>a DEF IdleInv, Unused, Unarmed
<1>0. ASSUME UNCHANGED <<starts, listed>>, \A s \in 1..MaxStarts : ~UnderWay(s)
      PROVE  \A s \in 1..MaxStarts : StartStands(s)'
  BY <1>0, <1>a, <1>b DEF StartStands, UnderWay
<1>1. CASE Ticks \/ SetBack \/ TimerFires \/ UNCHANGED vars
  <2>1. UNCHANGED <<starts, listed, queue, row>>
    BY <1>1 DEF Ticks, SetBack, TimerFires, vars, life, store
  <2> QED BY <2>1, <1>a DEF StartStands
<1>2. CASE Stops
  BY <1>2 DEF Stops
<1>3. CASE Creates \/ Updates \/ Deletes
  <2>1. UNCHANGED <<starts, listed>> /\ ~Starting
    BY <1>3 DEF Creates, Updates, Deletes, Edits, life
  <2>2. \A s \in 1..MaxStarts : ~UnderWay(s)
    BY <2>1 DEF Starting, UnderWay
  <2> QED BY <1>0, <2>1, <2>2
<1>4. ASSUME NEW f \in Fires, FireSteps(f) PROVE \A s \in 1..MaxStarts : StartStands(s)'
  <2>1. UNCHANGED <<starts, listed>> /\ fires[f] # NoFire
    BY <1>4 DEF FireSteps, Accepted, Refused, life
  <2> QED BY <1>0, <1>c, <2>1
<1>5. ASSUME NEW s \in 1..MaxStarts, StartBegins(s) PROVE \A t \in 1..MaxStarts : StartStands(t)'
  <2>1. /\ starts[s] = "no" /\ queue = <<>> /\ starts' = [starts EXCEPT ![s] = "reading"]
        /\ UNCHANGED <<listed, queue, row>>
    BY <1>5 DEF StartBegins, store
  <2>2. StartStands(s)'
    BY <2>1, <1>a, <1>b DEF StartStands
  <2>3. ASSUME NEW t \in 1..MaxStarts, t # s PROVE StartStands(t)'
    BY <2>1, <2>3, <1>a, <1>b DEF StartStands
  <2> QED BY <2>2, <2>3
<1>6. ASSUME NEW s \in 1..MaxStarts, StartLists(s) PROVE \A t \in 1..MaxStarts : StartStands(t)'
  <2>1. /\ starts[s] = "reading" /\ queue = <<>> /\ listed[s] = NoJob
        /\ UNCHANGED <<listed, row>>
    BY <1>6, <1>a DEF StartLists, StartStands
  <2>2. \E where : starts' = [starts EXCEPT ![s] = where]
    BY <1>6 DEF StartLists
  <2>3. ASSUME NEW t \in 1..MaxStarts, t # s PROVE StartStands(t)'
    <3>1. ~UnderWay(t) /\ starts'[t] = starts[t] /\ listed'[t] = listed[t]
      BY <2>1, <2>2, <2>3, <1>b DEF StartsInTurn, UnderWay
    <3> QED BY <3>1, <1>a, <1>b DEF StartStands, UnderWay
  <2>4. StartStands(s)'
    <3>1. CASE row = NoJob
      <4>1. starts'[s] = "others" /\ UNCHANGED queue
        BY <1>6, <3>1, <1>b DEF StartLists
      <4> QED BY <2>1, <3>1, <4>1 DEF StartStands
    <3>2. CASE row # NoJob
      <4> DEFINE o == [Op("reconcile") EXCEPT !.start = s]
      <4>1. starts'[s] = "queued" /\ queue' = Append(queue, o)
        BY <1>6, <3>2, <1>b DEF StartLists, Enqueue
      <4>2. o \in Ops /\ o.kind = "reconcile" /\ o.start = s
        BY OpType DEF Kinds, Ops
      <4> HIDE DEF o
      <4>3. Len(queue') = 1 /\ queue'[1] = o
        BY <2>1, <4>1
      <4> QED BY <4>1, <4>2, <4>3 DEF StartStands
    <3> QED BY <3>1, <3>2
  <2> QED BY <2>3, <2>4
<1>7. ASSUME NEW s \in 1..MaxStarts, StartArms(s) PROVE \A t \in 1..MaxStarts : StartStands(t)'
  <2>1. starts' = [starts EXCEPT ![s] = "done"] /\ UNCHANGED <<listed, queue, row>>
    BY <1>7 DEF StartArms, store
  <2>2. StartStands(s)'
    BY <2>1, <1>b DEF StartStands
  <2>3. ASSUME NEW t \in 1..MaxStarts, t # s PROVE StartStands(t)'
    BY <2>1, <2>3, <1>a, <1>b DEF StartStands
  <2> QED BY <2>2, <2>3
<1>8. ASSUME queue # <<>>, op.kind # "reconcile", UNCHANGED <<starts, listed>>
      PROVE  \A s \in 1..MaxStarts : StartStands(s)'
  <2>1. \A s \in 1..MaxStarts : ~UnderWay(s)
    BY <1>8, <1>a, HeadType DEF StartStands, UnderWay
  <2> QED BY <1>0, <1>8, <2>1
<1>9. CASE CreateCommits \/ UpdateCommits \/ RemovalCommits \/ FiredCommits \/ MissCommits
  <2>1. queue # <<>> /\ op.kind # "reconcile" /\ UNCHANGED <<starts, listed>>
    BY <1>9 DEF CreateCommits, UpdateCommits, RemovalCommits, FiredCommits, MissCommits, Commits, life
  <2> QED BY <1>8, <2>1
<1>10. ASSUME queue # <<>>, op.kind = "reconcile"
       PROVE  op.start \in 1..MaxStarts /\ starts[op.start] = "queued" /\ Tail(queue) = <<>>
              /\ \A t \in 1..MaxStarts : t # op.start => ~UnderWay(t)
  <2>1. op = queue[1] /\ 1 \in 1..Len(queue)
    BY <1>10, HeadType
  <2>2. op.start \in 1..MaxStarts /\ starts[op.start] = "queued"
    BY <1>10, <2>1 DEF ReconcileInv, ReconcileWaits
  <2>3. Len(queue) = 1 /\ queue \in Seq(Ops)
    BY <2>2, <1>a DEF StartStands, TypeOK
  <2>4. Tail(queue) = <<>>
    <3>1. Tail(queue) \in Seq(Ops) /\ Len(Tail(queue)) = 0
      BY <2>3
    <3> QED BY <3>1, EmptySeq
  <2> QED BY <2>2, <2>4 DEF StartsInTurn, UnderWay
<1>11. CASE ReconcileCommits
  <2>1. /\ queue # <<>> /\ op.kind = "reconcile" /\ queue' = Tail(queue)
        /\ starts' = [starts EXCEPT ![op.start] = "others"]
        /\ listed' = [listed EXCEPT ![op.start] = row']
    BY <1>11 DEF ReconcileCommits, Commits
  <2>2. ASSUME NEW t \in 1..MaxStarts, t = op.start PROVE StartStands(t)'
    <3>1. queue' = <<>>
      BY <1>10, <2>1
    <3>2. starts'[t] = "others" /\ listed'[t] = row'
      BY <2>1, <2>2, <1>b
    <3> QED BY <3>1, <3>2 DEF StartStands
  <2>3. ASSUME NEW t \in 1..MaxStarts, t # op.start PROVE StartStands(t)'
    <3>1. ~UnderWay(t) /\ starts'[t] = starts[t] /\ listed'[t] = listed[t]
      BY <1>10, <2>1, <2>3, <1>b
    <3> QED BY <3>1, <1>a, <1>b DEF StartStands, UnderWay
  <2> QED BY <2>2, <2>3
<1>12. CASE WriteFails
  <2>1. queue # <<>> /\ UNCHANGED <<listed, row>>
    BY <1>12 DEF WriteFails
  <2>2. CASE op.kind # "reconcile"
    BY <1>8, <1>12, <2>1, <2>2 DEF WriteFails
  <2>3. CASE op.kind = "reconcile"
    <3>1. starts' = [starts EXCEPT ![op.start] = "done"]
      BY <1>12, <2>3 DEF WriteFails
    <3>2. ASSUME NEW t \in 1..MaxStarts PROVE StartStands(t)'
      <4>1. CASE t = op.start
        <5>1. starts'[t] = "done"
          BY <3>1, <4>1, <1>b
        <5> QED BY <5>1 DEF StartStands
      <4>2. CASE t # op.start
        <5>1. ~UnderWay(t) /\ starts'[t] = starts[t] /\ listed'[t] = listed[t]
          BY <1>10, <2>1, <2>3, <3>1, <4>2, <1>b
        <5> QED BY <5>1, <1>a, <1>b DEF StartStands, UnderWay
      <4> QED BY <4>1, <4>2
    <3> QED BY <3>2
  <2> QED BY <2>2, <2>3
<1> QED BY <1>1, <1>2, <1>3, <1>4, <1>5, <1>6, <1>7, <1>9, <1>11, <1>12 DEF Next, StoreSteps

\* Another write at the end of the queue takes nothing away.
LEMMA PendingAppended ==
  ASSUME TypeOK, Pending, NEW o \in Ops, queue' = Append(queue, o), UNCHANGED <<row, fires>>
  PROVE  Pending'
  BY FiredAppended, Appended DEF Pending, Submitting

\* Nor does taking one that does not settle the row.
LEMMA PendingTaken ==
  ASSUME TypeOK, Pending, queue # <<>>, queue' = Tail(queue), UNCHANGED fires,
         op.kind \notin {"missed", "delete"},
         row'.enabled = row.enabled, row'.due = row.due,
         op.kind = "fired" => ~(row.enabled /\ row.due = op.due)
  PROVE  Pending'
  BY FiredTaken, Taken DEF Pending, Submitting

\* How a step moves the timer of a job, while its scheduler runs: to what the row then earns, to
\* none, or not at all; only arming the job makes up for a write that was lost.
LEMMA TimerMoves ==
  ASSUME TypeOK, ReconcileInv, IdleInv, GenInv, StartInv, [Next]_vars, running', ~fence', row' # NoJob
  PROVE  \/ timer' = Armed(row', TRUE)
         \/ timer' = Never /\ (lost => lost')
         \/ /\ UNCHANGED timer /\ running /\ row # NoJob
            /\ Armed(row', TRUE) = Armed(row, TRUE) /\ (lost => lost')
<1>a. ~fence /\ \A s \in 1..MaxStarts : StartStands(s)
  BY Closes DEF StartInv
<1>b. \A s \in 1..MaxStarts : UnderWay(s) => ~running
  BY <1>a DEF IdleInv, Unarmed
<1>1. CASE Ticks \/ SetBack \/ Creates \/ Updates \/ UNCHANGED vars
  BY <1>1 DEF Ticks, SetBack, Creates, Updates, Edits, vars, life, store
<1>2. CASE Stops \/ Deletes \/ TimerFires
  BY <1>2 DEF Stops, Deletes, TimerFires
<1>3. ASSUME NEW s \in 1..MaxStarts, StartBegins(s) \/ StartLists(s) PROVE FALSE
  BY <1>3, <1>b DEF StartBegins, StartLists, UnderWay
<1>4. ASSUME NEW s \in 1..MaxStarts, StartArms(s) PROVE timer' = Armed(row', TRUE)
  BY <1>4, <1>a DEF StartArms, StartStands, store
<1>5. ASSUME NEW f \in Fires, FireSteps(f)
      PROVE  UNCHANGED <<timer, running, row, lost>>
  BY <1>5 DEF FireSteps, Accepted, Refused, life
<1>6. CASE CreateCommits \/ UpdateCommits \/ MissCommits
  <2>1. CreateCommits \/ row # NoJob
    BY <1>6 DEF UpdateCommits, MissCommits
  <2>2. timer' = Armed(row', running) /\ UNCHANGED running
    BY <1>6, <2>1, CreateMoves, UpdateMoves, MissMoves, CommitTimer DEF StoreSteps
  <2> QED BY <2>2
<1>7. CASE RemovalCommits
  BY <1>7, RemovalMoves
<1>8. CASE FiredCommits
  <2>1. row # NoJob
    BY <1>8 DEF FiredCommits
  <2>2. queue # <<>> /\ UNCHANGED running
    BY <1>8 DEF FiredCommits, Commits, life
  <2>3. op.gen = generation
    <3>1. op = queue[1] /\ 1 \in 1..Len(queue)
      BY <2>2, HeadType
    <3> QED BY <3>1, <1>a DEF GenInv
  <2>4. CASE row.enabled /\ row.due = op.due
    BY <1>8, <2>1, <2>2, <2>3, <2>4, FiredMoves
  <2>5. CASE ~(row.enabled /\ row.due = op.due)
    <3>1. row'.enabled = row.enabled /\ row'.due = row.due /\ UNCHANGED timer
      BY <1>8, <2>1, <2>5, FiredMoves
    <3>2. UNCHANGED lost
      BY <1>8, <2>1, <2>5 DEF FiredCommits, SubmittedOccurrence, ReplacementArms
    <3> QED BY <2>1, <2>2, <3>1, <3>2 DEF Armed
  <2> QED BY <2>4, <2>5
<1>9. CASE ReconcileCommits
  <2>1. queue # <<>> /\ op.kind = "reconcile" /\ UNCHANGED running
    BY <1>9 DEF ReconcileCommits, Commits
  <2>2. op = queue[1] /\ 1 \in 1..Len(queue)
    BY <2>1, HeadType
  <2>3. op.start \in 1..MaxStarts /\ UnderWay(op.start)
    BY <2>1, <2>2 DEF ReconcileInv, ReconcileWaits, UnderWay
  <2> QED BY <1>b, <2>1, <2>3
<1>10. CASE WriteFails
  BY <1>10 DEF WriteFails
<1> QED BY <1>1, <1>2, <1>3, <1>4, <1>5, <1>6, <1>7, <1>8, <1>9, <1>10 DEF Next, StoreSteps

\* Whatever disarms the job has a write to come that arms it, or has lost it.
LEMMA ArmedNext ==
  ASSUME TypeOK, CreateInv, ReconcileInv, TimerInv, IdleInv, GenInv, StartInv, ArmedInv, [Next]_vars
  PROVE  ArmedInv'
<1> SUFFICES ASSUME running', ~fence', row' # NoJob
             PROVE  timer' \in {Armed(row', TRUE), Never} /\ (timer' = Armed(row', TRUE) \/ Pending' \/ lost')
  BY DEF ArmedInv
<1>s. timer' \in {Armed(row', TRUE), Never} /\ (lost => timer' = Armed(row', TRUE) \/ Pending' \/ lost')
  <2>1. running /\ row # NoJob => timer \in {Armed(row, TRUE), Never} /\ (timer = Armed(row, TRUE) \/ Pending \/ lost)
    BY Closes DEF ArmedInv
  <2> QED BY <2>1, TimerMoves
<1> SUFFICES ASSUME ~lost PROVE timer' = Armed(row', TRUE) \/ Pending' \/ lost'
  BY <1>s
<1>a. ~fence /\ generation = 0 /\ \A s \in 1..MaxStarts : StartStands(s)
  BY Closes DEF StartInv, GenInv
<1>b. \A s \in 1..MaxStarts : UnderWay(s) => ~running
  BY <1>a DEF IdleInv, Unarmed
<1>c. running /\ row # NoJob => timer \in {Armed(row, TRUE), Never} /\ (timer = Armed(row, TRUE) \/ Pending)
  BY <1>a DEF ArmedInv
<1>d. fires \in [Fires -> {NoFire} \cup Submissions]
  BY DEF TypeOK
<1>0. ASSUME UNCHANGED <<running, row, timer, fires>>,
             UNCHANGED queue \/ \E o \in Ops : queue' = Append(queue, o)
      PROVE  timer' = Armed(row', TRUE) \/ Pending'
  <2>1. CASE timer = Armed(row, TRUE)
    BY <1>0, <2>1
  <2>2. CASE Pending /\ UNCHANGED queue
    BY <1>0, <2>2 DEF Pending, Submitting, FiredWaits, Waits
  <2>3. CASE Pending /\ ~UNCHANGED queue
    BY <1>0, <2>3, PendingAppended
  <2> QED BY <1>0, <1>c, <2>1, <2>2, <2>3
<1>1. CASE Ticks \/ SetBack \/ UNCHANGED vars
  <2>1. UNCHANGED <<running, row, timer, fires, queue>>
    BY <1>1 DEF Ticks, SetBack, vars, life, store
  <2> QED BY <1>0, <2>1
<1>2. CASE Stops
  BY <1>2 DEF Stops
<1>3. CASE Creates \/ Updates
  <2>1. UNCHANGED <<running, row, timer, fires>>
        /\ \E kind \in {"create", "update"} : queue' = Append(queue, Op(kind))
    BY <1>3 DEF Creates, Updates, Edits, life, Enqueue
  <2>2. \A kind \in {"create", "update"} : Op(kind) \in Ops
    BY OpType DEF Kinds
  <2> QED BY <1>0, <2>1, <2>2
<1>4. CASE Deletes
  <2>1. queue' = Append(queue, Op("delete"))
    BY <1>4 DEF Deletes, Edits, Enqueue
  <2>2. Op("delete") \in Ops /\ Op("delete").kind = "delete"
    BY OpType DEF Kinds
  <2>3. Waits("delete")'
    BY <2>1, <2>2, Appended
  <2> QED BY <2>3 DEF Pending
<1>5. CASE TimerFires
  <2>1. UNCHANGED <<running, row, queue>> /\ timer # Never /\ timer' = Never
    BY <1>5 DEF TimerFires, life, store
  <2>2. CASE ~row.enabled
    BY <2>1, <2>2 DEF Armed
  <2>3. CASE row.enabled
    <3>1. \E f \in Fires : fires[f] = NoFire
            /\ fires' = [fires EXCEPT ![f] = [due |-> row.due, occ |-> row.occ, gen |-> generation]]
      BY <1>5, <1>a, <2>1, <2>3 DEF TimerFires
    <3>2. [due |-> row.due, occ |-> row.occ, gen |-> generation] \in Submissions
      BY <2>1 DEF TypeOK, Jobs, Submissions
    <3>3. Submitting(row.due)'
      BY <1>d, <2>1, <3>1, <3>2, SchedulerAssumption DEF Submitting
    <3> QED BY <2>1, <2>3, <3>3 DEF Pending
  <2> QED BY <2>2, <2>3
<1>6. ASSUME NEW s \in 1..MaxStarts, StartBegins(s) \/ StartLists(s) PROVE FALSE
  BY <1>6, <1>b DEF StartBegins, StartLists, UnderWay
<1>7. ASSUME NEW s \in 1..MaxStarts, StartArms(s) PROVE timer' = Armed(row', TRUE)
  <2>1. listed[s] = row /\ UNCHANGED row
    BY <1>7, <1>a DEF StartArms, StartStands, store
  <2> QED BY <1>7, <2>1 DEF StartArms
<1>8. ASSUME NEW f \in Fires, Accepted(f) PROVE timer' = Armed(row', TRUE) \/ Pending'
  <2>1. /\ UNCHANGED <<running, row, timer>> /\ fires[f] # NoFire
        /\ fires' = [fires EXCEPT ![f] = NoFire]
    BY <1>8 DEF Accepted, life
  <2>2. fires[f] \in Submissions
    BY <1>d, <2>1
  <2> DEFINE a == [Op("fired") EXCEPT !.due = fires[f].due, !.gen = fires[f].gen]
  <2>3. queue' = Append(queue, a)
    BY <1>8 DEF Accepted, Recorded, Enqueue
  <2>4. a \in Ops /\ a.kind = "fired" /\ a.due = fires[f].due
    BY <2>2, OpType DEF Kinds, Ops, Submissions
  <2> HIDE DEF a
  <2>5. CASE timer = Armed(row, TRUE)
    BY <2>1, <2>5
  <2>6. CASE row.enabled /\ Submitting(row.due)
    <3>1. CASE fires[f].due = row.due
      <4>1. FiredWaits(row.due)'
        BY <2>1, <2>3, <2>4, <3>1, FiredAppended
      <4> QED BY <2>1, <2>6, <4>1 DEF Pending
    <3>2. CASE fires[f].due # row.due
      <4>1. Submitting(row.due)'
        BY <1>d, <2>1, <2>6, <3>2 DEF Submitting
      <4> QED BY <2>1, <2>6, <4>1 DEF Pending
    <3> QED BY <3>1, <3>2
  <2>7. CASE row.enabled /\ FiredWaits(row.due)
    <3>1. FiredWaits(row.due)'
      BY <2>1, <2>3, <2>4, <2>7, FiredAppended
    <3> QED BY <2>1, <2>7, <3>1 DEF Pending
  <2>8. CASE Waits("missed") \/ Waits("delete")
    BY <2>3, <2>4, <2>8, Appended DEF Pending
  <2> QED BY <1>c, <2>1, <2>5, <2>6, <2>7, <2>8 DEF Pending
<1>9. ASSUME NEW f \in Fires, Refused(f) PROVE Pending'
  <2>1. queue' = Append(queue, Op("missed"))
    BY <1>9, <1>a DEF Refused, Enqueue, GenInv
  <2>2. Op("missed") \in Ops /\ Op("missed").kind = "missed"
    BY OpType DEF Kinds
  <2>3. Waits("missed")'
    BY <2>1, <2>2, Appended
  <2> QED BY <2>3 DEF Pending
<1>10. ASSUME queue # <<>>, op.kind = "reconcile" PROVE ~running
  <2>1. op = queue[1] /\ 1 \in 1..Len(queue)
    BY <1>10, HeadType
  <2>2. op.start \in 1..MaxStarts /\ UnderWay(op.start)
    BY <1>10, <2>1 DEF ReconcileInv, ReconcileWaits, UnderWay
  <2> QED BY <1>b, <2>2
<1>11. CASE CreateCommits
  <2>1. timer' = Armed(row', running) /\ UNCHANGED running
    BY <1>11, CreateMoves, CommitTimer DEF StoreSteps
  <2> QED BY <2>1
<1>12. CASE UpdateCommits
  <2>1. row # NoJob
    BY <1>12 DEF UpdateCommits
  <2>2. timer' = Armed(row', running) /\ UNCHANGED running
    BY <1>12, <2>1, UpdateMoves, CommitTimer DEF StoreSteps
  <2> QED BY <2>2
<1>13. CASE RemovalCommits
  BY <1>13, RemovalMoves
<1>14. CASE FiredCommits
  <2>1. row # NoJob
    BY <1>14 DEF FiredCommits
  <2>2. queue # <<>> /\ queue' = Tail(queue) /\ op.kind = "fired" /\ UNCHANGED <<running, fires>>
    BY <1>14 DEF FiredCommits, Commits, life
  <2>3. op.gen = generation
    <3>1. op = queue[1] /\ 1 \in 1..Len(queue)
      BY <2>2, HeadType
    <3> QED BY <3>1, <1>a DEF GenInv
  <2>4. CASE row.enabled /\ row.due = op.due
    <3>1. timer' = Armed(row', running)
      BY <1>14, <2>1, <2>3, <2>4, FiredMoves
    <3> QED BY <2>2, <3>1
  <2>5. CASE ~(row.enabled /\ row.due = op.due)
    <3>1. row'.enabled = row.enabled /\ row'.due = row.due /\ UNCHANGED timer
      BY <1>14, <2>1, <2>5, FiredMoves
    <3>2. CASE timer = Armed(row, TRUE)
      BY <3>1, <3>2 DEF Armed
    <3>3. CASE Pending
      BY <2>2, <2>5, <3>1, <3>3, PendingTaken
    <3> QED BY <1>c, <2>1, <2>2, <3>2, <3>3
  <2> QED BY <2>4, <2>5
<1>15. CASE MissCommits
  <2>1. row # NoJob
    BY <1>15 DEF MissCommits
  <2>2. timer' = Armed(row', running) /\ UNCHANGED running
    BY <1>15, <2>1, MissMoves, CommitTimer DEF StoreSteps
  <2> QED BY <2>2
<1>16. CASE ReconcileCommits
  BY <1>10, <1>16 DEF ReconcileCommits, Commits
<1>17. CASE WriteFails
  <2>1. queue # <<>> /\ UNCHANGED <<running, row, timer, fires>>
    BY <1>17 DEF WriteFails
  <2>2. CASE op.kind = "fired"
    <3>1. op = queue[1] /\ 1 \in 1..Len(queue)
      BY <2>1, HeadType
    <3>2. queue' = Append(Tail(queue), Op("missed"))
      BY <1>17, <2>2, <3>1, <1>a DEF WriteFails, GenInv
    <3>3. Op("missed") \in Ops /\ Op("missed").kind = "missed"
      BY OpType DEF Kinds
    <3>4. Waits("missed")'
      BY <2>1, <3>2, <3>3, TookAndAppended
    <3> QED BY <3>4 DEF Pending
  <2>4. CASE op.kind \in {"delete", "missed"}
    <3>1. timer = Never => lost'
      BY <1>17, <2>4 DEF WriteFails, LeavesUnarmed
    <3> QED BY <1>c, <2>1, <3>1
  <2>3. CASE op.kind \notin {"fired", "delete", "missed"}
    <3>1. queue' = Tail(queue)
      BY <1>17, <2>3 DEF WriteFails
    <3>2. CASE timer = Armed(row, TRUE)
      BY <2>1, <3>2
    <3>3. CASE Pending
      BY <2>1, <2>3, <3>1, <3>3, PendingTaken
    <3> QED BY <1>c, <2>1, <3>2, <3>3
  <2> QED BY <2>2, <2>3, <2>4
<1> QED BY <1>1, <1>2, <1>3, <1>4, <1>5, <1>6, <1>7, <1>8, <1>9, <1>11, <1>12, <1>13, <1>14, <1>15, <1>16, <1>17
    DEF Next, StoreSteps, FireSteps

RestInv == TypeOK /\ CreateInv /\ TimerInv /\ ReconcileInv /\ IdleInv /\ GenInv /\ StartInv /\ ArmedInv

\* At first nothing runs.
LEMMA RestInit == Init => GenInv /\ StartInv /\ ArmedInv
<1> SUFFICES ASSUME Init PROVE GenInv /\ StartInv /\ ArmedInv
  OBVIOUS
<1>1. Len(queue) = 0 /\ 1..Len(queue) = {}
  BY DEF Init
<1>2. /\ generation = 0 /\ running = FALSE
      /\ \A f \in Fires : fires[f] = NoFire
      /\ \A s \in 1..MaxStarts : starts[s] = "no" /\ listed[s] = NoJob
  BY DEF Init
<1> QED BY <1>1, <1>2 DEF GenInv, StartInv, StartStands, ArmedInv

\* Whatever writes fail, a scheduler at rest is armed for what the row says, but for a job whose
\* miss or delete could not be written and which has no timer until something arms it; a
\* stopped one holds none.  As long as starts do not overlap and the owner edits nothing while
\* one is under way (rearm, index.ts:397-424).
THEOREM ArmedForTheRow == ~EditsWhileStarting => (Spec /\ []StartsInTurn => []ArmedAsRecorded)
<1> SUFFICES ASSUME ~EditsWhileStarting PROVE Spec /\ []StartsInTurn => []ArmedAsRecorded
  OBVIOUS
<1>1. Init => RestInv
  BY RestInit, OnceInit, RecordInit DEF RestInv
<1>2. RestInv /\ StartsInTurn /\ StartsInTurn' /\ [Next]_vars => RestInv'
  BY TypeNext, CreateNext, TimerNext, ReconcileNext, IdleNext, GenNext, StartNext, ArmedNext DEF RestInv
<1>3. RestInv => ArmedAsRecorded
  <2> SUFFICES ASSUME RestInv PROVE ArmedAsRecorded
    OBVIOUS
  <2>1. ASSUME running, ~fence, Settled, row # NoJob PROVE timer = Armed(row, TRUE) \/ (lost /\ timer = Never)
    <3>1. queue = <<>> /\ \A f \in Fires : fires[f] = NoFire
      BY <2>1 DEF Settled
    <3>2. 1..Len(queue) = {}
      BY <3>1
    <3>3. ~Submitting(row.due) /\ ~FiredWaits(row.due) /\ ~Waits("missed") /\ ~Waits("delete")
      BY <3>1, <3>2 DEF Submitting, FiredWaits, Waits
    <3> QED BY <2>1, <3>3 DEF RestInv, ArmedInv, Pending
  <2> QED BY <2>1 DEF RestInv, TimerInv, ArmedAsRecorded
<1> QED BY <1>1, <1>2, <1>3, PTL DEF Spec

\* A scheduler that is started once meets both assumptions about starts.
LEMMA OneStart == MaxStarts \in {0, 1} => (Spec => []StartsInTurn)
<1> SUFFICES ASSUME MaxStarts \in {0, 1} PROVE Spec => []StartsInTurn
  OBVIOUS
<1>1. StartsInTurn
  <2>1. \A s, t \in 1..MaxStarts : s = t
    OBVIOUS
  <2> QED BY <2>1 DEF StartsInTurn
<1> QED BY <1>1, PTL

\* The owner that starts its scheduler once, as dispatchers and Teams do: no occurrence is
\* submitted twice while nothing is refused or fails, and a scheduler at rest is armed for its row
\* unless a miss or a delete could not be written.
COROLLARY StartedOnce ==
  MaxStarts \in {0, 1} =>
    /\ Spec => SubmittedOnceIfTaken
    /\ ~EditsWhileStarting => (Spec => []ArmedAsRecorded)
  BY OneStart, OccurrencesAreSubmittedOnce, ArmedForTheRow, PTL
========================================
