--------------------------- MODULE CronScheduler ---------------------------
(***************************************************************************)
(* The scheduler of a dispatcher or a Team, seen at one cron job: the row  *)
(* of the job in the store, its timer, the fires whose submission is under *)
(* way, and the writes that wait in the store's queue.  The store holds    *)
(* every job of the owner, so that the write of another job may stand      *)
(* between any two of this one, and each write takes as long as it takes.  *)
(*                                                                         *)
(* Time is the wall clock in units of the cron grid.  It may be set back.  *)
(***************************************************************************)
EXTENDS Naturals, Sequences

CONSTANTS
  NoJob,        \* the row of a job that is not there
  NoFire,       \* a free place for a submission
  MaxTime,      \* bound: the wall clock
  MaxBack,      \* bound: times it is set back
  Periods,      \* the cron patterns: every p-th instant
  MaxWrites,    \* bound: creates, updates and deletes
  MaxStarts,    \* bound: starts of the scheduler
  Fires,        \* bound: submissions under way at a time
  MaxFailures,  \* bound: writes that fail
  EditsWhileStarting \* whether the owner may edit a job while a start reconciles

\* A job has a due instant exactly when it is enabled; what dispatch has read of one.
Jobs ==
  {job \in [enabled : BOOLEAN, recurring : BOOLEAN, period : Periods, due : Nat, last : Nat, occ : Nat] :
     job.enabled <=> job.due # 0}
Submissions == [due : Nat, occ : Nat, gen : Nat]

ASSUME SchedulerAssumption ==
  /\ {MaxTime, MaxBack, MaxWrites, MaxStarts, MaxFailures} \subseteq Nat
  /\ Periods \subseteq Nat \ {0} /\ Periods # {}
  /\ EditsWhileStarting \in BOOLEAN
  /\ NoJob \notin Jobs /\ NoFire \notin Submissions

VARIABLES
  now, back,    \* the clock, and how often it was set back
  fence,        \* does the owner refuse everything?
  row,          \* the committed job, or NoJob
  timer,        \* the instant its timer is armed for, or Never
  lost,         \* has a failed write left it unarmed, and nothing armed it since?
  running,      \* SchedulerService.running
  generation,   \* lifecycleGeneration
  starts,       \* each start: "no", "reading", "queued", "others" or "done"
  listed,       \* the job as each start has reconciled it, or NoJob
  fires,        \* the submissions under way: what dispatch read, or NoFire
  queue,        \* the writes of the job the store has yet to commit
  written,      \* creates, updates and deletes so far
  occurrences,  \* occurrences so far: each due instant given to the row is a new one
  accepted,     \* when a submission was last accepted, Never at first
  spent,        \* the occurrences a submission was accepted for
  refused,      \* whether a submission has been refused
  failures      \* writes that have failed

clock == <<now, back>>
life  == <<fence, running, generation, starts, listed>>
store == <<row, queue, occurrences, failures>>
past  == <<accepted, spent, refused>>
vars  == <<clock, life, store, timer, lost, fires, written, past>>

Never == 0

Job(enabled, recurring, period, due, last, occ) ==
  [enabled |-> enabled, recurring |-> recurring, period |-> period,
   due |-> due, last |-> last, occ |-> occ]

\* nextRunAfter: the first instant of the grid after t.
NextRun(period, t) == ((t \div period) + 1) * period

\* A job of an earlier process may be due, overdue or paused when the scheduler is built.
Init ==
  /\ now = 1 /\ back = 0 /\ fence = FALSE
  /\ \/ row = NoJob
     \/ \E r \in BOOLEAN, p \in Periods, d \in 1..2 : row = Job(TRUE, r, p, d, Never, 1)
  /\ timer = Never /\ lost = FALSE /\ running = FALSE /\ generation = 0
  /\ starts = [s \in 1..MaxStarts |-> "no"] /\ listed = [s \in 1..MaxStarts |-> NoJob]
  /\ fires = [f \in Fires |-> NoFire]
  /\ queue = <<>> /\ written = 0 /\ occurrences = 1
  /\ accepted = Never /\ spent = {} /\ refused = FALSE /\ failures = 0

----------------------------------------

Ticks ==
  /\ now < MaxTime /\ now' = now + 1
  /\ UNCHANGED <<back, life, store, timer, lost, fires, written, past>>

SetBack ==
  /\ now > 1 /\ back < MaxBack
  /\ now' = now - 1 /\ back' = back + 1
  /\ UNCHANGED <<life, store, timer, lost, fires, written, past>>

\* arm: the timer a job earns; an earlier one is cleared.
Armed(job, run) == IF run /\ job.enabled THEN job.due ELSE Never

\* A write is enqueued.  What it needs is in op; the change is made against the row as it
\* then stands.
Enqueue(op) == queue' = Append(queue, op)
Op(kind) == [kind |-> kind, due |-> Never, gen |-> generation, at |-> now, start |-> 0]

----------------------------------------
(* start, stop, destroy                                                    *)

Starting == \E s \in 1..MaxStarts : starts[s] \notin {"no", "done"}

StartBegins(s) ==
  /\ starts[s] = "no" /\ ~running /\ ~fence
  /\ EditsWhileStarting \/ queue = <<>>
  /\ \A t \in 1..s - 1 : starts[t] # "no"
  /\ starts' = [starts EXCEPT ![s] = "reading"]
  /\ UNCHANGED <<clock, fence, running, generation, listed, store, timer, lost, fires, written, past>>

\* The jobs are listed; each is reconciled in the store before any timer is armed.
StartLists(s) ==
  /\ starts[s] = "reading"
  /\ IF row = NoJob
       THEN starts' = [starts EXCEPT ![s] = "others"] /\ UNCHANGED queue
       ELSE /\ starts' = [starts EXCEPT ![s] = "queued"]
            /\ Enqueue([Op("reconcile") EXCEPT !.start = s])
  /\ UNCHANGED <<clock, fence, running, generation, listed, row, occurrences, failures,
                 timer, lost, fires, written, past>>

\* The other jobs are reconciled too: those that were listed are armed.
StartArms(s) ==
  /\ starts[s] = "others"
  /\ starts' = [starts EXCEPT ![s] = "done"]
  /\ running' = TRUE
  /\ IF listed[s] = NoJob THEN UNCHANGED <<timer, lost>>
       ELSE timer' = Armed(listed[s], TRUE) /\ lost' = FALSE
  /\ UNCHANGED <<clock, fence, generation, listed, store, fires, written, past>>

\* The owner closes: its fence goes up, then the scheduler stops.  A Team that dissolves
\* removes the store as well.
Stops ==
  /\ ~fence
  /\ fence' = TRUE /\ running' = FALSE
  /\ generation' = generation + 1
  /\ timer' = Never /\ lost' = FALSE
  /\ UNCHANGED queue \/ Enqueue(Op("remove"))
  /\ UNCHANGED <<clock, starts, listed, row, occurrences, failures, fires, written, past>>

----------------------------------------
(* The owner's edits                                                       *)

Edits(kind) ==
  /\ ~fence /\ written < MaxWrites /\ (EditsWhileStarting \/ ~Starting)
  /\ written' = written + 1
  /\ Enqueue(Op(kind))
  /\ UNCHANGED <<clock, life, row, occurrences, failures, fires, past>>

\* A job is created once: its id is its own.
Creates == row = NoJob /\ written = 0 /\ Edits("create") /\ UNCHANGED <<timer, lost>>
Updates == row # NoJob /\ Edits("update") /\ UNCHANGED <<timer, lost>>

\* doDelete disarms the job before the store has removed it.
Deletes == row # NoJob /\ Edits("delete") /\ timer' = Never /\ UNCHANGED lost

----------------------------------------
(* A fire                                                                  *)

\* The timer fires.  dispatchAdmitted crosses the fence and reads the job at once; a
\* refused fire, a job that is gone or one that is paused is not submitted.
TimerFires ==
  /\ timer # Never /\ timer <= now
  /\ timer' = Never
  /\ IF fence \/ row = NoJob THEN UNCHANGED fires
     ELSE IF ~row.enabled THEN UNCHANGED fires
     ELSE \E f \in Fires :
            /\ fires[f] = NoFire
            /\ fires' = [fires EXCEPT ![f] = [due |-> row.due, occ |-> row.occ, gen |-> generation]]
  /\ UNCHANGED <<clock, life, store, lost, written, past>>

\* Mutant: a fire that a stop has overtaken is not recorded.
RecordedUnlessStale(f) == IF fires[f].gen = generation THEN {"fired"} ELSE {}

\* What an accepted submission writes: the fact, whoever runs the scheduler by now.
Recorded(f) == {"fired"}

\* Accepted, or ambiguous.
Accepted(f) ==
  /\ fires[f] # NoFire
  /\ fires' = [fires EXCEPT ![f] = NoFire]
  /\ accepted' = now /\ spent' = spent \cup {fires[f].occ}
  /\ IF Recorded(f) = {} THEN UNCHANGED queue
     ELSE Enqueue([Op("fired") EXCEPT !.due = fires[f].due, !.gen = fires[f].gen])
  /\ UNCHANGED <<clock, life, row, occurrences, failures, timer, lost, written, refused>>

\* Refused, or thrown: a miss, unless the scheduler has stopped.
Refused(f) ==
  /\ fires[f] # NoFire /\ refused' = TRUE
  /\ fires' = [fires EXCEPT ![f] = NoFire]
  /\ IF fires[f].gen = generation THEN Enqueue(Op("missed")) ELSE UNCHANGED queue
  /\ UNCHANGED <<clock, life, row, occurrences, failures, timer, lost, written, accepted, spent>>

----------------------------------------
(* The store commits the first write of its queue, and its caller goes on  *)

op == Head(queue)

Commits(kind) == queue # <<>> /\ op.kind = kind /\ queue' = Tail(queue) /\ UNCHANGED failures

\* The row gets a due instant of its own.
Occurs(job) ==
  /\ occurrences' = occurrences + 1
  /\ row' = [job EXCEPT !.occ = occurrences + 1]

\* advanceJob: a recurring job goes on, a one-shot is over.
Advance(job, t) ==
  IF job.recurring THEN [job EXCEPT !.due = NextRun(job.period, t)]
                   ELSE [job EXCEPT !.enabled = FALSE, !.due = Never]

\* The timer follows the row that was committed.
Rearms == timer' = Armed(row', running) /\ lost' = FALSE

CreateCommits ==
  /\ Commits("create")
  /\ \E r \in BOOLEAN, p \in Periods : Occurs(Job(TRUE, r, p, NextRun(p, op.at), Never, 0))
  /\ Rearms
  /\ UNCHANGED <<clock, life, fires, written, past>>

\* doUpdate: schedule and pause are normalised against the row, the timer replaced.
UpdateCommits ==
  /\ Commits("update")
  /\ IF row = NoJob THEN UNCHANGED <<row, occurrences, timer, lost>>
     ELSE /\ \E e, r \in BOOLEAN, p \in Periods :
               Occurs(Job(e, r, p, IF e THEN NextRun(p, now) ELSE Never, row.last, 0))
          /\ Rearms
  /\ UNCHANGED <<clock, life, fires, written, past>>

RemovalCommits ==
  /\ Commits("delete") \/ Commits("remove")
  /\ row' = NoJob
  /\ UNCHANGED <<clock, life, occurrences, timer, lost, fires, written, past>>

\* Mutant: the replacement is armed once more.
ReplacementArmsAgain == Rearms

\* A replacement keeps the timer of its writer.
ReplacementArms == UNCHANGED <<timer, lost>>

\* setFired settles only the occurrence that was submitted.
SubmittedOccurrence(job) == job.enabled /\ job.due = op.due

FiredCommits ==
  /\ Commits("fired")
  /\ IF row = NoJob THEN UNCHANGED <<row, occurrences, timer, lost>>
     ELSE LET seen == [row EXCEPT !.last = op.at] IN
          IF SubmittedOccurrence(row)
            THEN /\ Occurs(Advance(seen, op.at))
                 /\ IF op.gen = generation THEN Rearms ELSE UNCHANGED <<timer, lost>>
            ELSE row' = seen /\ UNCHANGED occurrences /\ ReplacementArms
  /\ UNCHANGED <<clock, life, fires, written, past>>

\* Mutants: a miss arms nothing; it arms only what it has written.
MissArmsNothing(left) == UNCHANGED <<timer, lost>>
MissArmsWritten(left) == IF left THEN UNCHANGED <<timer, lost>> ELSE Rearms

\* missedOutcome: a paused job, or one that is due later, is left as it is ...
LeftAlone(job) == ~job.enabled \/ job.due > op.at

\* ... and armed as it stands, written or not.
MissArms(left) == Rearms

MissCommits ==
  /\ Commits("missed")
  /\ IF row = NoJob THEN UNCHANGED <<row, occurrences, timer, lost>>
     ELSE /\ IF LeftAlone(row) THEN UNCHANGED <<row, occurrences>> ELSE Occurs(Advance(row, op.at))
          /\ MissArms(LeftAlone(row))
  /\ UNCHANGED <<clock, life, fires, written, past>>

\* reconcile: what became due while nothing ran is not replayed.
ReconcileCommits ==
  /\ Commits("reconcile")
  /\ IF row = NoJob \/ (row # NoJob /\ (~row.enabled \/ row.due > now))
       THEN UNCHANGED <<row, occurrences>>
       ELSE Occurs(Advance(row, now))
  /\ starts' = [starts EXCEPT ![op.start] = "others"]
  /\ listed' = [listed EXCEPT ![op.start] = row']
  /\ UNCHANGED <<clock, fence, running, generation, timer, lost, fires, written, past>>

\* The operation has a change to make: one that finds nothing to do writes nothing.
Writes ==
  /\ row = NoJob => op.kind \in {"create", "remove"}
  /\ op.kind = "missed" => ~LeftAlone(row)
  /\ op.kind = "reconcile" => row.enabled /\ row.due <= now

\* What a failed miss or delete was about is left as it is: a due job stays due, unarmed.
LeavesUnarmed == op.kind \in {"missed", "delete"} /\ timer = Never

\* A write fails, and its caller hears of it: an edit is refused, a start gives up, a fire that
\* was not recorded is taken as missed, and a miss is only logged.  doDelete has disarmed the
\* job by then.
WriteFails ==
  /\ queue # <<>> /\ Writes /\ failures < MaxFailures
  /\ failures' = failures + 1
  /\ lost' = (lost \/ LeavesUnarmed)
  /\ queue' = IF op.kind = "fired" /\ op.gen = generation
                THEN Append(Tail(queue), Op("missed")) ELSE Tail(queue)
  /\ starts' = IF op.kind = "reconcile" THEN [starts EXCEPT ![op.start] = "done"] ELSE starts
  /\ UNCHANGED <<clock, fence, running, generation, listed, row, occurrences, timer, fires, written, past>>

----------------------------------------

StoreSteps ==
  \/ CreateCommits \/ UpdateCommits \/ RemovalCommits \/ FiredCommits \/ MissCommits
  \/ ReconcileCommits
FireSteps(f) == Accepted(f) \/ Refused(f)

Next ==
  \/ Ticks \/ SetBack \/ Stops \/ Creates \/ Updates \/ Deletes \/ TimerFires \/ WriteFails
  \/ StoreSteps
  \/ \E s \in 1..MaxStarts : StartBegins(s) \/ StartLists(s) \/ StartArms(s)
  \/ \E f \in Fires : FireSteps(f)

Spec == Init /\ [][Next]_vars

\* Timers fire, submissions and writes come back; nobody has to edit, stop or start.
FairSpec ==
  /\ Spec /\ WF_vars(TimerFires) /\ WF_vars(StoreSteps)
  /\ \A f \in Fires : WF_vars(FireSteps(f))
  /\ \A s \in 1..MaxStarts : WF_vars(StartLists(s) \/ StartArms(s))

----------------------------------------
(* Properties                                                              *)

Kinds == {"create", "update", "delete", "remove", "fired", "missed", "reconcile"}
Ops == [kind : Kinds, due : Nat, gen : Nat, at : Nat, start : 0..MaxStarts]

\* Types; what is under way or spent is of an occurrence there has been.
TypeOK ==
  /\ now \in Nat \ {0} /\ back \in 0..MaxBack /\ fence \in BOOLEAN
  /\ row \in {NoJob} \cup Jobs /\ (row # NoJob => row.occ <= occurrences)
  /\ timer \in Nat /\ lost \in BOOLEAN /\ running \in BOOLEAN /\ generation \in Nat
  /\ starts \in [1..MaxStarts -> {"no", "reading", "queued", "others", "done"}]
  /\ listed \in [1..MaxStarts -> {NoJob} \cup Jobs]
  /\ fires \in [Fires -> {NoFire} \cup Submissions]
  /\ \A f \in Fires : fires[f] # NoFire => fires[f].occ <= occurrences
  /\ queue \in Seq(Ops) /\ written \in 0..MaxWrites /\ occurrences \in Nat
  /\ accepted \in Nat /\ spent \subseteq 0..occurrences
  /\ refused \in BOOLEAN /\ failures \in 0..MaxFailures

\* Nothing is under way.
Settled ==
  /\ queue = <<>> /\ \A f \in Fires : fires[f] = NoFire
  /\ ~Starting

\* A scheduler at rest is armed for what the row says, whatever order edits, fires, misses
\* and failed writes came in, and although the clock was set back
\* (rearm, index.ts:397-424).  The one exception: a miss or a delete that could not be written
\* leaves the job without a timer, and never with a wrong one, until something arms it.
\* The timer of a deleted job, should one be left, finds no job.
\* A stopped scheduler holds no timer, not even by a write that was under way when it stopped.
ArmedAsRecorded ==
  /\ running /\ ~fence /\ Settled /\ row # NoJob =>
       timer = Armed(row, TRUE) \/ (lost /\ timer = Never)
  /\ ~running => timer = Never

\* A submission the runtime accepted never looks on disk like one that never happened: the
\* last one is in the row, though the scheduler stopped meanwhile (index.ts:384-392).
AcceptedIsRecorded ==
  Settled /\ row # NoJob /\ failures = 0 => row.last = accepted

\* No occurrence is submitted again once it was accepted, or while it is under way: "re-arming
\* it from an older settlement could dispatch it again after its own timer has already
\* fired" (.agents/domains/scheduled-work.md:84-88).
SubmittedOnce ==
  [][\A f \in Fires : fires[f] = NoFire /\ fires'[f] # NoFire =>
       /\ fires'[f].occ \notin spent
       /\ \A g \in Fires : fires[g] # NoFire => fires[g].occ # fires'[f].occ]_vars

\* The same while nothing was refused and every write succeeded: edits, a stop and a clock
\* set back never submit an occurrence again (rearm, index.ts:407-424).
SubmittedOnceIfTaken ==
  [][\A f \in Fires :
       fires[f] = NoFire /\ fires'[f] # NoFire /\ ~refused /\ failures = 0 =>
         /\ fires'[f].occ \notin spent
         /\ \A g \in Fires : fires[g] # NoFire => fires[g].occ # fires'[f].occ]_vars

Due == running /\ row # NoJob /\ row.enabled /\ row.due <= now

\* A due job is answered: it goes on to another instant, ends, or its owner closes, though its
\* submission is refused, the write of its fire fails, or the clock was set back under its timer.
\* A miss that cannot be written is only logged (index.ts:272-281, 303-310): its job waits, due
\* and unarmed, for an edit or the reconcile of the next start.
DueIsAnswered == Due ~> fence \/ ~Due \/ lost
========================================
