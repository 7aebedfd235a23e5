----------------------------- MODULE WorkflowRun -----------------------------
(* One Workflow run: service/workflow-service/run.ts with its runner process,   *)
(* the locked TeamMates of its agents, its slots (semaphore.ts), its journal    *)
(* and record (journal.ts, store.ts), and the recovery of the record after the  *)
(* host died (index.ts).                                                        *)
(*                                                                              *)
(* An action is what runs between two awaits of something outside.  The journal *)
(* holds the results and the end; of its other rows only one that was torn      *)
(* matters, for it makes the whole file unreadable (journal.ts:261-270).  Every *)
(* write of the record publishes the run's one draft, so the order of the store's*)
(* queue is not kept: whoever comes first writes the same value.                *)
EXTENDS Naturals, Sequences, FiniteSets

CONSTANTS
  Agents,       \* agent() calls
  Scripts,      \* bound: the scripts, each the calls it may make and its phase() and log() calls
  Slots,        \* record.max_concurrency
  MaxFailures,  \* bound: writes, stops and closes that fail, together
  MaxCrashes    \* bound: deaths of the host

None == "none"
Terminal == {"completed", "failed", "stopped"}
Results == Terminal \cup {None}
Marks == {"queued", "running"} \cup Results

\* A call is named by itself: no other message of the runner is one.
ASSUME RunAssumption ==
  /\ IsFiniteSet(Agents) /\ Agents \cap ({"emit"} \cup Terminal) = {}
  /\ Slots \in Nat \ {0} /\ MaxFailures \in Nat /\ MaxCrashes \in Nat
  /\ Scripts \subseteq [calls : SUBSET Agents, emits : Nat]

VARIABLES
  accepting,  \* does the service still take runs?
  boot,       \* createRun and start(): where they are
  asked,      \* is a stopAll on its way to stop() the run?
  intent,     \* terminalIntent
  seen,       \* runnerTerminalMessageSeen
  tail,       \* runnerMessageTail: the messages received and not handled
  busy,       \* is the head of tail waiting for a write or a finalize?
  runner,     \* the runner process
  script,     \* what the script may still call
  pc,         \* handleAgentStart and executeAgent of each call
  active,     \* slots taken
  holds,      \* the calls that have one to give back
  waiters,    \* calls waiting for a slot
  cand,       \* resultCandidate
  draft,      \* record.agents, in memory
  handle,     \* the locked TeamMate of a call
  fin,        \* where finalize is
  stuck,      \* did runner.stop() fail in this attempt of finalize?
  again,      \* does a caller of this finalize ask once more when it fails?
  owed,       \* recipient # null
  reports,    \* the terminal reports delivered
  rec,        \* record.json
  res, end,   \* journal.jsonl: the results, the end
  torn,       \* does it hold a row of which an append wrote a part?
  facts,      \* does the run hold the facts of the journal, which it then need not read?
  host,       \* up, recovering its records, or refusing because it cannot
  failures, crashes

service == <<accepting, boot, asked>>
inbox   == <<seen, tail, busy, script>>
slots   == <<active, holds, waiters>>
calls   == <<pc, cand, draft, handle>>
final   == <<fin, stuck, again>>
report  == <<owed, reports>>
journal == <<res, end, torn, facts>>
disk    == <<rec, journal>>
bounds  == <<failures, crashes>>
vars == <<service, intent, inbox, runner, slots, calls, final, report, disk, host, bounds>>

Absent == [status |-> None, agents |-> [i \in Agents |-> None]]

\* What a process that has just started holds of the run.
Fresh ==
  /\ accepting = TRUE /\ boot = None /\ asked = FALSE
  /\ intent = None /\ seen = FALSE /\ tail = <<>> /\ busy = FALSE
  /\ runner = None
  /\ pc = [i \in Agents |-> "idle"] /\ active = 0 /\ holds = {} /\ waiters = <<>>
  /\ cand = [i \in Agents |-> None] /\ draft = [i \in Agents |-> None]
  /\ handle = [i \in Agents |-> None]
  /\ fin = None /\ stuck = FALSE /\ again = FALSE
  /\ owed = TRUE /\ reports = 0 /\ facts = FALSE

Init ==
  /\ Fresh /\ script \in Scripts
  /\ rec = Absent /\ res = [i \in Agents |-> None] /\ end = None /\ torn = FALSE
  /\ host = "up" /\ failures = 0 /\ crashes = 0

Broke == failures < MaxFailures /\ failures' = failures + 1

----------------------------------------
(* Ending a run: an intent is reserved once, finalize is shared and retryable *)

\* Mutant: a stop leaves the report to its recipient.
OwingAlways(status) == owed

\* closeOnTerminalIntent: only a stop takes the report from its recipient.
Owing(status) == owed /\ status # "stopped"

\* Reserving an intent: the first one wins, and closes the semaphore to its waiters.
Reserve(status) ==
  IF intent = None THEN intent' = status /\ owed' = Owing(status) /\ waiters' = <<>>
                   ELSE UNCHANGED <<intent, owed, waiters>>

\* ensureTerminalTask: start finalize, or join it; retry: the caller's own catch asks again.
Ensure(retry) ==
  /\ again' = (again \/ retry)
  /\ fin' = IF fin = None THEN "stopping" ELSE fin
  /\ stuck' = (stuck /\ fin # None)

\* requestTerminal, observeTerminal.
RequestTerminal(status) == Reserve(status) /\ Ensure(FALSE)

\* A failed finalize gives its task up, unless the run_result handler or start() retries it.
FinalizeFails ==
  /\ fin' = IF again THEN "stopping" ELSE None
  /\ again' = FALSE /\ stuck' = FALSE

----------------------------------------
(* Creating and starting a run                                             *)

\* createRun: the journal is created, then the record; a failure leaves no run.
Create ==
  /\ host = "up" /\ boot = None /\ accepting /\ rec = Absent
  /\ boot' = "creating"
  /\ UNCHANGED <<accepting, asked, intent, inbox, runner, slots, calls, final, report, disk, host, bounds>>

\* The run is registered; if the service stopped accepting meanwhile it is a stopped run,
\* and start() then stops it instead of launching the runner.
Created ==
  /\ host = "up" /\ boot = "creating"
  /\ rec' = [Absent EXCEPT !.status = "running"] /\ facts' = TRUE
  /\ IF accepting
       THEN boot' = "launching" /\ runner' = "spawning" /\ UNCHANGED <<intent, owed, waiters, final>>
       ELSE boot' = "started" /\ Reserve("stopped") /\ Ensure(TRUE) /\ UNCHANGED runner
  /\ UNCHANGED <<accepting, asked, inbox, active, holds, calls, reports, res, end, torn, host, bounds>>

CreateFails ==
  /\ host = "up" /\ boot = "creating" /\ Broke
  /\ boot' = "failed"
  /\ UNCHANGED <<accepting, asked, intent, inbox, runner, slots, calls, final, report, disk, host, crashes>>

\* runner.start() resolves: a run that was ended meanwhile is stopped, another gets its
\* script, and fails if that cannot be sent.
Launched ==
  /\ host = "up" /\ boot = "launching" /\ runner = "spawning"
  /\ runner' = "up" /\ boot' = "started"
  /\ \/ intent # None /\ Ensure(TRUE) /\ UNCHANGED <<intent, owed, waiters>>
     \/ intent = None /\ UNCHANGED <<intent, owed, waiters, final>>
     \/ intent = None /\ RequestTerminal("failed")
  /\ UNCHANGED <<accepting, asked, inbox, active, holds, calls, reports, disk, host, bounds>>

\* runner.start() rejects: it could not be spawned, or a stop came before it was.
LaunchFails ==
  /\ host = "up" /\ boot = "launching"
  /\ runner \in {"spawning", "gone"}
  /\ boot' = "started" /\ runner' = "gone"
  /\ RequestTerminal("failed")
  /\ UNCHANGED <<accepting, asked, inbox, active, holds, calls, reports, disk, host, bounds>>

\* stop() by the Workflow tool.
Stop ==
  /\ host = "up" /\ boot \in {"launching", "started"} /\ fin # "settled"
  /\ intent = None \/ fin = None
  /\ Reserve("stopped") /\ Ensure(FALSE)
  /\ UNCHANGED <<service, inbox, runner, active, holds, calls, reports, disk, host, bounds>>

\* There is a run, or there will be one.
Runs == boot \in {"creating", "launching", "started"} /\ fin # "settled"

\* requestStopAll: no further runs, and an intent for the one there is; the rest of a stopAll
\* follows, or the stopAll that the caller goes on to.  One asked for while another is ending
\* the run only joins it.
RequestStopAll ==
  /\ host = "up"
  /\ accepting \/ (Runs /\ ~asked /\ fin = None)
  /\ accepting' = FALSE /\ asked' = Runs
  /\ IF boot \in {"launching", "started"} /\ fin # "settled"
       THEN Reserve("stopped") ELSE UNCHANGED <<intent, owed, waiters>>
  /\ UNCHANGED <<boot, inbox, runner, active, holds, calls, final, reports, disk, host, bounds>>

\* Mutant: the runs keep the intent they were given.
StopsNone == UNCHANGED <<intent, owed, waiters, final>>

\* stop() of the run, if there is one.
Stops ==
  IF boot = "started" /\ fin # "settled"
    THEN Reserve("stopped") /\ Ensure(FALSE) ELSE UNCHANGED <<intent, owed, waiters, final>>

\* The creations have ended: stopAll stops every run, once.
StopAll ==
  /\ host = "up" /\ asked /\ boot \notin {"creating", "launching"}
  /\ asked' = FALSE /\ Stops
  /\ UNCHANGED <<accepting, boot, inbox, runner, active, holds, calls, reports, disk, host, bounds>>

----------------------------------------
(* What the runner says                                                    *)

Heard(message) == tail' = Append(tail, message)
Listening == host = "up" /\ runner = "up" /\ ~seen /\ intent = None

\* agent(), phase() or log() in the script.
ScriptCalls(i) ==
  /\ Listening /\ i \in script.calls /\ pc[i] = "idle"
  /\ pc' = [pc EXCEPT ![i] = "asked"] /\ Heard(i)
  /\ UNCHANGED <<service, intent, seen, busy, script, runner, slots, cand, draft, handle, final, report, disk, host, bounds>>

ScriptEmits ==
  /\ Listening /\ script.emits > 0
  /\ script' = [script EXCEPT !.emits = @ - 1] /\ Heard("emit")
  /\ UNCHANGED <<service, intent, seen, busy, runner, slots, calls, final, report, disk, host, bounds>>

\* The script's end; it completes only with every call of its own answered.
ScriptEnds(status) ==
  /\ Listening
  /\ status = "completed" => \A i \in Agents : pc[i] \in {"idle", "refused", "done"}
  /\ seen' = TRUE /\ Heard(status)
  /\ UNCHANGED <<service, intent, busy, script, runner, slots, calls, final, report, disk, host, bounds>>

\* The process exits by itself: news only before a result was heard and an intent reserved.
RunnerExits ==
  /\ host = "up" /\ runner = "up" /\ runner' = "gone"
  /\ IF ~seen /\ intent = None THEN RequestTerminal("failed")
                               ELSE UNCHANGED <<intent, owed, waiters, final>>
  /\ UNCHANGED <<service, inbox, active, holds, calls, reports, disk, host, bounds>>

----------------------------------------
(* The queue of its messages                                               *)

Message == Head(tail)
Ready == tail # <<>> /\ ~busy
Handled == tail' = Tail(tail) /\ busy' = FALSE

\* A call that is refused: the run is ending, or the call is a duplicate, beyond the
\* limit, or has options that are none.  An answer that cannot be sent ends the run.
AgentRefused ==
  /\ host = "up" /\ Ready /\ Message \in Agents
  /\ pc' = [pc EXCEPT ![Message] = "refused"] /\ Handled
  /\ IF intent = None /\ runner = "gone" THEN RequestTerminal("failed")
                                        ELSE UNCHANGED <<intent, owed, waiters, final>>
  /\ UNCHANGED <<service, seen, script, runner, active, holds, cand, draft, handle, reports, disk, host, bounds>>

\* handleAgentStart up to the write that records the call.
AgentStarts ==
  /\ host = "up" /\ Ready /\ Message \in Agents /\ intent = None
  /\ pc' = [pc EXCEPT ![Message] = "registering"]
  /\ draft' = [draft EXCEPT ![Message] = "queued"]
  /\ busy' = TRUE
  /\ UNCHANGED <<service, intent, seen, tail, script, runner, slots, cand, handle, final, report, disk, host, bounds>>

\* The write publishes the whole draft.
Publish(agents) == rec' = [rec EXCEPT !.agents = agents]

\* WorkflowSemaphore.acquire.
Acquire(i) ==
  \/ /\ intent # None
     /\ pc' = [pc EXCEPT ![i] = "turned away"] /\ UNCHANGED slots
  \/ /\ intent = None /\ active < Slots
     /\ pc' = [pc EXCEPT ![i] = "granted"]
     /\ active' = active + 1 /\ holds' = holds \cup {i} /\ UNCHANGED waiters
  \/ /\ intent = None /\ active = Slots
     /\ pc' = [pc EXCEPT ![i] = "waiting"]
     /\ waiters' = Append(waiters, i) /\ UNCHANGED <<active, holds>>

\* The call is recorded and executeAgent begins.
Registered ==
  /\ host = "up" /\ busy /\ Message \in Agents
  /\ Publish(draft) /\ Acquire(Message) /\ Handled
  /\ UNCHANGED <<service, intent, seen, script, runner, cand, draft, handle, final, report, journal, host, bounds>>

\* A handler that throws ends the run; the call stays in the draft.
RegisterFails ==
  /\ host = "up" /\ busy /\ Message \in Agents /\ Broke
  /\ pc' = [pc EXCEPT ![Message] = "lost"] /\ Handled
  /\ RequestTerminal("failed")
  /\ UNCHANGED <<service, seen, script, runner, active, holds, cand, draft, handle, reports, disk, host, crashes>>

\* An emit writes the record unless the run is ending.
EmitWritten ==
  /\ host = "up" /\ Ready /\ Message = "emit"
  /\ IF intent = None THEN Publish(draft) ELSE UNCHANGED rec
  /\ Handled
  /\ UNCHANGED <<service, intent, seen, script, runner, slots, calls, final, report, journal, host, bounds>>

\* The append that fails may tear its row.
EmitFails ==
  /\ host = "up" /\ Ready /\ Message = "emit" /\ intent = None /\ Broke
  /\ Handled /\ RequestTerminal("failed")
  /\ torn' \in {torn, TRUE}
  /\ UNCHANGED <<service, seen, script, runner, active, holds, calls, reports, rec, res, end, facts, host, crashes>>

\* run_result: its handler waits for finalize, and asks once more if that fails.
ResultHandled ==
  /\ host = "up" /\ Ready /\ Message \in Terminal
  /\ Handled
  /\ IF intent = None THEN Reserve(Message) /\ Ensure(TRUE) ELSE UNCHANGED <<intent, owed, waiters, final>>
  /\ UNCHANGED <<service, seen, script, runner, active, holds, calls, reports, disk, host, bounds>>

----------------------------------------
(* executeAgent                                                            *)

\* The first result of a call stays its result.
Candidate(i, status) == IF cand[i] = None THEN status ELSE cand[i]

\* completeAgent up to its journal write.
Completes(i, status) ==
  /\ cand' = [cand EXCEPT ![i] = Candidate(i, status)]
  /\ draft' = [draft EXCEPT ![i] = Candidate(i, status)]
  /\ pc' = [pc EXCEPT ![i] = "journaling"]

\* What an error is once the run is ending.
Blamed == IF intent = None THEN "failed" ELSE "stopped"

\* The slot goes to the first of those left waiting.
Release(i, path, left) ==
  IF i \in holds /\ left # <<>>
    THEN /\ pc' = [path EXCEPT ![Head(left)] = "granted"]
         /\ waiters' = Tail(left)
         /\ holds' = (holds \ {i}) \cup {Head(left)} /\ UNCHANGED active
    ELSE /\ pc' = path /\ waiters' = left
         /\ active' = (IF i \in holds THEN active - 1 ELSE active) /\ holds' = holds \ {i}

\* A write of the run's own storage failed: the run ends, the call is left to finalize.
Lost(i) ==
  /\ RequestTerminal("failed")
  /\ Release(i, [pc EXCEPT ![i] = "lost"], <<>>)

\* A waiter that closing the semaphore rejected, or one that came too late.
TurnedAway(i) ==
  /\ host = "up" /\ intent # None /\ pc[i] \in {"waiting", "turned away"}
  /\ Completes(i, "stopped")
  /\ UNCHANGED <<service, intent, inbox, runner, slots, handle, final, report, disk, host, bounds>>

Granted(i) ==
  /\ host = "up" /\ pc[i] = "granted"
  /\ \/ intent # None /\ Completes(i, "stopped")
     \/ /\ intent = None
        /\ draft' = [draft EXCEPT ![i] = "running"]
        /\ pc' = [pc EXCEPT ![i] = "marking"] /\ UNCHANGED cand
  /\ UNCHANGED <<service, intent, inbox, runner, slots, handle, final, report, disk, host, bounds>>

\* The writes before and after createLocked; behind each the run may have ended.
Recorded(i) ==
  /\ host = "up" /\ pc[i] \in {"marking", "noting"}
  /\ Publish(draft)
  /\ \/ intent # None /\ Completes(i, "stopped")
     \/ /\ intent = None /\ UNCHANGED <<cand, draft>>
        /\ pc' = [pc EXCEPT ![i] = IF pc[i] = "marking" THEN "creating" ELSE "submitting"]
  /\ UNCHANGED <<service, intent, inbox, runner, slots, handle, final, report, journal, host, bounds>>

RecordFails(i) ==
  /\ host = "up" /\ pc[i] \in {"marking", "noting"} /\ Broke
  /\ Lost(i)
  /\ torn' \in {torn, pc[i] = "noting" \/ torn}
  /\ UNCHANGED <<service, inbox, runner, cand, draft, handle, reports, rec, res, end, facts, host, crashes>>

\* createLocked resolves, or rejects.
TeammateCreated(i) ==
  /\ host = "up" /\ pc[i] = "creating"
  /\ handle' = [handle EXCEPT ![i] = "open"]
  /\ pc' = [pc EXCEPT ![i] = "noting"]
  /\ UNCHANGED <<service, intent, inbox, runner, slots, cand, draft, final, report, disk, host, bounds>>

TeammateFails(i) ==
  /\ host = "up" /\ pc[i] = "creating"
  /\ Completes(i, Blamed)
  /\ UNCHANGED <<service, intent, inbox, runner, slots, handle, final, report, disk, host, bounds>>

\* handle.submit: a turn, or an admission that is none.
Admitted(i) ==
  /\ host = "up" /\ pc[i] = "submitting" /\ handle[i] = "open"
  /\ pc' = [pc EXCEPT ![i] = "working"]
  /\ UNCHANGED <<service, intent, inbox, runner, slots, cand, draft, handle, final, report, disk, host, bounds>>

NotAdmitted(i, status) ==
  /\ host = "up" /\ pc[i] = "submitting" /\ status # "completed"
  /\ Completes(i, status)
  /\ UNCHANGED <<service, intent, inbox, runner, slots, handle, final, report, disk, host, bounds>>

\* The turn settles; a result that breaks the step's schema is a failure.
TurnSettles(i, status) ==
  /\ host = "up" /\ pc[i] = "working"
  /\ Completes(i, status)
  /\ UNCHANGED <<service, intent, inbox, runner, slots, handle, final, report, disk, host, bounds>>

\* completeAgent threw: into executeAgent, or into finalize.
Thrown(i) ==
  IF fin = "leftovers"
    THEN FinalizeFails /\ pc' = [pc EXCEPT ![i] = "lost"] /\ UNCHANGED <<intent, owed, slots>>
    ELSE Lost(i)

\* loadFacts: a journal with a torn row cannot be read.
Readable == facts \/ ~torn

\* ensureAgentResult: once; a different result that is already there is refused.
Agrees(i) == res[i] \in {None, cand[i]}

Journaled(i) ==
  /\ host = "up" /\ pc[i] = "journaling"
  /\ IF Readable /\ Agrees(i)
       THEN /\ res' = [res EXCEPT ![i] = cand[i]] /\ facts' = TRUE
            /\ pc' = [pc EXCEPT ![i] = "storing"]
            /\ UNCHANGED <<intent, owed, slots, final>>
       ELSE Thrown(i) /\ UNCHANGED <<res, facts>>
  /\ UNCHANGED <<service, inbox, runner, cand, draft, handle, reports, rec, end, torn, host, bounds>>

\* An append that fails may have landed, or torn its row; the facts are forgotten.
JournalFails(i) ==
  /\ host = "up" /\ pc[i] = "journaling" /\ Readable /\ Agrees(i) /\ Broke
  /\ res[i] = None \/ ~facts
  /\ \/ res' \in {res, [res EXCEPT ![i] = cand[i]]} /\ UNCHANGED torn
     \/ res[i] = None /\ torn' = TRUE /\ UNCHANGED res
  /\ facts' = FALSE /\ Thrown(i)
  /\ UNCHANGED <<service, inbox, runner, cand, draft, handle, reports, rec, end, host, crashes>>

\* The result is recorded: the runner is answered and the slot given back.
Stored(i) ==
  /\ host = "up" /\ pc[i] = "storing"
  /\ Publish(draft)
  /\ Release(i, [pc EXCEPT ![i] = "done"], waiters)
  /\ UNCHANGED <<service, intent, inbox, runner, cand, draft, handle, final, report, journal, host, bounds>>

StoreFails(i) ==
  /\ host = "up" /\ pc[i] = "storing" /\ Broke
  /\ Thrown(i)
  /\ UNCHANGED <<service, inbox, runner, cand, draft, handle, reports, disk, host, crashes>>

----------------------------------------
(* finalize                                                                *)

RunnerStopped ==
  /\ host = "up" /\ fin = "stopping"
  /\ \/ runner' = (IF runner = None THEN None ELSE "gone") /\ UNCHANGED <<stuck, failures>>
     \/ Broke /\ stuck' = TRUE /\ UNCHANGED runner
  /\ fin' = "materializing"
  /\ UNCHANGED <<service, intent, inbox, slots, calls, again, report, disk, host, crashes>>

\* Mutant: what is being created is not waited for.
MaterializedOrNot == TRUE

\* No TeamMate is being created.
Materialized == \A i \in Agents : pc[i] # "creating"

\* materializations.drain(): every handle there will be is known.
HandlesKnown ==
  /\ host = "up" /\ fin = "materializing" /\ Materialized
  /\ fin' = "closing"
  /\ UNCHANGED <<service, intent, inbox, runner, slots, calls, stuck, again, report, disk, host, bounds>>

HandleClosed(i) ==
  /\ host = "up" /\ fin = "closing" /\ handle[i] = "open"
  /\ \/ handle' = [handle EXCEPT ![i] = "closed"] /\ UNCHANGED failures
     \/ Broke /\ handle' = [handle EXCEPT ![i] = "unclosed"]
  /\ UNCHANGED <<service, intent, inbox, runner, slots, pc, cand, draft, final, report, disk, host, crashes>>

\* Every close has settled; one that failed fails this attempt.
ClosesSettled ==
  /\ host = "up" /\ fin = "closing" /\ \A i \in Agents : handle[i] # "open"
  /\ IF \E i \in Agents : handle[i] = "unclosed"
       THEN /\ handle' = [i \in Agents |-> IF handle[i] = "unclosed" THEN "open" ELSE handle[i]]
            /\ FinalizeFails
       ELSE fin' = "draining" /\ UNCHANGED <<handle, stuck, again>>
  /\ UNCHANGED <<service, intent, inbox, runner, slots, pc, cand, draft, report, disk, host, bounds>>

\* runnerMessageTasks and agentTasks have nothing in flight.
Quiet ==
  /\ ~busy /\ \A k \in 1..Len(tail) : tail[k] \in Terminal
  /\ \A i \in Agents : pc[i] \in {"idle", "refused", "done", "lost"}

Drained ==
  /\ host = "up" /\ fin = "draining" /\ Quiet
  /\ fin' = "leftovers"
  /\ UNCHANGED <<service, intent, inbox, runner, slots, calls, stuck, again, report, disk, host, bounds>>

\* A call whose own write failed is completed here, under the result it has already.
Leftover(i) ==
  /\ host = "up" /\ fin = "leftovers" /\ pc[i] = "lost"
  /\ \A j \in Agents : pc[j] \notin {"journaling", "storing"}
  /\ Completes(i, "stopped")
  /\ UNCHANGED <<service, intent, inbox, runner, slots, handle, final, report, disk, host, bounds>>

\* Mutant: a call whose write failed counts as completed.
AllCompletedOrLost == \A i \in Agents : pc[i] \in {"idle", "refused", "done", "lost"}

AllCompleted == \A i \in Agents : pc[i] \in {"idle", "refused", "done"}

\* A runner that could not be stopped fails the attempt only now.
Completed ==
  /\ host = "up" /\ fin = "leftovers" /\ AllCompleted
  /\ IF stuck THEN FinalizeFails ELSE fin' = "ending" /\ UNCHANGED <<stuck, again>>
  /\ UNCHANGED <<service, intent, inbox, runner, slots, calls, report, disk, host, bounds>>

\* ensureTerminal.
EndJournaled ==
  /\ host = "up" /\ fin = "ending"
  /\ IF Readable THEN end' = intent /\ facts' = TRUE /\ fin' = "writing" /\ UNCHANGED <<stuck, again>>
                 ELSE FinalizeFails /\ UNCHANGED <<end, facts>>
  /\ UNCHANGED <<service, intent, inbox, runner, slots, calls, report, rec, res, torn, host, bounds>>

EndFails ==
  /\ host = "up" /\ fin = "ending" /\ Readable /\ Broke
  /\ end = None \/ ~facts
  /\ \/ end' \in {end, intent} /\ UNCHANGED torn
     \/ end = None /\ torn' = TRUE /\ UNCHANGED end
  /\ facts' = FALSE /\ FinalizeFails
  /\ UNCHANGED <<service, intent, inbox, runner, slots, calls, report, rec, res, host, crashes>>

Unlocked == [i \in Agents |-> IF handle[i] = "closed" THEN "unlocked" ELSE handle[i]]

\* The terminal record is written; the TeamMates are unlocked in the same step.
EndWritten ==
  /\ host = "up" /\ fin = "writing"
  /\ rec' = [status |-> intent, agents |-> draft]
  /\ handle' = Unlocked
  /\ fin' = IF owed THEN "delivering" ELSE "settled"
  /\ UNCHANGED <<service, intent, inbox, runner, slots, pc, cand, draft, stuck, again, report, journal, host, bounds>>

WriteFails ==
  /\ host = "up" /\ fin = "writing" /\ Broke
  /\ FinalizeFails
  /\ UNCHANGED <<service, intent, inbox, runner, slots, calls, report, disk, host, crashes>>

\* CompletionRouter's deliver() ends, whatever becomes of the report.
Delivered ==
  /\ host = "up" /\ fin = "delivering"
  /\ reports' = reports + 1 /\ owed' = FALSE /\ fin' = "settled"
  /\ UNCHANGED <<service, intent, inbox, runner, slots, calls, stuck, again, disk, host, bounds>>

----------------------------------------
(* The host dies; the next one recovers the records that say "running"     *)

Recovering == rec.status = "running"

Restarted ==
  /\ accepting' = TRUE /\ boot' = None /\ asked' = FALSE
  /\ intent' = None /\ seen' = FALSE /\ tail' = <<>> /\ busy' = FALSE
  /\ runner' = None
  /\ pc' = [i \in Agents |-> "idle"] /\ active' = 0 /\ holds' = {} /\ waiters' = <<>>
  /\ cand' = [i \in Agents |-> None] /\ draft' = [i \in Agents |-> None]
  /\ handle' = [i \in Agents |-> None]
  /\ fin' = None /\ stuck' = FALSE /\ again' = FALSE
  /\ owed' = TRUE /\ reports' = 0 /\ facts' = FALSE

\* An append is under way: a death leaves what was written of it.
Appending ==
  \/ host = "backfilling"
  \/ fin = "ending" \/ \E i \in Agents : pc[i] \in {"noting", "journaling"}
  \/ Ready /\ Message = "emit" /\ intent = None

Crash ==
  /\ crashes < MaxCrashes /\ crashes' = crashes + 1
  /\ Restarted
  /\ host' = IF Recovering THEN "reading" ELSE "up"
  /\ torn' \in {torn, Appending \/ torn}
  /\ UNCHANGED <<script, rec, res, end, failures>>

\* Mutant: a result that is in the record and in the journal is a contradiction.
ContradictedIfBoth(i) == res[i] # None /\ rec.agents[i] \in Terminal

\* A record the journal contradicts is an error of every attempt.
Unknown(i) == res[i] # None /\ rec.agents[i] = None
Contradicted(i) == res[i] # None /\ rec.agents[i] \in Terminal /\ rec.agents[i] # res[i]

\* journal.recover: the results it has ...
Adopted == [i \in Agents |-> IF res[i] # None THEN res[i] ELSE rec.agents[i]]
Active(agents) == {i \in Agents : agents[i] \in {"queued", "running"}}

RecoveryReads ==
  /\ host = "reading"
  /\ draft' = Adopted
  /\ host' = IF torn \/ \E i \in Agents : Unknown(i) \/ Contradicted(i) THEN "refused"
             ELSE IF end = None THEN "backfilling"
             ELSE IF Active(Adopted) = {} THEN "writing" ELSE "refused"
  /\ UNCHANGED <<service, intent, inbox, runner, slots, pc, cand, handle, final, report, disk, bounds>>

\* ... and those it lacks, before the end.
Backfills(i) ==
  /\ host = "backfilling" /\ i \in Active(draft)
  /\ res' = [res EXCEPT ![i] = "stopped"] /\ draft' = [draft EXCEPT ![i] = "stopped"]
  /\ UNCHANGED <<service, intent, inbox, runner, slots, pc, cand, handle, final, report, rec, end, torn, facts, host, bounds>>

EndBackfilled ==
  /\ host = "backfilling" /\ Active(draft) = {}
  /\ end' = "stopped" /\ host' = "writing"
  /\ UNCHANGED <<service, intent, inbox, runner, slots, calls, final, report, rec, res, torn, facts, bounds>>

Recovered ==
  /\ host = "writing"
  /\ rec' = [status |-> end, agents |-> draft]
  /\ draft' = [i \in Agents |-> None] /\ host' = "up"
  /\ UNCHANGED <<service, intent, inbox, runner, slots, pc, cand, handle, final, report, journal, bounds>>

\* A failed attempt is released; the next caller reads again.
RecoveryFails ==
  /\ host \in {"backfilling", "writing"} /\ Broke
  /\ \/ torn' \in {torn, host = "backfilling" \/ torn} /\ UNCHANGED <<res, end>>
     \/ \E i \in Active(draft) : host = "backfilling" /\ res' = [res EXCEPT ![i] = "stopped"] /\ UNCHANGED <<end, torn>>
     \/ host = "backfilling" /\ Active(draft) = {} /\ end' = "stopped" /\ UNCHANGED <<res, torn>>
  /\ draft' = [i \in Agents |-> None] /\ host' = "reading"
  /\ UNCHANGED <<service, intent, inbox, runner, slots, pc, cand, handle, final, report, rec, facts, crashes>>

----------------------------------------
AgentSteps(i) ==
  \/ TurnedAway(i) \/ Granted(i) \/ Recorded(i)
  \/ TeammateCreated(i) \/ TeammateFails(i)
  \/ Admitted(i) \/ \E s \in Terminal : NotAdmitted(i, s)
  \/ Journaled(i) \/ Stored(i)

QueueSteps == AgentRefused \/ AgentStarts \/ Registered \/ EmitWritten \/ ResultHandled

FinalSteps ==
  \/ RunnerStopped \/ HandlesKnown \/ ClosesSettled \/ Drained \/ Completed
  \/ EndJournaled \/ EndWritten \/ Delivered
  \/ \E i \in Agents : HandleClosed(i) \/ Leftover(i)

BootSteps == Created \/ Launched \/ LaunchFails

RecoverySteps ==
  \/ RecoveryReads \/ EndBackfilled \/ Recovered
  \/ \E i \in Agents : Backfills(i)

Next ==
  \/ Create \/ CreateFails \/ BootSteps \/ Stop \/ StopAll \/ RequestStopAll
  \/ ScriptEmits \/ RunnerExits \/ \E s \in Terminal \ {"stopped"} : ScriptEnds(s)
  \/ QueueSteps \/ RegisterFails \/ EmitFails
  \/ FinalSteps \/ EndFails \/ WriteFails
  \/ Crash \/ RecoverySteps \/ RecoveryFails
  \/ \E i \in Agents :
       \/ ScriptCalls(i) \/ AgentSteps(i)
       \/ RecordFails(i) \/ JournalFails(i) \/ StoreFails(i)
       \/ \E s \in Terminal : TurnSettles(i, s)

Spec == Init /\ [][Next]_vars

\* What is owed: the event loop, the disk and the processes answer; a turn settles once its
\* TeamMate is closed; a stopAll that was asked for stops every run once, and a run that it
\* could not end is left to whoever asks again.
Owed ==
  \/ BootSteps \/ StopAll \/ QueueSteps \/ FinalSteps \/ RecoverySteps
  \/ \E i \in Agents :
       \/ AgentSteps(i)
       \/ handle[i] # "open" /\ \E s \in Terminal : TurnSettles(i, s)

\* A run takes finitely many steps, so that each of them is taken if one always is.
FairSpec == Spec /\ WF_vars(Owed)

----------------------------------------
Boots == {None, "creating", "failed", "launching", "started"}
Paths ==
  {"idle", "asked", "refused", "registering", "turned away", "waiting", "granted", "marking",
   "creating", "noting", "submitting", "working", "journaling", "storing", "lost", "done"}
Ends ==
  {None, "stopping", "materializing", "closing", "draining", "leftovers", "ending", "writing",
   "delivering", "settled"}

TypeOK ==
  /\ accepting \in BOOLEAN /\ boot \in Boots /\ asked \in BOOLEAN /\ intent \in Results
  /\ seen \in BOOLEAN /\ tail \in Seq(Agents \cup {"emit"} \cup Terminal) /\ busy \in BOOLEAN
  /\ runner \in {None, "spawning", "up", "gone"} /\ script \in [calls : SUBSET Agents, emits : Nat]
  /\ pc \in [Agents -> Paths]
  /\ active \in Nat /\ holds \subseteq Agents /\ waiters \in Seq(Agents)
  /\ cand \in [Agents -> Results] /\ draft \in [Agents -> Marks]
  /\ handle \in [Agents -> {None, "open", "closed", "unclosed", "unlocked"}]
  /\ fin \in Ends /\ stuck \in BOOLEAN /\ again \in BOOLEAN
  /\ owed \in BOOLEAN /\ reports \in Nat
  /\ rec \in [status : {"running"} \cup Results, agents : [Agents -> Marks]]
  /\ res \in [Agents -> Results] /\ end \in Results /\ torn \in BOOLEAN /\ facts \in BOOLEAN
  /\ host \in {"up", "reading", "backfilling", "writing", "refused"}
  /\ failures \in Nat /\ crashes \in Nat

\* A terminal record is what the journal holds: the same end, every recorded call settled,
\* and no result the journal has under another status (run.ts:796-802, journal.ts:118-142).
TerminalAsJournaled ==
  rec.status \in Terminal =>
    /\ end = rec.status
    /\ \A i \in Agents :
         /\ rec.agents[i] \in Results
         /\ res[i] # None => rec.agents[i] = res[i]

\* Behind the closes no TeamMate of the run is open or still being created, and a run that
\* has settled holds no runner, no slot, no waiter and no locked TeamMate.  Until then the
\* semaphore's count is the calls that will give a slot back, and no call runs without one.
NothingOutlivesTheRun ==
  /\ active = Cardinality(holds) /\ active <= Slots
  /\ \A i \in Agents :
       pc[i] \in {"granted", "marking", "creating", "noting", "submitting", "working"} => i \in holds
  /\ fin \in {"draining", "leftovers", "ending", "writing", "delivering", "settled"} =>
       \A i \in Agents : handle[i] # "open" /\ pc[i] # "creating"
  /\ fin = "settled" =>
       /\ runner \in {None, "gone"} /\ active = 0 /\ waiters = <<>>
       /\ \A i \in Agents : handle[i] \in {None, "unlocked"}

\* One report per run, none of a run its initiator stopped, and none before the record
\* says what is reported.
ReportedOnceAndTruly ==
  /\ reports <= 1
  /\ reports = 1 => intent \in {"completed", "failed"} /\ rec.status = intent
  /\ fin = "settled" /\ intent # "stopped" => reports = 1

\* A stop of the whole scope, which stops its run once (index.ts:239-247), ends that run if
\* nothing fails from there on, whatever failed before, unless the journal became unreadable.
StopAllEnds ==
  \A n \in 0..MaxFailures :
    (host = "up" /\ asked /\ Runs /\ fin = None /\ failures = n)
      ~> (fin = "settled" \/ accepting \/ failures > n \/ torn)

\* A record left running is converted by the next host (index.ts:252-286), unless the journal
\* has a torn row or the result of a call that the record never named.
Unheard == \E i \in Agents : res[i] # None /\ rec.agents[i] = None
RecoveryEnds == (host # "up") ~> (host = "up" \/ Unheard \/ torn)

\* No run is left behind: by a stop of its scope, or by the death of its host.
RunsEnd == StopAllEnds /\ RecoveryEnds

\* "startup first adopts an already-committed terminal journal fact when present and
\* otherwise converts a leftover `running` record to `stopped`"
\* (.agents/domains/state-config-and-files.md:434-436).  Of a journal without a torn row.
RecoveryConverts == ~torn => host # "refused"
========================================
