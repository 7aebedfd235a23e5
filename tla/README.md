# A formal model of dreamux

dreamux is a host process that runs coding agents. It keeps *dispatchers*; a
dispatcher has an agent of its own, TeamMates, Teams with a leader and members,
scheduled prompts and Workflows, and it talks to people through *Channels*
(Feishu). Each agent owns at most one *native runtime* at a time, a Codex
app-server or a Claude Code process. The host is one JavaScript event loop:
nothing runs in parallel, but everything interleaves at every `await`, and most
of the code exists to keep a promise across such an interleaving: *one runtime
per agent*, *nothing left running after a close*, *a message becomes one turn*,
*a result is reported once*. This directory states those promises, checks them
with TLC and proves the central ones with TLAPS.

Contents: [inventory](#inventory), [how the models are made](#how-the-models-are-made),
[the modules](#the-modules), [the runs](#the-runs), [the proofs](#the-proofs),
[where the code and its text part](#where-the-code-and-its-text-part),
[what is not modelled](#what-is-not-modelled), [plan](#plan).

## Inventory

Paths are below `src/packages/dreamux/src/service/` unless they say otherwise.

| Component | State | Operations | Talks to |
| --- | --- | --- | --- |
| **Agent entity** `agent/service.ts`, `runtime-generation.ts`, `runtime-state.ts` | phase, Workflow lock, host stop, runtime and its start flight, generation lease, retained turns, admission tail | submit, activate, accept a push-back, lock, unlock, stop for the host, close | runtime provider, identity store, completion router, MCP leases |
| **Record store** `dreamux-utils/transactional-store.ts`, `agent/store.ts` | file, committed value, FIFO, load in flight | load, update, create, replace, remove | file system |
| **Admission ledger** `agent/admission.ts` | committed keys of a window, pending tasks | admit | entity |
| **Completion router** `completion-router/index.ts` | token → delivery, a queue per recipient | deliver, prepare, submit with retries and a timer | the recipient entity |
| **TeamMate collection** `agent/index.ts` | live services by name, services being built, services being reopened | spawn, send, close, sweep | entities, identity store |
| **Dispatcher lifecycle** `dispatcher-service/lifecycle.ts`, `channel-service/index.ts` | start and close tasks, work fence, sessions and their Core ports | start, close, retry of a failed release | everything above |
| **Scheduler** `scheduler/index.ts`, `scheduler/store.ts` | job rows, timers, running, lifecycle generation | create, update, delete, fire, settle, start, stop | record store, owner's agent |
| **Team** `team/service.ts`, `team/index.ts`, `team/store.ts` | Team record, leader, members, worktree, dissolve task | create, rebuild, submit, dissolve, clean up | entities, worktrees, Channel |
| **Workflow** `workflow-service/` | runs, runner process, agents' results, slots, journal | create, run agents, stop, finalize, recover | entities (locked), router |
| **Runtimes** `agent-runtime/codex`, `agent-runtime/claude-code` | native session, submissions, process, transcript | start, submit, settle, interrupt, restart, stop, read pages of what happened | child process, transcript files |
| **Feishu Channel** `channel/feishu-channel` | routes, access lists, question rounds, reasoning cards, inbound work | receive, gate, route, provision, ask, reply, draw | Feishu transport, Core port |
| **MCP leases, shim, server** `mcp/leases.ts`, `src/mcp/` | tokens of runtime generations, a deadline in each shim | mint, list, invoke, release | shims over the admin socket |
| **Command bus, requests** `src/command/`, `src/admin/`, `*/requests.ts`, `*/commands.ts` | a frozen table of Commands with their schemas | validate, parse, run, answer | everything |
| **Worktrees** `worktree/manager.ts`, `worktree/workspaces.ts` | git worktrees on disk, branches, the records that own them | prepare, assess, remove | git |
| **Conversation events** `dispatcher-core-events/`, `agent/conversation-projection.ts` | sources of Channel sessions, listeners, rosters | subscribe, publish, revoke | entities, Channels |
| **Configuration** `src/config/`, `src/registry/` | file, configuration in memory, registry of providers | load, read with secrets left out, replace | Command bus |
| **Plugins** `src/plugin/` | APIs, taps, hooks of a launch | load, start, publish, compose a launch | runtimes |
| **Host** `dispatchers/`, `server.ts`, `platform/instance-lock.ts`, `dispatcher-service/restart-intent.ts` | running dispatchers, pid file, socket, restart notice | start, shut down, restart | everything |
| CLI, daemon, onboarding | one-shot commands | | |

What is hard in each of them, and what has to hold:

* *Agent entity.* A start, a rollback, a host stop and a close can all be under
  way at once, with submissions at any point of their path. No runtime may be
  orphaned; MCP tokens go before the teardown and the state lease after it; a
  stopped turn is nobody's news; a Workflow's lock excludes ordinary work; a
  close ends and leaves nothing.
* *Record store.* Reads are not in the FIFO of changes. A change must be
  applied to what the one before it left, and an answered change must survive.
* *Admission ledger.* A repeat can come before, while and after the first is
  admitted, after it has failed, and after it fell out of the window.
* *Completion router.* Several paths report one settlement, attempts are
  repeated, and a submission given up by its timer can still take effect.
* *TeamMate collection.* Several calls resolve one name at once, some of them
  reopening it, while the dispatcher sweeps.
* *Dispatcher lifecycle.* The close may meet a start at any step, and admitted
  work that waits for a runtime the close must stop first.
* *Scheduler.* Fires, misses, edits, starts and stops settle through one queue
  in an order nobody chose, and the wall clock can be set back.
* *Team, Workflow.* Multi-step creation and dissolution over several records
  and entities, with process deaths in between; a runner that finishes, fails,
  is stopped or exits, all at once.
* *Runtimes.* Notifications overtake the responses of the requests they belong
  to; a child dies while it is being replaced; an idle timer races a late
  result; a page of a transcript is asked for after the transcript has changed.
* *Feishu.* Every await may come back into a closed session; expiries race
  clicks; messages are planned against routes that are being changed; a card
  has to say its last word last.
* *MCP.* A call outlasts its shim's deadline, its runtime, its Team or the
  server.
* *Command bus.* The same operation is reached by two surfaces with a schema
  each, then by rules of its own, then written to a record that is read later
  with a rule of its own.
* *Worktrees.* A name is drawn from a scan of records that changes before it is
  used, and a checkout may get work between the assessment and the removal.
* *Conversation events.* Listeners subscribe and unsubscribe others in the
  middle of a delivery; an input is announced before it is admitted.
* *Configuration, plugins.* A replacement may fail at each of its steps; a tap of
  one plugin may fail a launch that other plugins take part in.
* *Host.* Two processes start at once, one dies at any step, and what they leave
  on the disk has to be told from what a living one holds.
* *Records.* A restarted process finds the records of a dispatcher, a Team and its
  leader as a death between two writes left them, or as a person edited them.

`PROJECT.json` lists each hazard at the line where it bites, with the
properties that would show it going wrong.

## How the models are made

**Atomicity.** JavaScript runs to completion between awaits. One action is the
code between two awaits of something outside: the disk, a process, a timer, a
request. A promise that is already settled continues in the microtask queue,
before the next outside event: the modules that need this keep such
continuations as steps of their own and guard the outside events with the
absence of one (`Quiet` in AgentEntity, the pc `"resolved"` in
TeammateCollection), so that calls from other components may come between
continuations but the disk may not.

**Failure.** Every write, start, stop, submission and release that can fail in
the code can fail in the model, unless the table of bounds below says otherwise.
A process death is modelled where something persists.

**Data.** Payloads are gone. A value of a record is the set or sequence of
changes it holds; a message is the submission that carries it; time is an
instant of the cron grid.

**Mutants.** Definitions headed "Mutant:" are plausible bugs: each is what the
definition after it would be if the code were wrong in one place. Replacing that
definition by its mutant breaks a property of a run; they are not used otherwise.

## The modules

`Dispatcher`, `Runtimes` and `Edges` put modules that share no state side by side: a step of theirs
is a step of one part. The theorems about them are about that whole; the MC modules run
the parts one at a time, the others resting, which is enough as no part sees another.

| Module | Models | Abstract specification | Run by |
| --- | --- | --- | --- |
| AgentEntity | the entity and its runtime generation | | MCAgentEntity, MCHost |
| ConversationEvents | what Channel sessions are told | | MCAgentEntity |
| CompletionRouter | reports and their delivery | | MCParts |
| TransactionalStore | the record store | SerialStore | MCEdges, MCParts |
| AdmissionLedger | the duplicate window | | MCEdges |
| TeammateCollection | one name of the collection | | MCTeam, MCParts, (itself) |
| DispatcherLifecycle | start and close of a dispatcher | | MCTeam, MCParts |
| Team | one Team name | | MCTeam |
| ToolCalls | a tool call from shim to owner | | MCTeam |
| Checkouts | the TeamMates' managed worktrees | | MCTeam |
| CronScheduler | one scheduled job | | (itself) |
| WorkflowRun | one Workflow run | | MCWorkflowRun |
| CodexRuntime | the Codex app-server process | | MCEdges |
| CodexTurns | the turns of a Codex session | RuntimeContract | MCEdges, MCParts |
| ClaudeSession | the Claude Code session | RuntimeContract | MCEdges |
| CodexActivity, ClaudeActivity | reading back what a session did | | MCEdges |
| FeishuSession | a Channel session and its questions | | MCEdges, MCParts |
| FeishuRouting | routes, provisioning, delivery | | MCEdges, MCParts |
| FeishuAccess | who may speak | | MCEdges |
| FeishuCards | reasoning cards | | MCEdges, MCParts |
| HostProcess | the processes of one machine | | MCEdges |
| PluginHost | plugins and the launch of an agent | | MCHost |
| HostConfig | configuration and its replacement | | MCHost |
| CommandSurfaces | Commands and tools over one set of operations | | MCHost |
| JsonBoundary | what crosses as JSON, and schemas | | MCHost |
| RecordRecovery | what a restarted process makes of records | | MCHost |
| Dispatcher | Team, TeammateCollection, DispatcherLifecycle, ToolCalls, Checkouts side by side | | MCTeam |
| Runtimes | CodexRuntime, CodexTurns, ClaudeSession and FeishuCards side by side | | MCEdges |
| Edges | Runtimes with the rest of the Channel, the processes, the ledger, the store and the readings | | MCEdges |
| AgentEntityProofs, CompletionRouterProofs, CronSchedulerProofs, WorkflowRunProofs, TransactionalStoreProofs, DispatcherProofs, RuntimesProofs, EdgesProofs | theorems | | |

### AgentEntity

One `AgentService` with the `RuntimeGeneration` and the leased state store it
owns. The runtime provider is external and is given the contract that
`dreamux-types/src/agent-runtime.ts` states: `stop()` fences later `submit()`
calls at once, resolves after every earlier one has, and settles what was
accepted; it may also reject, which leaves the runtime "stuck". Like Codex's, the
first `stop()` of a runtime that still has its lease queues a last word and resolves
only when that is written or refused (`LastWord`, "ending"); a stop that is asked once
more ("again") may find the lease gone and has nothing to say.

| Model | Code |
| --- | --- |
| `phase`, `locked`, `stp["host"]`, `stp["close"]` | `phase`, `lockToken`, `hostStop`, the close's task |
| `live`, `start`, `prov[g]` | `RuntimeGeneration.live`, `starting`, the native runtime of generation g |
| `authority`, `mcp` | the current lease of `runtime-state.ts`, the held MCP tokens |
| `WriteBegins`, `Refused` | the change callback of a queued write, which asks for the lease once more |
| `op[o]`, `line` | a submission on its way, `admissionContinuationTail` |
| `writes`, `durable` | the FIFO of the identity store; is the record closed? |
| `Enter`, `EnterLocked`, `Admit`, `Attach`, `React`, `ReportEnds` | `submitInput`/`activate`, `submitLocked`, `submitAdmitted`, `attachSubmission`, the settlement and its report |
| `StopFirst`, `StopJoined`, `StopSecond`, `AfterStop` | `stopRuntime`: stop, join the start, stop what it produced |
| `Close`, `AdmissionsDrained`, `MutationsDrained`, `Converged`, `CleanedUp`, `CloseWritten` | `closeAuthorized`, `transitionToClosed`, step by step |

Left out: `interrupt`, and results that a runtime sends to a recipient of its own
(service.ts:415-425). What displays are told is ConversationEvents; the worktree
that a reopen prepares is Checkouts.

### SerialStore and TransactionalStore

`TransactionalStore` is the code: a load with its own flight, a FIFO in which
update and remove load first, a write that is a rename, the swap of the value in
memory, `afterCommit`, and a process death anywhere. `SerialStore` is what the
callers rely on: operations take effect one at a time in the order they were
asked for, each on the value the one before left, on disk before the answer. The
refinement mapping sends the file to the abstract value and the control point of
an operation to asked, committed or answered; `SerialSpec` is checked as a
property.

### AdmissionLedger, CompletionRouter

`AdmissionLedger` is `admit()` with its window, joined repeats, and the
continuation that releases or commits a key as a step that others can come
before. `CompletionRouter` is folding, the queue of each recipient, preparation,
attempts and the timer; `Take` and `TakeLate` are a recipient's decision, which
may come before the answer, or after the timer gave up. The two share nothing.

### TeammateCollection

The collection at one name: `entities` (the live map), `flight` (a record being
materialized), `reopening`, and the calls that resolve the name. An entity is
reduced to what the collection sees of AgentEntity. `Sweep*` and `Drained` are
the close of the dispatcher over it: stop what is held, wait for admitted work,
stop again. Any send's intent may fail to be written; that of a send that reopens
only with `ReopenWritesFail`, as its failure loses the runtime it started.

### DispatcherLifecycle

The start (workspace, sessions built, initialized, agent recovered and
activated, sessions opened one by one, door opened), the close that may meet it
at any step, the failed start that runs the same close, and failed releases that
are retried. Sessions have a Core port that a close fences.

### CronScheduler

One job as the store, the timer table and the fires under way see it. The
store's queue holds the operations of this job; those of others are the time
that passes between two steps. `TimerFires` is `dispatchAdmitted` and
`dispatch` up to the submission, `Accepted` and `Refused` are its answer,
`FiredCommits` and `MissCommits` are `rearm` at the moment the store makes the
change. Any write may fail. That of a miss is only logged (`index.ts:272-281,
303-310`) and that of a delete is behind the timer it has cleared: either leaves the
job as it was and without a timer, which `lost` tells until an edit, a fire or a
start arms it. The properties name this exception, and `DueIsAnswered` holds for no
job that is in it.

### WorkflowRun

One run: the service's side (`run.ts`), the runner process, the locked TeamMate
of each agent call, the slots, the record and the journal, and the recovery of
the record by the next host.

| Model | Code |
| --- | --- |
| `boot`, `accepting` | `createRun` and `start()`; does the service still take runs? |
| `intent`, `fin`, `stuck`, `again` | `terminalIntent`; `finalize` step by step; did `runner.stop()` fail; does a caller ask for it once more |
| `seen`, `tail`, `busy`, `script`, `runner` | `runnerTerminalMessageSeen`, `runnerMessageTail`, its head waiting, what the script may still do, the process |
| `pc[i]`, `active`, `holds`, `waiters` | `handleAgentStart` and `executeAgent`; `WorkflowSemaphore` |
| `cand`, `draft`, `handle` | `resultCandidate`, `record.agents` in memory, the locked TeamMate |
| `rec`, `res`, `end`, `torn`, `facts` | `record.json`; the results and the end in `journal.jsonl`, and whether it has a torn row; `WorkflowJournal.facts` |
| `asked`, `Stops` | a `stopAll` on its way to `run.stop()`, once per run |
| `owed`, `reports` | the recipient, and what it was told |
| `host`, `Recovery*`, `Backfills` | `recover()` of the journal and the record of a run left over |

The order of the store's queue is not kept: every write publishes the run's one
draft. A failed append to the journal, or a death amid one, leaves the row, a part of
it or nothing. A torn row (one that only lacks its newline counts: the next row
continues it) makes the whole journal unreadable (`journal.ts:261-270`): the run goes
on with the facts it holds in memory until a failed result or end drops them, and
from then on cannot end; a later host refuses the run. `RunsEnd` names this
exception, and speaks of a `stopAll`, which stops each run once
(`index.ts:239-247`; one asked for meanwhile joins it), from the last failure on: a
run that such a failure left unended waits for whoever asks again. A TeamMate of a run is a
locked AgentEntity; here it is being created, open, closed or unlocked.

### Team

One name of a dispatcher, and whoever calls upon it: creates, turns for the
leader, dissolves, the two sweeps of a close, the reclaim at start-up, and
process deaths.

| Model | Code |
| --- | --- |
| `life[s]` | construction, tenure and abandonment of a TeamService (`team/index.ts` `constructing`, `live`, `starting`) |
| `made[s]` | was its checkout made by this creation, found, or borrowed |
| `lead[s]` | its leader, as the Team sees it: none, idle, up, being stopped, stopped, being closed, closed, stuck |
| `end[s]` | the steps of `dissolve` and `cleanup` |
| `rec`, `checkout`, `forced` | `record.json`; the worktree on disk; has a dissolve with force taken effect |
| `asking`, `elsewhere` | the request id of each create; the Teams published for it at other names |
| `pc`, `at` | where a call stands, and with which service |
| `host`, `sweep`, `redo` | the dispatcher's start and close, what a sweep still owes a service, the reclaim of closed Teams |

Names are drawn at random, so of every other name only the Teams published there
are counted; a name that is taken is taken for good. The queue of the store is
not kept: each write merges its own fields onto what it finds. `Quiet` says that
no call stands between getting its Team and deciding what to do with it: nothing
outside can come between these. The `keep` policy and unmerged work are in Checkouts;
members, schedules and Workflows of a Team are modules of their own. Left out: titles.

### ToolCalls

A tool call on its way: the shim and its deadline, the request on the admin
socket, the lease registry, the owner's admission, beside the teardown of the
generation that was given the tools, the dissolve of its Team and the shutdown
of the server. The one agent is a dispatcher's, a Team's leader or a member.

| Model | Code |
| --- | --- |
| `agent`, `gen`, `current`, `stop` | the runtime, its generations, the state lease, a stop under way |
| `tokens`, `shims` | `mcp/leases.ts` tokens by generation; the shim processes that hold one |
| `pc`, `call`, `fenced`, `work` | where a call stands, what it asks, is it counted by the fence of its owner |
| `answer`, `heard` | what the server answered, what the agent heard of it |
| `team`, `stage` | the Team's dissolve, the server's shutdown |

### Checkouts

Two names, one repository: prepare, assess, remove, assess again, and the record
that says who owns a checkout. Git and the people who work in a checkout are
external: git refuses a branch another worktree has, and a removal with work in it;
`Meddles` changes a checkout at any moment. A spawn draws its name from a scan and may
find a record under it when it writes its own; a send and a reopening that find the
record being materialized join that (`agent/index.ts:862`).

### ConversationEvents

The bus of a dispatcher: sources with their leases (`sources`), listeners
(`listeners`, `snap`, `due`), facts in order (`log`), the inputs projected on it, the
states of agents and the roster their Team reports. `heard` is what each listener
was given.

### RuntimeContract, CodexTurns, CodexRuntime, ClaudeSession

`RuntimeContract` is what `AgentEntity` relies on: a submission is refused, or
accepted and settled once; behind a resolved stop nothing is accepted and
nothing is unsettled. `CodexTurns` is `turn-manager.ts` with its decisions in
sequence, native turns, and frames that overtake responses; `CodexRuntime` is
the process, its start, restart, stop and state fence; `ClaudeSession` is both
for Claude Code, with the idle timer. The two that take submissions implement
the contract through a refinement mapping.

`TimerFires` of CodexRuntime waits for the start to be over: the first backoff (one
second) outlasts what is left of a start that has lost its child, whose cleanup
clears the timer.

### CodexActivity, ClaudeActivity

A page of a transcript, its cursor, and the pages behind it, while the session is
written, continued in another file (Codex) or rewritten (Claude Code: snips, branches,
parallel tools). A line is a record with its type and id; an offset is a number of lines.

### FeishuSession, FeishuRouting, FeishuAccess, FeishuCards

Four faces of a Channel that meet only in the work that is tracked. FeishuSession:
boot, close and teardown overlapping, questions with their clicks and timers.
FeishuRouting: the routing document changed by one queue of jobs, messages planned
against what is committed. FeishuAccess: the gate, the prompt, the approval and the
expiry as separate turns of `access.json`. FeishuCards: the anchor, the outbox of a
card and the one writer that empties it in batches.

### HostProcess

Processes of `dreamux serve`: pidfile (created, then filled), admin socket, restart
marker, signals and their deadline, deaths. The marker is read before the lock is
taken, as in the code.

### PluginHost, HostConfig

PluginHost: loading in order, servers and their APIs, taps, and a launch that
collects what taps contribute while skill roots become readable or not.
HostConfig: the file, the configuration in memory, the registry of providers, and
two clients that read with secrets left out and replace.

### CommandSurfaces, JsonBoundary

CommandSurfaces is a table: for every Command and every tool its fields with what
the schema admits, what the readers accept, what the record keeps and how it
answers; then a call goes through it. A call deviates in at most one field, which
is enough as no schema looks at two fields together. JsonBoundary is what comes
before: a value as a graph of two nodes, validated, serialized and read back, then
held against a schema that was proven well formed.

### RecordRecovery

One dispatcher and one Team name: the records of its agent, its Team and the
leader, each absent, good, unreadable or of an older form, and what a start makes
of them: an agent resumes its session, or begins anew, for a reason. The one reason
a running agent has is a restart of its Codex that cannot resume the thread: it
publishes the loss, which keeps the id in the record, and then the thread it made
instead (`SessionLost`, `Replaced`); a stop or a death between the two leaves the
lost id, and the next start goes by that. A start never falls back (`Resumed`).

## The runs

The parts of an MC module share no state: a behaviour is one of them, which
keeps the number of runs small without losing an interleaving, for the parts have
none with each other. Each property is a conjunction that names what each
part must keep; a type invariant of each part is one of its conjuncts.

| Run | Property | What it says |
| --- | --- | --- |
| `entity_safety` | `RuntimeIsHeld`, `McpGoneBeforeTeardown`, `LastWordBeforeRevoke` | no orphaned runtime; tokens go before the teardown; the lease outlives `stop()`, so its last word lands, and no write queued before the revoke begins after it |
| | `LockExcludesMutation`, `NoReportOfStoppedTurn`, `ClosedMeansGone` | a Workflow's lock excludes; a stopped turn is not reported; a closed entity owns nothing, and is not evicted earlier |
| | `DisplaysAreTold` | listeners hear every fact in order and once, none behind the revoke; a display that was opened ends; the roster is true |
| `parts` | `NewsReadOnce` | a recipient reads one settlement once |
| | `HostSettles` | reports, closes of a collection and of a dispatcher, and changes of a record end |
| | `EdgesSettle` | a runtime's stop, a card, a message, and a Channel session's boot, close and questions end |
| `scheduler` | `ArmedAsRecorded`, `AcceptedIsRecorded` | the timer is what the row says, or none where a miss or a delete was not written, and none after a stop; an accepted submission is in the row if no write failed |
| | `SubmittedOnceIfTaken`, `DueIsAnswered` | nothing is submitted twice unless a submission was refused or a write failed; a due job comes to rest, or waits unarmed because its miss was not written |
| `workflow` | `TerminalAsJournaled`, `ReportedOnceAndTruly` | the terminal record holds what the journal holds; one report, and a true one |
| | `NothingOutlivesTheRun`, `RunsEnd` | no TeamMate, runner or slot is left; a stop of the scope and a recovery end if no later failure and no torn row prevents it |
| `team` | `OneTeamOneOwner`, `ClosedStaysClosed` | one Team per request id, one owner of a record; closed is final, and no tool starts anything in it |
| | `RuntimesAreSwept`, `ClosedHostRunsNothing` | one runtime per name, none behind a close, if the intent of a send that reopens is written; a closed host runs no Team, session or agent |
| | `RevokedToolsAreGone` | a token has no authority behind the beginning of its teardown, and never gets it back |
| | `WorkIsSafe` | a Team's checkout outlives who works in it; no call removes work or takes a record over; what is recorded as deleted is gone |
| | `DissolvesAndClosesEnd` | dissolves and closes end |
| `edges` | `RuntimesAreAccounted`, `SubmittersHearTheEnd`, `RuntimesKeepTheContract` | children, deadlines and turns of both runtimes, and the types of their states; CodexTurns and ClaudeSession implement RuntimeContract |
| | `PagesTellWhatHappened` | pages of a transcript neither skip nor repeat, and tell the truth |
| | `CardsTellTheTurn`, `RoutesHaveOneOwner`, `ClosedSessionIsQuiet` | cards in order and to their end; one owner of a conversation, one Team for it; nothing behind a session's end |
| | `AnsweredOnce` | one recipient of a message, one outcome of a question, one turn of a source, one story per sender |
| | `OneServerAnswers` | the one that serves is the one the socket reaches; a restart notice is given to one boot |
| | `SerialSpec` | the record store implements SerialStore, and memory is what is on disk |
| `host` | `SurfacesAgree` | a caller is told its mistakes and no others; an accepted record can be read back; a tool takes no more than its Command; JSON is refused for what it is |
| | `PluginsAreIndependent`, `ConfigurationIsOne` | a failure blames its plugin and a launch takes a tap as a whole; file, memory and the next start agree, secrets stay with their agent |
| | `AgentsResumeTheirOwn` | an agent resumes a session of its own or none, and gives one up only if it was moved, its Team is gone, or its live runtime reported it lost and replaced it |
| | `EntitySettles` | closes, host stops and submissions of an entity end |

Five more runs each show the code and its text part; see
[below](#where-the-code-and-its-text-part).

**Instances.** They are chosen so that each case that the properties tell apart happens.

| Part | Instance |
| --- | --- |
| entity | two submissions of any kind but `activate`, which differs from `send` only in what it answers (in `host`, one of any kind); two stops, so that a close follows a host stop or repeats a failed close; one queued write |
| events | two Channels, three listeners, two facts begun; subscriptions change once |
| store | `edges`: an update, a no-op, a remove and a create; `parts`: three operations. One death |
| ledger | three repeats and one other source, a window of one: enough for evict-and-repeat |
| router | three reports, two with one token; two recipients; three attempts |
| collection | a spawn, two sends, a close (in `parts`, one send); three services |
| lifecycle | three Channels, so that one is before, at and behind the step that fails; two failures; two commands |
| Team | two creates of one request id or of two, one turn, one dissolve; two services; one mishap |
| tools | one call of four tools, one for each way of admission; two generations of the runtime |
| checkouts | two names, two calls at a time of three in all; one shared branch; one mishap |
| scheduler | three instants of a grid of period one, a clock set back once, two edits, two fires under way, one failed write of any kind |
| Workflow | a script of two calls and one that calls and logs; one slot, so that one call waits; two failures, so that a clean-up fails as well as what it cleans up; one death; torn rows |
| Codex | three children; three submissions (two in `parts`) on two native turns |
| Claude Code | two submissions, two sessions |
| activity | three lines in several files (Codex), five in one (Claude Code); pages of one record, windows of two and four lines |
| Channel | one question, two clicks; two messages, one topic, one Team by hand, two provisioned (one in `parts`), two edits (one in `parts`); two senders, two tokens, one of them pending; two cards of room two (one in `parts`) |
| processes | two runs of the program, one restart |
| plugins | two plugins, three roots of skills, two of which share a skill; two changes of what is readable |
| configuration | two clients, two agents, one secret, four provider refs of every kind |
| surfaces | every Command and tool, every field, every class of value |
| boundary | graphs of two nodes; depth and size at, below and above the limit |
| records | one runtime, which replaces sessions it loses, two working directories, two leaders, two Teams at one name, two mishaps |

**Bounds that exclude something the code can do:**

* `EagerReaders = FALSE` (store): nobody loads a record while its first `create`
  is under way. With TRUE, `load()` can overwrite a committed create in memory;
  the owners in this repository create before anybody loads.
* `CloseMayPrecedeBuild = FALSE` (lifecycle): no close before the sessions are
  published. With TRUE, a close that completes during `channels.build()` leaves
  the sessions built after it open. The CLI installs its signal handlers after
  the start, so only a direct caller of `Server.shutdown()` can do it.
  ConversationEvents has the same bound: publishing would make a source behind the revoke.
* `ReopenWritesFail = FALSE` (collection): the write of an intent does not fail for the
  send that reopens; any other may. With TRUE both halves of `RuntimesAreSwept` are false:
  the finding `collection_lost_reopen`.
* `EditsWhileStarting = FALSE` (scheduler): `start()` arms the rows it has listed
  once all of them are reconciled. With TRUE, a job created meanwhile is not
  armed until the next start, although `scheduler/mcp.ts:111` promises a due job
  its submission.
* `MaxMishaps = 1` (team, checkouts): failures and process deaths share one budget.
  `Services = 2` is the number of TeamService objects alive at once; an object
  nobody refers to is used again.
* `Scripts` (workflow) are the calls a script may make, in any order and number up
  to one each; `Askings` (team) are the ways creates share request ids.
* `OneHolderTurn` of MCAgentEntity (entity): a Workflow has one turn at a time. Its
  `Bounded` (events): the Team's agents or the dispatcher's talk, one turn at a time;
  the sessions subscribe while they are initialized, the first listener before the
  others, and one listener of the first session changes its subscription once; behind
  the fence no agent comes or changes its state.
* `InOrder` of MCWorkflowRun: of two calls that are alike the first is made first;
  the host dies once there is a record.
* `Bounded` of MCTeam: a second generation of a runtime, not of a member's, only beside
  the server of the first and behind a call that it passed on; the second name only for
  a checkout on the shared branch.
* `Bounded` of MCEdges: submissions and the messages of a card come in their order; a
  third Codex submission when the first has been decided; a second Claude Code session
  around one submission; the fence of a card is the leader's or a target's, and changes
  while one card is open; a second change of the routes around one message.
* `Composed` of MCHost: a launch is composed where servers made no tap on an API.

Deadlock is not checked: each of these systems comes to rest when nobody calls.

**Fairness.** The `Fairness` of each module assumes weak fairness of what the event
loop and the outside owe: a settled promise continues, the disk answers, a
timer fires, a runtime answers `start`, `stop` and `submit` (or, in the router and
the collection, does *not*: there the timer or the sweep has to end the wait). It
never assumes that somebody calls, that a turn ends by itself, or that an
operation succeeds. WorkflowRun and Team have one condition for all that is owed
together: a process takes finitely many such steps, so that each is taken if one
always is. What a failed attempt leaves undone is owed by nobody: a `stopAll` goes
on to its runs once. Team assumes one thing more (`Returns`): a leader's start that is
revived behind the first sweep comes back by itself, since `lifecycle.ts:241-244`
lets the drain wait for it. In the Channel the platform answers, with a failure
if need be: requests for cards and notices have a deadline (`cot/io.ts:24`,
`outbound/index.ts:50`); of the others it is assumed.

## The proofs

Each theorem holds for every value of the constants that the module's assumption
allows: any number of submissions, calls, services, names and failures, not the small
instance of a run. An invariant that a run checks is seldom inductive as it stands;
what makes it so was checked by TLC before it was proved. A step of a large system
disturbs many parts of an invariant at once, so the longer proofs have three layers:
lemmas that say what a helper does (`Go`, `Moved`, `Appended`), a lemma for each group
of variables that says how *every* step may change it, and lemmas by which each part of
the invariant follows from those summaries alone.

**AgentEntityProofs** (`EntityAssumption`: the submissions are finite and none has the
name of a stop).

* `TypeCorrect`.
* `RuntimeAlwaysHeld`: every runtime that was created and not stopped is the
  one `live` holds; hence there is never a second. That a start opens a new generation
  only when nothing is held follows from `StartInv`: a flight that is creating owns no
  runtime yet, one that launches or rolls back owns the live one.
* `McpAlwaysGoneFirst`: from the same invariant; the tokens held are those of
  the live generation, and `AskStop` drops them in the step that asks.
* `LockAlwaysExcludes`: with `TypeOK`, `LockExcludesMutation` is inductive: the
  lock is given only when no ordinary mutation is counted, and one is counted only
  when no lock is held.
* `LeaseAlwaysOutlives`, `StoppedNeverReported`: the invariant `EntityInv` adds where a
  stop stands with the runtime it stops (`StopInv`, `StoppingInv`), what a flight under
  way owns (`LaunchInv`), that a generation not begun has no history (`FreshInv`), and
  which turns may still be reported (`TurnInv`, `HostReports`, `StoppedInv`). The lease
  is revoked only where `StopInv` and `LaunchInv` say that the stop of that runtime is
  over (`RevokeMoves`), and only one that is over has a word of its own in the queue
  (`QueueInv`, `LeaseInv`), so a last word is never refused and a refused write is never
  a last word's; a turn is
  reported only from a state that `StoppedInv` excludes once a stop has ended it.
* `ClosedIsGone`: `ClosedInv` adds that a close that has drained admissions and mutations
  meets none again (`CloseInv`: the phase, once it leaves "active", admits nothing), and
  that behind the write that closes the record no update waits that could revive it
  (`DiskInv`).

**CompletionRouterProofs** (`RouterAssumption`).

* `ReadOnce`: a recipient reads one settlement once. The inductive invariant
  (`RouterInv`) has two halves. `OneDeliveryPerNews`, with `DeliveredIsFolded`, says
  that a settlement has one delivery: a report is queued only if its token was
  not folded. `ReadIsSettled` says that a delivery is read once: what has been read
  is neither tried again (its submission is marked taken, and only an untaken one
  is repeated) nor still expected from a submission that was given up
  (`LateIsOver` keeps these out of the attempts).

**CronSchedulerProofs** (`SchedulerAssumption`).

* `TypeCorrect`, and `AcceptedAlwaysRecorded`: an accepted submission reaches the row.
  `RecordInv` says where it is on its way: in the answer of a fire, in a write that
  waits behind the edits before it, or in the row. It holds whatever starts overlap.
* `OccurrencesAreSubmittedOnce`: `TakenInv` says that an occurrence that was accepted or
  is under way is behind every timer that is armed and every `fired` that waits. It
  assumes `[]StartsInTurn`: no start begins while one is under way. `StartedOnce` proves
  that an owner that starts its scheduler once provides this, as dispatchers and Teams do
  (with two starts at a time two reconciles arm one job).
* `ArmedForTheRow`: `ArmedInv` says why the timer may differ from the row: the fire is
  being submitted, a write waits that will arm it, or the write of a miss or a delete
  failed (`lost`), and then there is no timer rather than a wrong one. It assumes `[]StartsInTurn` and
  `~EditsWhileStarting`; the [bounds](#the-runs) say what happens otherwise.

**WorkflowRunProofs** (`RunAssumption`). `RunInv` has a part for each thing a run keeps:
when there is a run at all (`LifeInv`), what each call has (`CallInv`), which messages
speak of which call (`InboxInv`), who holds a slot (`SlotInv`), what each step of
`finalize` leaves behind it (`EndInv`, `HandleInv`, `RunnerInv`, `StillInv`), and what a
recovery has read (`RecoverInv`).

* `TypeCorrect`.
* `TerminalAlwaysJournaled`: inductive only with `EndInv`, by which the terminal record
  is written when the end is in the journal and no call has a result still to come.
* `NothingOutlives`: the slots counted are the calls that hold one (`SlotInv`, a lemma
  about `Cardinality` for each way a slot is taken, handed on and given back).
* `ReportedTruly`: at most one report, the record's own, and none for a run that its
  initiator stopped.

**TransactionalStoreProofs** (`StoreAssumption`, and `~EagerReaders`: nobody loads while
a create is asked for, which is what the owners in this repository do and what the
model's `ReadMayMeet` states; with eager readers TLC refutes it).

* `TypeCorrect`; `ReadersSeeDisk`: what a reader is given is what is on disk.
* `ImplementsSerialStore`: `Spec => SerialSpec`. Every step of the queue, the load, the
  rename and the swap in memory is a step of SerialStore or changes nothing there. The
  invariant says that only the first of the queue runs, in the order of the calls
  (`FifoInv`), what a read under way may still find (`ReadInv`), and that a failed write
  puts back what was there (`PrevInv`).

**DispatcherProofs** (`TeamAssumption`, `PartsAssumption`): the parts of a dispatcher beside
each other.

* The Team. `TeamInv`: where a construction stands, its record does too (`LifeInv`); what
  the record says of leaders, dissolves and the checkout (`RecordInv`); a turn is given
  only by a Team that was live (`CallInv`); one create of a request id looks for a name,
  and only while no Team carries the id (`AskInv`).
* `TeamTypeCorrect`. `OneTeamOneOwnerAlways`: one Team per request id, over repeats,
  failures and deaths; one service owns the record, and whoever has a write to make still
  holds it.
* `CheckoutOutlives`, and `ClosedForGood` as far as the record goes, follow from the
  summaries of what a step may do to the record and to the checkout (`RecStep`, `EndStep`).
  For the tools `ClosedForGood` reads the step that starts something.
* The tool calls. `ToolsTypeCorrect`. `OverStaysQuiet`: `ShutInv` says what each stage of
  the shutdown has behind it: no work behind the drain, hence no start; no runtime behind
  the second sweep but one that could not be stopped or that a dissolve stops.
* `RevokedIsGone`: `TokenInv` says that there are tokens of the last generation only, and
  only while its state lease holds, and that no call is of a later one. So who is refused
  as revoked is of a generation without tokens, and tokens are minted with a new one only.
* `ClosedHostIsQuiet`: `ShutInv` for the tools; for the start and the close `EarlyInv`
  (before the sessions are published nobody closes what is being built, which is the bound
  `CloseMayPrecedeBuild`), `ReachInv` (every session that is open is one the service can
  reach) and `ReleaseInv` (what each step of the release has behind it). For the Team a
  leader that runs has a service that holds it or a dissolve that closes it (`LeadInv`), a
  creation has a create that waits for it (`MakerInv`), so that none is left once the
  calls are drained, and the second sweep has each leader before it (`CloseInv`, `SeatInv`).
* `RuntimesAreAlwaysSwept`, which assumes `~ReopenWritesFail` (the finding
  `collection_lost_reopen` refutes it otherwise): `CollectionInv` says that a service with a runtime is in the
  live map or in the reopening map, that a call waits for what is in the second, and hence
  that behind the admitted work the live map is all there is. It was first tried with a
  model in which a stop could resolve while a submission begun before it was open; with
  five calls TLC found a runtime that outlived its sweep. `dreamux-types/src/agent-runtime.ts`
  says that a stop settles what was begun, and the model now does.
* `WorkIsAlwaysSafe`: `CheckoutInv` says what each step of a spawn, a close and a reopening
  knows of the checkout (`SpawnOf`, `CloseOf`, `ReopenOf`), that two calls have one name only
  while one of them is a spawn that has not written its record (`Sole`), and what a record
  says of the path (`PathOf`), in each case unless a person had a hand in the checkout.

**RuntimesProofs** (`RuntimeAssumption`, `SubmissionsAssumption`): the runtimes and the cards
beside each other.

* `SubmittersAlwaysHear`: `TurnInv` says of every submission to Codex where its decision
  stands with its step (`DecisionInv`) and that the record of a turn names those whose
  settlement is open (`TurnRecords`). It is proved for each way a turn ends and for each
  order in which answers, notifications and the loss of the connection arrive.
* `RuntimesAlwaysKeepTheContract`: every step of CodexTurns and of ClaudeSession is a step of
  RuntimeContract or changes nothing there, and Core hears of a lost session first. For
  Codex each way a step may touch a submission is a move of the contract (`Waits`, `Asks`,
  `Admits`, `IsHeard`); for Claude Code so is each `Fate`. `ClaudeInv` says that the open
  transport is that of the session at hand and that work waits at one only, under its timer.
* `RuntimesAreAlwaysAccounted`: for Codex `RuntimeInv` says who holds the start
  (`StarterInv`), what Core was told (`KnownInv`), that a child alive is the one at hand
  (`AttemptInv`), and what a stop has behind it (`DownInv`). For Claude Code
  `ClaudeChildInv` says that the reference names the child that lives, that who was told its
  child is gone was told the truth, and that an interrupt waits only at the open transport
  of a child that was not lost; so a teardown that got through leaves nothing.
* `CardsAlwaysTellTheTurn`: `CardsInv` says that what a card has shown, what is in flight and
  what waits are together what it accepted (`Sound`), what a task of the queue may count
  on of its card when its turn comes (`TaskAt`), and which card is open (`OpenAt`, `FenceInv`).
  A card has room for an event and for the last word (`CardsAssumption`: two; the code has
  400, `cot/bytes.ts`).

**EdgesProofs** (`EdgesAssumption`): the edges of a host beside each other.

* A step of the whole is a step of each part or changes nothing there (`RuntimesAlone`,
  `StoreAlone`, `RoutingAlone` and so on), so that what is proved of a part holds here:
  `EdgesKeepTheContract` has the three theorems of RuntimesProofs, `RecordsAreSerial` those
  of TransactionalStoreProofs.
* The type of a part's state is proved with what the part is for. Where it says more than
  the kinds of values it has an invariant of its own: rows, jobs and fences name topics
  and Teams there are (`NamesWell`, `RuleInv`), what the gate keeps under a token was shown
  under it (`AccessFormInv`), the window holds distinct keys (`HeldInv`, `LedgerTyped`).
* `ProcessTypeCorrect`; `OneServerAlwaysAnswers`: `LockInv` says that, unless a live process
  lost its pidfile, the file names every process that has created one and is not dead;
  hence there is one, and nobody else can have touched its socket. `MarkerInv` says that a
  process past its boot has seen the marker of its notice go, and that a marker is written
  once.
* `OneHolderUnlessStolen`: from the same invariant, two holders come only from a pidfile
  that was removed by path, which is what the run `lock_reclaim_race` shows to happen.
* `AlwaysAnsweredOnce`: four invariants, one for each module it speaks of.
  `RoutingInv`: a commit that a message waits for is the only one, and it finds the message
  where it waits, so that a message ends once (`JobInv`, `RecipientInv`). `SessionInv`: a
  question is opened once, by a call that has not returned (`RoundInv`). `LedgerInv`: the
  committed keys and after them the keys whose release is due are in the order of their
  last turns (`OrderInv`), so that the oldest key goes only when Window others had a turn
  since (`WindowInv`, `FullWindow`); the window's own size is not enough, as its keys
  have to be later ones. `AccessInv`: nobody has two entries, expired ones included, and
  who may speak has none (`StoryInv`).
* `ClosedSessionIsAlwaysQuiet`: `TeardownInv` says what each of the two tears down, `close` and
  a `start` that a close overtook, has behind it; a session that drains has nothing in
  Core (`DrainInv`).
* `RoutesAlwaysHaveOneOwner`: `OwnerInv`, over `RoutingInv`. A Team created for a topic is
  bound to it, or the commit that binds it is in the queue, and then it is the only open
  Team of the topic (`MadeInv`): the run that created it stays the run of its topic until that
  commit (`AskedInv`, `CreatingInv`), so no other creation begins. That commit cannot be
  refused, as it names a topic and claims no owner, which is why the theorem needs the
  assumption that the chat is not a topic of itself. A row is taken away by hand
  only, or with a Team that is closed. `RuleInv` holds because a mutator reads what was
  committed last: what it may refuse is decided with the write (`MutatedRule`), and whom a
  commit fences has lost the row (`PresentedKeeps`).

## Where the code and its text part

* `collection_lost_reopen`: `agent/index.ts:322-324` says a reopen that failed
  "leaves nothing behind". A send that reopens a closed TeamMate and whose intent
  is then not written drops the service from both maps with its runtime up; no
  sweep finds it, and the next send starts a second runtime.
* `scheduler_missed_twice`: `.agents/domains/scheduled-work.md:79-81` has a
  replacement keep its writer's timer. The missed branch of `rearm` arms whatever
  row it finds, so that a refused fire can submit an occurrence a second time.
* `workflow_refused`: `.agents/domains/state-config-and-files.md:434-436` says that
  start-up "otherwise converts a leftover `running` record to `stopped`". When
  the write that first records a call fails, `finalize` journals that call as
  stopped; if the host dies before the terminal record is written, the journal
  has a result of a call the record does not name, and `journal.ts:160` throws at
  every later start. The run leaves out journals with a torn row; `RecoveryEnds` of the
  passing run says there is no third way a recovery does not come to its end.
* `codex_lost_exit`: `codex/tests/codex-runtime.test.ts:294-295` says a runtime whose
  child dies restarts. A child that dies while the restart that made it still
  writes "ready" is dropped by the guard at `runtime.ts:572`.
* `lock_reclaim_race`: `platform/instance-lock.ts:12-15` says that of two startups one
  wins. The pidfile exists before the pid is in it, an empty one counts as stale,
  and it is removed by path.

Smaller divergences have no run of their own. They were met while the code was read
for the models; where a model depends on one, its property says so.

* A dissolve whose leader is in the middle of its close is not waited for by the
  close of the host: `stopForHost` returns at once when the phase is not active
  (`agent/service.ts:635`); `ClosedHostRunsNoTeam` exempts that leader.
* A spawn admitted before a close leaves its record and worktree and is then refused
  as "Nothing was started by this call" (`agent/index.ts:738`,
  `platform/errors.ts:151`); a spawn into a dissolving Team is told that the
  dispatcher is shutting down (`team/service.ts:569`, `agent/index.ts:741`).
* `routing/operations.ts:204-205` describes a fence that the forgetting of a Team
  (373-375) leaves in place for the fallback.
* The restart marker is consumed before the lock is taken, so that a second `serve`
  that is refused, or a failed preflight, loses the notice.
* A transcript of Claude Code whose snip lies behind the cursor and outside an older window
  shows the snipped messages again; so may a rewound branch (ClaudeActivity's
  `PagesTellTheConversation` names the exceptions).
* `plugin/host.ts:5` says "plugin order does not matter"; a tap registered by another
  tap during publication misses an API published before. In a launch an accepted root
  that becomes unreadable makes later taps' fences fail.
* Secrets inside arrays of a configuration are restored by index, so that a reordered
  list moves a secret; a rejected replacement leaves its providers registered; a
  section replaced as a whole loses a concurrent edit.
* The list tools answer a cursor that cannot be decoded, a bad `run_id` and a missing
  `scriptPath` with INTERNAL, not as a caller's mistake (`RulesAreCallersMistakes`
  excepts these); the comment on `agentSendRequest` says a blank `prompt` is
  rejected on both surfaces, and one of blanks is taken.
* An `enum` of objects is accepted as well formed and never matches, as values are
  compared by identity; an unsatisfiable schema is accepted too.
* Ignored files, and commits on a detached HEAD, go with a clean checkout:
  "unmerged" means entries in conflict. A TeamMate whose spawn fails after
  `prepare` leaves its checkout (a Team discards its own).
* `team/service.ts:144-147` says a roster never disagrees with the identity store; it
  does between the commit of a new identity and the return of its creation.
* `team/store.ts:216-217` says a real filesystem failure surfaces, while `loadTeam`
  takes one for "no Team", so that a publication may replace a record that could
  not be read.
* After a process death the cold status of a dispatcher says "ready" with nothing
  running (`identityStatusToRuntimeStatus`).

## What is not modelled

`PROJECT.json` has a row with a reason for every part. In short:

* *Whole components:* daemon, onboarding and CLI (one-shot commands over files), the Feishu
  transport (a vendor SDK), the bootstrap plugin (one text), the public types (interfaces).
* *Text:* rendering, card layout, prompts, redaction, tool display, titles.
* *Agent entity:* interrupt; results a runtime sends to a recipient of its own.
* *TeamMates:* transcript search; a TeamMate that borrows another's checkout (`reuse-cwd`)
  and loses it when that one closes; a Team and a TeamMate whose random names give one path.
* *Worktrees:* symbolic links, the `.workspace` boundary and its `.gitignore`.
* *Scheduler:* the calendar of cron patterns.
* *Workflow:* the compilation and the sandbox of scripts, reads and lists.
* *Runtimes:* Codex: time running out behind an empty first segment, a rollout archived
  between its discovery and its validation. Claude Code: the native hash of a transcript.
* *Channel:* redelivery by the platform, a Team whose creation's answer is lost, document
  comments, attachments, slash commands; `MAX_PENDING` is a rule of the gate only,
  so that two prompts of one sender may both be shown and one is recorded. A
  `sendCard`'s second check and `activate()` are one step.
* *MCP:* the stdio protocol; raw calls on the admin socket that no shim has checked; the
  tools a Channel provider brings.
* *Plugins:* the createTeam waterfall; a plugin that catches another's load error; the
  resolution of packages.
* *Records:* the status and launch hooks of an identity; old members under the directory of
  a Team that was replaced.

## Plan

Every module planned is written. What can be added to the models: two AgentEntities
and the router composed (a parent that closes a child that reports to it), and the
Teams and Workflows of a dispatcher as containers of DispatcherLifecycle's sweep.

Every safety property that a run checks has its theorem, but for those below. What is
left to prove, with nothing in the way but the work: CompletionRouter's order of delivery
(`NewsReadInOrder`), RecordRecovery's `AgentsResumeTheirOwn` and ConversationEvents'
`DisplaysAreTold`.

Out of the provers' reach, and left to TLC:

* everything that *leads to* something (`EntitySettles`, `HostSettles`, `EdgesSettle`,
  `RunsEnd`, `DueIsAnswered`, `DissolvesAndClosesEnd`): fairness and ENABLED;
* what needs induction over data: what a page of a log is made of
  (`PagesTellWhatHappened`), a launch and a configuration folded out of a list
  (`PluginsAreIndependent`, `ConfigurationIsOne`), and values nested in values, with RECURSIVE operators
  (`SurfacesAgree`).
