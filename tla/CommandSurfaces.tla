--------------------------- MODULE CommandSurfaces ---------------------------
(* The two surfaces of the server over one set of operations: the Commands    *)
(* (command/registry.ts), and the tools of its MCP delegates, whose handlers  *)
(* read the same requests (service/*/requests.ts) and whose schemas the shim   *)
(* enforces.  A call is sent, admitted by a schema, parsed by readers, run by  *)
(* its domain, which keeps some of it in a record, and answered through an     *)
(* output schema.                                                             *)
(*                                                                          *)
(* A value is the class the schemas, the rules and the records tell apart; a   *)
(* call is described by the one field of it that is not as every reader wants  *)
(* it, for no schema or reader here looks at two fields together but those of  *)
(* a repo, which is one value.                                                *)
EXTENDS Naturals, FiniteSets

CONSTANT MaxChanges   \* bound: calls that change a record after the one that made it

VARIABLES
  call,     \* [via, op, field, value], or None
  stage,    \* "idle", "sent", "admitted", "parsed", "done", "failed", "answered"
  fault,    \* what was thrown and whose doing it is: [error, by], or None
  raw,      \* what the domain gave, or ""
  reply,    \* [ok, code], or None
  record,   \* what a call had kept: [kind, values], or None
  changes

vars == <<call, stage, fault, raw, reply, record, changes>>

None == [via |-> "none"]
----------------------------------------
(* The values of a field, and the keywords of a schema (command/schema.ts):   *)
(* "odd" breaks the pattern of whatever has one, "long" is over every length   *)
(* a schema bounds, and "other" is of another JSON type.                      *)
String == {"empty", "blank", "odd", "fine", "long"}
NonEmpty == String \ {"empty"}
NonBlank == NonEmpty \ {"blank"}
Bounded == NonEmpty \ {"long"}
Integer == {"zero", "one", "many", "huge"}   \* "many" is over 100 and within 200
Flag == {"set"}
Member == {"member"}
May(S) == S \cup {"absent"}
Opt(S) == May(S) \cup {"null"}

Numbers == {"limit", "since", "until", "max_concurrency"}
Flags == {"force", "recurring", "enabled", "include_tools", "include_prompt"}

\* "hollow" has an empty path, "mixed" the controls of another mode; "bad_entry" is no object,
\* "malformed" not a source, "unreadable" no directory; "deep" is over the bounds of a payload.
Inputs(field) ==
  {"absent", "null", "other"} \cup
  CASE field \in Numbers -> Integer
    [] field \in Flags -> Flag
    [] field = "status" -> {"member", "stranger"}
    [] field = "repo" -> {"reuse", "managed", "mixed", "modeless", "hollow"}
    [] field = "skill_sources" -> {"sources", "bad_entry", "malformed", "unreadable"}
    [] field = "attrs" -> {"tags", "bad_name", "bad_value"}
    [] field = "args" -> {"fine", "deep"}
    [] field = "undeclared" -> {"fine"}
    [] OTHER -> String

SkillSourcesSchema == May({"sources", "malformed", "unreadable"})
RepoSchema == May({"reuse", "managed", "mixed"})
----------------------------------------
(* The readers: what a reader takes, what the rule behind it keeps, what      *)
(* breaking the rule throws, and whether the rule is the domain's to ask.     *)

\* Mutant: a broken rule leaves the reader as it is.
AsThrown(error) == error

\* throwCallerMistake: a broken rule, and nothing else, becomes the caller's mistake.
Retyped(error) == IF error = "RuleViolation" THEN "ValidationError" ELSE error

Reads(S) == [takes |-> S, keeps |-> S, throws |-> "ValidationError", late |-> FALSE]
Ruled(S, T) == [takes |-> S, keeps |-> T, throws |-> Retyped("RuleViolation"), late |-> FALSE]
Late(S, T) == [Ruled(S, T) EXCEPT !.late = TRUE]
Unstated(S, T, error) == [Ruled(S, T) EXCEPT !.throws = error, !.late = TRUE]

MustString == Reads(String)
MustNonEmpty == Reads(NonEmpty)
MustNonBlank == Reads(NonBlank)
OptString == Reads(Opt(String))
OptNonBlank == Reads(Opt(NonBlank))
OptInteger == Reads(Opt(Integer))
OptFlag == Reads(May(Flag))
EntityName == Ruled(String, {"fine"})
OptEntityName == Ruled(Opt(NonBlank), Opt({"fine"}))
TeamName == Ruled(String, {"fine"})
OptTeamName == Ruled(Opt(NonBlank), Opt({"fine"}))
HistoryLimit == Ruled(Opt(Integer), Opt(Integer \ {"zero"}))
Cursor == Ruled(Opt(String), Opt({"fine"}))
SkillSources == Late(May({"sources", "unreadable"}), May({"sources"}))
RepoRequest == Reads(Opt({"reuse", "managed"}))

AgentSpawnRequest ==
  [name_prefix |-> MustNonBlank, prompt |-> MustNonEmpty, intent |-> MustNonBlank,
   agent_runtime |-> OptNonBlank, identity |-> OptNonBlank,
   skill_sources |-> SkillSources, repo |-> RepoRequest]
AgentSendRequest == [name |-> EntityName, prompt |-> MustNonEmpty, intent |-> OptNonBlank]
AgentCloseRequest == [name |-> EntityName, note |-> MustNonBlank]
AgentLastQuery ==
  [name |-> EntityName, limit |-> Ruled(Opt(Integer), Opt({"one", "many"})),
   cursor |-> OptString, include_tools |-> OptFlag]
HistoryQuery ==
  [name |-> OptEntityName, status |-> Reads(Opt(Member)), agent_runtime |-> OptString,
   repo_text |-> OptString, grep |-> OptString, since |-> OptInteger, until |-> OptInteger,
   limit |-> HistoryLimit, cursor |-> Cursor]
ListQuery ==
  [status |-> Reads(Opt(Member)), limit |-> Unstated(Opt(Integer), Opt(Integer \ {"zero"}), "RuleViolation"),
   cursor |-> Unstated(Opt(String), Opt({"fine"}), "RuleViolation")]
TeamCreateRequest ==
  [request_id |-> MustNonBlank, name_prefix |-> MustNonBlank, intent |-> MustNonBlank,
   leader_agent_runtime |-> MustNonEmpty, identity |-> OptNonBlank, prompt |-> OptString,
   skill_sources |-> SkillSources, repo |-> RepoRequest]
TeamHistoryQuery ==
  [team_name |-> OptTeamName, status |-> Reads(Opt(Member)), repo_text |-> OptString,
   grep |-> OptString, since |-> OptInteger, until |-> OptInteger,
   limit |-> HistoryLimit, cursor |-> Cursor]
ChannelSubmission ==
  [attrs |-> Reads(Opt({"tags"})), text |-> MustNonEmpty, reminder |-> OptString,
   source_id |-> OptString]
TeamSubmitRequest ==
  [team_name |-> TeamName, intent |-> OptNonBlank, attrs |-> ChannelSubmission.attrs,
   text |-> ChannelSubmission.text, reminder |-> ChannelSubmission.reminder,
   source_id |-> ChannelSubmission.source_id]
TeamDissolveRequest == [team_name |-> TeamName, note |-> MustNonBlank, force |-> OptFlag]
NameOfTeam == [team_name |-> TeamName]

\* The rules of the scheduler, asked of the job as it would become.
Schedule == {"fine"}
\* Mutant: the title is not looked at.
AnyTitle == String
Titles == NonEmpty
CronCreateRequest ==
  [team_id |-> OptTeamName, cron |-> Late(String, Schedule), prompt |-> MustNonEmpty,
   title |-> Late(Opt(String), Opt(Titles)), recurring |-> OptFlag,
   tz |-> Late(Opt(String), Opt(Schedule))]
CronUpdateRequest ==
  [team_id |-> OptTeamName, id |-> MustString, cron |-> Late(Opt(String), Opt(Schedule)),
   prompt |-> Late(Opt(String), Opt(NonEmpty)), title |-> Late(Opt(String), Opt(Titles)),
   recurring |-> OptFlag, tz |-> Late(Opt(String), Opt(Schedule)), enabled |-> OptFlag]
CronJobId == [team_id |-> OptTeamName, id |-> MustString]

\* A well-formed run has a script, which is taken before any path.
WorkflowRunRequest ==
  [script |-> Late(Opt(NonBlank), NonBlank), scriptPath |-> OptNonBlank,
   args |-> Reads(May({"fine", "other", "null"})),
   max_concurrency |-> Late(Opt(Integer), Opt({"one"}))]
WorkflowRunId == [run_id |-> Unstated(NonEmpty, {"fine"}, "Error")]
----------------------------------------
(* The Commands.  An operation has its schema, its readers, what it answers,  *)
(* the kind of record it makes or changes, and the fields it keeps there.     *)
Command(schema, reader, gives) ==
  [schema |-> schema, reader |-> reader, gives |-> gives, makes |-> "", alters |-> "", ends |-> "",
   keeps |-> {}, as |-> ""]
Makes(op, kind, fields) == [op EXCEPT !.makes = kind, !.keeps = fields]
Alters(op, kind, fields) == [op EXCEPT !.alters = kind, !.keeps = fields]

TeammateSpawn == Makes(Command(
  [name_prefix |-> String, prompt |-> NonEmpty, intent |-> NonEmpty,
   agent_runtime |-> May(NonEmpty), identity |-> May(NonEmpty),
   skill_sources |-> SkillSourcesSchema, repo |-> RepoSchema], AgentSpawnRequest, "receipt"),
  "teammate", {"name_prefix", "intent", "agent_runtime", "identity", "skill_sources", "repo"})
TeammateSubmit == Alters(Command(
  [name |-> String, prompt |-> NonEmpty, intent |-> May(NonEmpty)], AgentSendRequest, "receipt"),
  "teammate", {"intent"})
TeammateClose == Alters(Command(
  [name |-> String, note |-> NonEmpty], AgentCloseRequest, "plain"), "teammate", {"note"})
TeammateHistory == Command(
  [name |-> May(String), status |-> May(Member), agent_runtime |-> May(String),
   repo_text |-> May(String), grep |-> May(String), since |-> May(Integer),
   until |-> May(Integer), limit |-> May(Integer), cursor |-> May(String)], HistoryQuery, "plain")
Asking == Command(<<>>, <<>>, "plain")   \* takes nothing
TeammateList == Asking
TeammateStatus == Command([name |-> String], [name |-> EntityName], "plain")
TeammateLast == Command(
  [name |-> String, limit |-> May(Integer), cursor |-> May(String), include_tools |-> May(Flag)],
  AgentLastQuery, "plain")
TeammateCapabilities == Asking

TeamCreate == Makes(Command(
  [request_id |-> Bounded, name_prefix |-> NonEmpty, intent |-> NonEmpty,
   leader_agent_runtime |-> NonEmpty, identity |-> May(NonEmpty), prompt |-> May(String),
   skill_sources |-> SkillSourcesSchema, repo |-> RepoSchema], TeamCreateRequest, "plain"),
  "team", {"request_id", "name_prefix", "intent", "leader_agent_runtime", "identity",
           "skill_sources", "repo"})
SubmissionSchema ==
  [attrs |-> May({"tags", "bad_name", "bad_value"}), text |-> NonEmpty, reminder |-> May(String),
   source_id |-> May(String \ {"long"})]
TeamSubmit == Alters(Command(
  [team_name |-> NonEmpty, intent |-> May(NonEmpty), attrs |-> SubmissionSchema.attrs,
   text |-> SubmissionSchema.text, reminder |-> SubmissionSchema.reminder,
   source_id |-> SubmissionSchema.source_id], TeamSubmitRequest, "receipt"), "team", {"intent"})
TeamInterrupt == Command([team_name |-> NonEmpty], NameOfTeam, "interrupt")
TeamList == Asking
TeamStatus == Command([team_name |-> NonEmpty], NameOfTeam, "plain")
TeamHistory == Command(
  [team_name |-> May(NonEmpty), status |-> May(Member), repo_text |-> May(String),
   grep |-> May(String), since |-> May(Integer), until |-> May(Integer), limit |-> May(Integer),
   cursor |-> May(String)], TeamHistoryQuery, "plain")
TeamDissolve == Alters(Command(
  [team_name |-> NonEmpty, note |-> NonEmpty, force |-> May(Flag)], TeamDissolveRequest, "plain"),
  "team", {"note"})

OwnerSchema == May(NonEmpty)
CronList == Command([team_id |-> OwnerSchema], [team_id |-> OptTeamName], "plain")
CronCreate == Makes(Command(
  [team_id |-> OwnerSchema, cron |-> String, prompt |-> NonEmpty, title |-> May(String),
   recurring |-> May(Flag), tz |-> May(String)], CronCreateRequest, "plain"),
  "job", {"cron", "prompt", "title", "tz"})
CronUpdate == Alters(Command(
  [team_id |-> OwnerSchema, id |-> String, cron |-> May(String), prompt |-> May(String),
   title |-> Opt(String), recurring |-> May(Flag), tz |-> May(String), enabled |-> May(Flag)],
  CronUpdateRequest, "plain"), "job", {"cron", "prompt", "title", "tz"})
CronDelete == [Command([team_id |-> OwnerSchema, id |-> String], CronJobId, "plain") EXCEPT !.ends = "job"]

WorkflowRun == Command(
  [script |-> May(NonEmpty), scriptPath |-> May(NonEmpty),
   args |-> {"absent", "null", "other", "fine"}, max_concurrency |-> May(Integer)],
  WorkflowRunRequest, "plain")
WorkflowStatus == Command([run_id |-> NonEmpty], WorkflowRunId, "run")
WorkflowStop == Command([run_id |-> NonEmpty], WorkflowRunId, "plain")
WorkflowList == Asking

DispatcherQueries == Asking   \* dispatcher.list, dispatcher.status and channel.list
DispatcherSubmit == Command(SubmissionSchema, ChannelSubmission, "receipt")
DispatcherInterrupt == [Asking EXCEPT !.gives = "interrupt"]
McpDescribe == Command([token |-> NonEmpty], [token |-> Reads(NonEmpty \ {"long"})], "plain")

Commands ==
  [spawn |-> TeammateSpawn, submit |-> TeammateSubmit, close |-> TeammateClose,
   history |-> TeammateHistory, list |-> TeammateList, status |-> TeammateStatus,
   last |-> TeammateLast, capabilities |-> TeammateCapabilities,
   team_create |-> TeamCreate, team_submit |-> TeamSubmit, team_interrupt |-> TeamInterrupt,
   team_list |-> TeamList, team_status |-> TeamStatus, team_history |-> TeamHistory,
   team_dissolve |-> TeamDissolve,
   cron_list |-> CronList, cron_create |-> CronCreate, cron_update |-> CronUpdate,
   cron_delete |-> CronDelete,
   workflow_run |-> WorkflowRun, workflow_status |-> WorkflowStatus, workflow_stop |-> WorkflowStop,
   workflow_list |-> WorkflowList,
   dispatcher |-> DispatcherQueries, dispatcher_submit |-> DispatcherSubmit,
   dispatcher_interrupt |-> DispatcherInterrupt, describe |-> McpDescribe]
----------------------------------------
(* The tools.  A tool has a schema of its own, which the shim enforces, and   *)
(* is otherwise the Command it is made of, named by "as".                                       *)
Tool(as, command, schema, reader, gives) ==
  [command EXCEPT !.schema = schema, !.reader = reader, !.gives = gives, !.as = as]

\* The readers of a command, for the fields a tool has.
Of(command, schema) == [f \in DOMAIN schema |-> command.reader[f]]

NameInput == [name |-> Bounded]
SpawnInput ==
  [name_prefix |-> Bounded, prompt |-> Bounded, intent |-> Bounded, agent_runtime |-> May(String),
   identity |-> May(Bounded), repo |-> RepoSchema]
SpawnTool == Tool("spawn", TeammateSpawn, SpawnInput, Of(TeammateSpawn, SpawnInput), "text")
SendInput == [name |-> Bounded, prompt |-> Bounded, intent |-> May(Bounded)]
SendTool == Tool("submit", TeammateSubmit, SendInput, Of(TeammateSubmit, SendInput), "text")
CloseInput == [name |-> Bounded, note |-> Bounded]
\* Mutant: the tool has a reader of its own, and any note will do.
AnyNote == Tool("close", TeammateClose, CloseInput, [name |-> EntityName, note |-> MustString], "plain")
CloseTool == Tool("close", TeammateClose, CloseInput, Of(TeammateClose, CloseInput), "plain")
HistoryInput ==
  [name |-> May(Bounded), status |-> May(Member), agent_runtime |-> May(Bounded),
   repo_text |-> May(Bounded), grep |-> May(Bounded), since |-> May(Integer),
   until |-> May(Integer), limit |-> May({"one"}), cursor |-> May(Bounded)]
HistoryTool == Tool("history", TeammateHistory, HistoryInput, Of(TeammateHistory, HistoryInput), "plain")
ListInput == [status |-> May(Member), limit |-> May({"one"}), cursor |-> May(NonEmpty)]
ListTool == Tool("", Asking, ListInput, ListQuery, "plain")
StatusTool == Tool("status", TeammateStatus, NameInput, Of(TeammateStatus, NameInput), "plain")
LastInput ==
  [name |-> Bounded, limit |-> May({"one", "many"}), cursor |-> May(Bounded),
   include_tools |-> May(Flag)]
LastTool == Tool("last", TeammateLast, LastInput, Of(TeammateLast, LastInput), "plain")
MemberSendInput == [name |-> Bounded, prompt |-> Bounded]
MemberSendTool ==
  Tool("submit", TeammateSubmit, MemberSendInput, [name |-> Ruled(NonEmpty, {"fine"}), prompt |-> MustNonEmpty], "text")
MemberListTool == ListTool

CreateInput ==
  [name_prefix |-> Bounded, intent |-> Bounded, leader_agent_runtime |-> Bounded,
   identity |-> May(Bounded), prompt |-> May(Bounded), repo |-> RepoSchema]
CreateTool == Tool("team_create", TeamCreate, CreateInput, Of(TeamCreate, CreateInput), "text")
TeamSendInput == [team_name |-> Bounded, text |-> Bounded, intent |-> May(Bounded)]
TeamSendTool == Tool("team_submit", TeamSubmit, TeamSendInput, Of(TeamSubmit, TeamSendInput), "text")
TeamListTool == ListTool
TeamNameInput == [team_name |-> Bounded]
TeamStatusTool == Tool("team_status", TeamStatus, TeamNameInput, Of(TeamStatus, TeamNameInput), "plain")
TeamHistoryInput ==
  [team_name |-> May(Bounded), status |-> May(Member), repo_text |-> May(Bounded),
   grep |-> May(Bounded), since |-> May(Integer), until |-> May(Integer), limit |-> May({"one"}),
   cursor |-> May(Bounded)]
TeamHistoryTool == Tool("team_history", TeamHistory, TeamHistoryInput, Of(TeamHistory, TeamHistoryInput), "plain")
DissolveInput == [team_name |-> Bounded, note |-> Bounded, force |-> May(Flag)]
DissolveTool == Tool("team_dissolve", TeamDissolve, DissolveInput, Of(TeamDissolve, DissolveInput), "plain")
LeaderDissolveInput == [note |-> Bounded \ {"blank"}, force |-> May(Flag)]
LeaderDissolveTool ==
  Tool("team_dissolve", TeamDissolve, LeaderDissolveInput, Of(TeamDissolve, LeaderDissolveInput), "plain")

CronCreateInput ==
  [cron |-> Bounded, prompt |-> Bounded, title |-> May(Bounded), recurring |-> May(Flag),
   tz |-> May(Bounded)]
CronCreateTool == Tool("cron_create", CronCreate, CronCreateInput, Of(CronCreate, CronCreateInput), "plain")
CronUpdateInput ==
  [id |-> Bounded, cron |-> May(Bounded), prompt |-> May(Bounded), title |-> Opt(Bounded),
   recurring |-> May(Flag), tz |-> May(Bounded), enabled |-> May(Flag)]
CronUpdateTool == Tool("cron_update", CronUpdate, CronUpdateInput, Of(CronUpdate, CronUpdateInput), "plain")
CronIdInput == [id |-> Bounded]
CronDeleteTool == Tool("cron_delete", CronDelete, CronIdInput, Of(CronDelete, CronIdInput), "plain")
CronListInput == [id |-> May(Bounded), include_prompt |-> May(Flag)]
CronListTool == Tool("", Asking, CronListInput, [id |-> OptString, include_prompt |-> OptFlag], "plain")

RunInput ==
  [script |-> May(NonEmpty), scriptPath |-> May(NonEmpty),
   args |-> {"absent", "null", "other", "fine"}, max_concurrency |-> May({"one"})]
RunTool == Tool("workflow_run", WorkflowRun, RunInput, Of(WorkflowRun, RunInput), "text")
RunIdInput == [run_id |-> NonEmpty \ {"odd", "blank"}]
RunStatusTool == Tool("workflow_status", WorkflowStatus, RunIdInput, Of(WorkflowStatus, RunIdInput), "run")
RunStopTool == Tool("workflow_stop", WorkflowStop, RunIdInput, Of(WorkflowStop, RunIdInput), "plain")

Tools ==
  [spawn |-> SpawnTool, send |-> SendTool, close |-> CloseTool, history |-> HistoryTool,
   list |-> ListTool, status |-> StatusTool, last |-> LastTool,
   member_send |-> MemberSendTool, member_list |-> MemberListTool,
   create |-> CreateTool, team_send |-> TeamSendTool, team_list |-> TeamListTool,
   team_status |-> TeamStatusTool, team_history |-> TeamHistoryTool, dissolve |-> DissolveTool,
   leader_dissolve |-> LeaderDissolveTool,
   cron_create |-> CronCreateTool, cron_update |-> CronUpdateTool, cron_delete |-> CronDeleteTool,
   cron_list |-> CronListTool,
   workflow_run |-> RunTool, workflow_status |-> RunStatusTool, workflow_stop |-> RunStopTool]

Operation(c) == IF c.via = "bus" THEN Commands[c.op] ELSE Tools[c.op]

\* An object schema is closed: a property it does not declare has to be absent.
Admitted(op, field) == IF field \in DOMAIN op.schema THEN op.schema[field] ELSE {"absent"}
ReaderOf(op, field) == IF field \in DOMAIN op.schema THEN op.reader[field] ELSE Reads({"absent"})
----------------------------------------
(* The records.                                                              *)

\* The length of a name made of a prefix of the kind, a slug and a suffix of 4 to 8 characters
\* (buildConcreteName); nothing left of a slug is "tm".
NameMax == 64
Smaller(a, b) == IF a < b THEN a ELSE b
ConcreteLength(prefix, slug, suffix) ==
  prefix + Smaller(slug, NameMax - (prefix + 1 + suffix)) + 1 + suffix
SlugLength(v) == CASE v = "fine" -> 12 [] v = "long" -> 300 [] OTHER -> 2
Name(v) ==
  IF \A prefix \in {0, 3}, suffix \in 4..8 :
       ConcreteLength(prefix, SlugLength(v), suffix) <= NameMax THEN "fine" ELSE "long"

\* What is kept of a value: a default of the server for what has one, and nothing for a null.
Kept(field, v) ==
  CASE field = "name_prefix" -> Name(v)
    [] field \in {"agent_runtime", "tz"} /\ v \in {"absent", "null"} -> "fine"
    [] v = "null" -> "absent"
    [] OTHER -> v

\* A value every reader takes.
Well(field) ==
  CASE field \in {"title", "identity", "repo", "skill_sources", "agent_runtime", "tz"} -> "absent"
    [] field = "note" -> "absent"
    [] OTHER -> "fine"

Sent(c, field) == IF c.field = field THEN c.value ELSE Well(field)

RecordFields(kind) ==
  CASE kind = "teammate" -> TeammateSpawn.keeps \cup {"note"}
    [] kind = "team" -> TeamCreate.keeps \cup {"note"}
    [] kind = "job" -> CronCreate.keeps

Made(c) ==
  LET kind == Operation(c).makes
  IN [kind |-> kind, values |-> [f \in RecordFields(kind) |-> Kept(f, Sent(c, f))]]

Altered(r, c) ==
  [r EXCEPT !.values = [f \in DOMAIN r.values |->
     IF f \in Operation(c).keeps /\ c.field = f /\ c.value # "absent" THEN Kept(f, c.value)
     ELSE r.values[f]]]

\* What the reader of a stored record takes back: of an agent, of a Team, of a job.
AgentReadable == [f \in RecordFields("teammate") |->
  CASE f = "name_prefix" -> {"fine"}
    [] f = "agent_runtime" -> String
    [] f = "skill_sources" -> May({"sources"})
    [] f = "repo" -> May({"reuse", "managed"})
    [] OTHER -> May(String)]
TeamReadable == [f \in RecordFields("team") |->
  CASE f = "name_prefix" -> {"fine"}
    [] f = "request_id" -> NonBlank \ {"long"}
    [] f = "leader_agent_runtime" -> NonEmpty
    [] f = "skill_sources" -> May({"sources"})
    [] f = "repo" -> May({"reuse", "managed"})
    [] OTHER -> May(String)]
JobReadable == [f \in RecordFields("job") |->
  CASE f \in {"cron", "tz"} -> Schedule
    [] f = "prompt" -> NonEmpty
    [] f = "title" -> May(NonEmpty)]
Readable(kind) ==
  CASE kind = "teammate" -> AgentReadable [] kind = "team" -> TeamReadable [] kind = "job" -> JobReadable
----------------------------------------
(* A call.                                                                   *)
Init ==
  /\ call = None /\ stage = "idle" /\ fault = None /\ raw = "" /\ reply = None
  /\ record = None /\ changes = 0

Throws(error, by) ==
  /\ stage' = "failed"
  /\ fault' = [error |-> error, by |-> by]

Calls ==
  UNION {UNION {{[via |-> via, op |-> op, field |-> f, value |-> v] : v \in Inputs(f)} :
                f \in DOMAIN (IF via = "bus" THEN Commands[op] ELSE Tools[op]).schema
                      \cup {"undeclared"}} :
         via \in {"bus"}, op \in DOMAIN Commands}
  \cup
  UNION {UNION {{[via |-> "tool", op |-> op, field |-> f, value |-> v] : v \in Inputs(f)} :
                f \in DOMAIN Tools[op].schema \cup {"undeclared"}} : op \in DOMAIN Tools}

\* Bound: after a record is made, only calls that change it are sent.
Worth(c) ==
  record # None =>
    /\ changes < MaxChanges
    /\ record.kind \in {Operation(c).alters, Operation(c).ends}

Send ==
  /\ stage = "idle"
  /\ \E c \in Calls : Worth(c) /\ call' = c
  /\ stage' = "sent"
  /\ UNCHANGED <<fault, raw, reply, record, changes>>

\* The bounds of a payload, then the schema: of the tool on the side of the shim, of the Command in
\* the registry.
Admit ==
  /\ stage = "sent"
  /\ IF call.value # "deep" /\ call.value \in Admitted(Operation(call), call.field)
     THEN stage' = "admitted" /\ UNCHANGED fault
     ELSE Throws("ValidationError", "caller")
  /\ UNCHANGED <<call, raw, reply, record, changes>>

Reader == ReaderOf(Operation(call), call.field)

Parse ==
  /\ stage = "admitted"
  /\ \/ call.value \notin Reader.takes /\ Throws("ValidationError", "caller")
     \/ /\ call.value \in Reader.takes \ Reader.keeps /\ ~Reader.late
        /\ Throws(Reader.throws, "caller")
     \/ /\ call.value \in Reader.takes /\ (Reader.late \/ call.value \in Reader.keeps)
        /\ stage' = "parsed" /\ UNCHANGED fault
  /\ UNCHANGED <<call, raw, reply, record, changes>>

Keeps ==
  LET op == Operation(call)
  IN CASE op.makes # "" /\ record = None -> record' = Made(call) /\ UNCHANGED changes
       [] op.alters # "" /\ record # None -> record' = Altered(record, call) /\ changes' = changes + 1
       [] op.ends # "" /\ record # None -> record' = None /\ changes' = 0
       [] OTHER -> UNCHANGED <<record, changes>>

\* What a domain may give: the status of a submission, of an interrupt; a run that may have no result.
Statuses == {"submitted", "duplicate", "stopped", "skipped", "failed", "ambiguous"}
Gives(kind) ==
  CASE kind \in {"receipt", "text"} -> Statuses
    [] kind = "interrupt" -> {"interrupted", "idle"}
    [] kind = "run" -> {"value", "undefined"}
    [] kind = "plain" -> {"value"}

Execute ==
  /\ stage = "parsed"
  /\ \/ call.value \notin Reader.keeps /\ Throws(Reader.throws, "caller")
        /\ UNCHANGED <<raw, record, changes>>
     \* The domain refuses, or what it stands on fails, before or after the record is kept.
     \/ \E error \in {"StatedFailure", "Error"} :
          /\ call.value \in Reader.keeps
          /\ Throws(error, "domain")
          /\ UNCHANGED raw /\ (Keeps \/ UNCHANGED <<record, changes>>)
     \/ /\ call.value \in Reader.keeps
        /\ stage' = "done" /\ Keeps
        /\ raw' \in Gives(Operation(call).gives)
        /\ UNCHANGED fault
  /\ UNCHANGED <<call, reply>>

\* The projections: of an admission (toSubmissionResult, teamSubmitResult), of a run.
\* Mutant: the status of the ledger is the status of the receipt.
AsAdmitted(status) == status
SubmissionResult(status) == IF status = "skipped" THEN "stopped" ELSE status
WorkflowRunResult(result) == IF result = "undefined" THEN "null" ELSE result
Projected ==
  LET kind == Operation(call).gives
  IN CASE kind \in {"receipt", "text"} -> SubmissionResult(raw)
       [] kind = "run" -> WorkflowRunResult(raw)
       [] OTHER -> raw

\* The output schemas; a tool that answers in words has none.
SubmissionStatuses == {"submitted", "duplicate", "stopped", "failed", "ambiguous"}
Declares(kind) ==
  CASE kind = "receipt" -> SubmissionStatuses
    [] kind = "text" -> Statuses
    [] kind = "interrupt" -> {"interrupted", "idle"}
    [] OTHER -> {"value", "null"}

\* A result goes through JSON and its schema; breaking either is a defect of the server.
Answer ==
  /\ stage = "done"
  /\ IF Projected # "undefined" /\ Projected \in Declares(Operation(call).gives)
     THEN stage' = "answered" /\ reply' = [ok |-> TRUE, code |-> ""] /\ UNCHANGED fault
     ELSE Throws("InternalError", "core") /\ UNCHANGED reply
  /\ UNCHANGED <<call, raw, record, changes>>

\* commandFailure; a tool says the same in a sentence (failureText).
CommandFailure(error) ==
  CASE error = "StatedFailure" -> "OWN"
    [] error = "ValidationError" -> "BAD_REQUEST"
    [] OTHER -> "INTERNAL"

Fail ==
  /\ stage = "failed"
  /\ reply' = [ok |-> FALSE, code |-> CommandFailure(fault.error)]
  /\ stage' = "answered"
  /\ UNCHANGED <<call, fault, raw, record, changes>>

Settle ==
  /\ stage = "answered"
  /\ call' = None /\ stage' = "idle" /\ fault' = None /\ raw' = "" /\ reply' = None
  /\ UNCHANGED <<record, changes>>

Next == Send \/ Admit \/ Parse \/ Execute \/ Answer \/ Fail \/ Settle

Spec == Init /\ [][Next]_vars
----------------------------------------
(* The state has its type.                                                   *)
TypeOK ==
  /\ stage \in {"idle", "sent", "admitted", "parsed", "done", "failed", "answered"}
  /\ call = None \/ call \in Calls
  /\ stage = "answered" => DOMAIN reply = {"ok", "code"}
  /\ record = None \/ record.kind \in {"teammate", "team", "job"}
  /\ changes \in 0..MaxChanges

\* The rules no reader retypes: those of the list tools (service/mcp/list-page.ts) and the pattern of
\* a run's id (platform/paths.ts), which only the tools' schema states.
Untyped(c) ==
  \/ c.via = "tool" /\ c.op \in {"list", "member_list", "team_list"} /\ c.field = "cursor"
  \/ c.op \in {"workflow_status", "workflow_stop"} /\ c.field = "run_id"

(* A caller that breaks a rule is told it is its mistake, on either surface,  *)
(* wherever the rule is asked; and nobody else's failure is told as one       *)
(* (command/errors.ts: "an unforeseen failure raised on a validation path is  *)
(* not a caller mistake").                                                    *)
RulesAreCallersMistakes ==
  stage = "answered" /\ ~reply.ok /\ ~Untyped(call) =>
    (reply.code = "BAD_REQUEST" <=> fault.by = "caller")

(* What an operation did is answered: no result the domain gives is refused   *)
(* by the boundary it goes out through (command/registry.ts, requests.ts).    *)
EffectIsAnswered == stage = "answered" /\ raw # "" => reply.ok

(* A record a call made or changed is one the next start reads back           *)
(* (scheduler/index.ts: "so a job can never become un-reloadable").           *)
AcceptedIsReadable ==
  record # None => \A f \in DOMAIN record.values : record.values[f] \in Readable(record.kind)[f]

(* A tool runs nothing the Command of the same operation would have refused   *)
(* (service/agent/requests.ts: "on both surfaces").                           *)
ToolsTakeNoMore ==
  stage = "done" /\ call.via = "tool" /\ Operation(call).as # "" =>
    LET twin == Commands[Operation(call).as]
    IN call.value \in Admitted(twin, call.field) \cap ReaderOf(twin, call.field).keeps
========================================
