------------------------------ MODULE HostConfig ------------------------------
(* The configuration of a server (config/service.ts, config/load.ts,          *)
(* config/config.ts): opened once with the providers it names, read by        *)
(* clients with its secrets left out, and replaced by them while the server   *)
(* runs (config/commands.ts), through the loader that the next start will     *)
(* use.  The registry of providers (registry/) only grows while it lives.     *)
EXTENDS Naturals, Sequences, FiniteSets, SequencesExt, TLC

CONSTANTS
  Ids,          \* of agents[]
  Clients,
  Builtin,      \* refs of built-in providers
  External,     \* refs of npm packages
  Contributed,  \* built-in ref -> the kind its plugin contributes it as
  Yields,       \* npm ref -> the kinds of provider its factory's result would pass for
  Secrets,
  Channel,      \* the ref of the one channel
  Root,         \* the agent of the one dispatcher
  MaxRounds     \* bound: replaces of all clients

VARIABLES
  disk,      \* config.json: [agents, plugins]
  up,        \* "down", "open", "failed"
  registry,  \* ref -> kind, for the refs that are registered
  mem,       \* what the store has committed: [raw, config]
  queue,     \* clients whose replace is in the store, the first one being decided
  pc,        \* client -> "idle", "viewing", "waiting", "writing", "renamed"
  view,      \* client -> agents[] as it was shown
  sent,      \* client -> agents[] as it wants it
  answer,    \* client -> "none", "done", "refused", "failed"
  typed,     \* <<id, secret>>: who was given which secret, by anyone
  rounds,
  edited     \* whether the file on the disk was written by hand since the last write

vars == <<disk, up, registry, mem, queue, pc, view, sent, answer, typed, rounds, edited>>

Blank == "blank"
Absent == "absent"     \* the entry has no such key
Entries == [id : Ids, provider : Builtin \cup External, fits : BOOLEAN,
            secret : Secrets \cup {Blank, Absent}]
Nothing == [raw |-> <<>>, config |-> <<>>]

ConfigAssumption ==
  /\ Root \in Ids /\ Channel \in Builtin \cup External /\ MaxRounds \in Nat
  /\ DOMAIN Contributed \subseteq Builtin /\ DOMAIN Yields = External
  /\ Secrets \cap {Blank, Absent} = {}

IdsOf(agents) == {e.id : e \in ToSet(agents)}
----------------------------------------
(* The loader: resolveConfig.                                                *)
\* What the plugins of a process that begins have contributed.
Fresh == Contributed

\* What a package's factory made is accepted as a provider of a kind.
Passes(ref, kind) == ref \notin Builtin /\ kind \in Yields[ref]

\* Mutant: what a replace has loaded once is loaded again, and its ref is taken.
RegisterAnew(kind, refs, reg) ==
  LET Take(r, ref) ==
        IF ~r.ok \/ ref \in Builtin THEN r
        ELSE IF ref \in DOMAIN reg \/ ~Passes(ref, kind) THEN [r EXCEPT !.ok = FALSE]
        ELSE [r EXCEPT !.reg = (ref :> kind) @@ @]
  IN FoldLeft(Take, [ok |-> TRUE, reg |-> reg], refs)

\* loadProviderPackages: what is registered, under whatever kind, is not loaded again.
Register(kind, refs, reg) ==
  LET Take(r, ref) ==
        IF ~r.ok \/ ref \in DOMAIN r.reg THEN r
        ELSE IF ~Passes(ref, kind) THEN [r EXCEPT !.ok = FALSE]
        ELSE [r EXCEPT !.reg = (ref :> kind) @@ @]
  IN FoldLeft(Take, [ok |-> TRUE, reg |-> reg], refs)

Providers(agents) == [i \in DOMAIN agents |-> agents[i].provider]

Serves(ref, kind, reg) == ref \in DOMAIN reg /\ reg[ref] = kind

\* readAgents: no id twice, each provider an agent runtime that takes the config beside it.
AgentsRead(agents, reg) ==
  /\ \A i, j \in DOMAIN agents : agents[i].id = agents[j].id => i = j
  /\ \A i \in DOMAIN agents : Serves(agents[i].provider, "agentRuntime", reg) /\ agents[i].fits

\* readDispatchers: the agent of the dispatcher is there, and its channel is a channel.
DispatchersRead(agents, reg) == Root \in IdsOf(agents) /\ Serves(Channel, "channel", reg)

Valid(agents, reg) == AgentsRead(agents, reg) /\ DispatchersRead(agents, reg)

Resolve(raw, reg) ==
  LET runtimes == Register("agentRuntime", Providers(raw.agents), reg)
      both == IF runtimes.ok THEN Register("channel", <<Channel>>, runtimes.reg) ELSE runtimes
  IN [ok |-> both.ok /\ Valid(raw.agents, both.reg), reg |-> both.reg]

\* plugins[] is no part of it: open adds the entries, and a replace takes them over.
Config(raw, plugins) == [agents |-> raw.agents, plugins |-> plugins]
----------------------------------------
Files == {[agents |-> a, plugins |-> p] :
            a \in {<<e>> : e \in {f \in Entries : f.id = Root}}, p \in BOOLEAN}

Init ==
  /\ disk \in Files
  /\ up = "down" /\ registry = <<>> /\ mem = Nothing
  /\ queue = <<>> /\ pc = [c \in Clients |-> "idle"]
  /\ view = [c \in Clients |-> <<>>] /\ sent = view
  /\ answer = [c \in Clients |-> "none"]
  /\ typed = {<<e.id, e.secret>> : e \in ToSet(disk.agents)}
  /\ rounds = 0 /\ edited = TRUE

\* ConfigService.open: the plugins contribute their providers, then the file is resolved.
Open ==
  /\ up = "down"
  /\ LET r == Resolve(disk, Fresh) IN
       IF r.ok
       THEN /\ up' = "open" /\ registry' = r.reg
            /\ mem' = [raw |-> disk, config |-> Config(disk, disk.plugins)]
       ELSE up' = "failed" /\ UNCHANGED <<registry, mem>>
  /\ UNCHANGED <<disk, queue, pc, view, sent, answer, typed, rounds, edited>>

\* readAgents: every secret is emptied.
Redacted(agents) ==
  [i \in DOMAIN agents |->
     IF agents[i].secret = Absent THEN agents[i] ELSE [agents[i] EXCEPT !.secret = Blank]]

Get(c) ==
  /\ up = "open" /\ pc[c] = "idle" /\ rounds < MaxRounds
  /\ view' = [view EXCEPT ![c] = Redacted(mem.raw.agents)]
  /\ pc' = [pc EXCEPT ![c] = "viewing"] /\ rounds' = rounds + 1
  /\ answer' = [answer EXCEPT ![c] = "none"]
  /\ UNCHANGED <<disk, up, registry, mem, queue, sent, typed, edited>>

\* What a client may make of what it was shown.
Edits(agents) ==
  {agents, Reverse(agents)}
    \cup {SelectSeq(agents, LAMBDA e : e.id # id) : id \in Ids}
    \cup {[agents EXCEPT ![i].provider = p] : i \in DOMAIN agents, p \in Builtin \cup External}
    \cup {[agents EXCEPT ![i].secret = s] : i \in DOMAIN agents, s \in Secrets \cup {Absent}}
    \cup {[agents EXCEPT ![i].fits = FALSE] : i \in DOMAIN agents}
    \cup {Append(agents, [id |-> id, provider |-> p, fits |-> TRUE, secret |-> s]) :
            id \in Ids, p \in Builtin \cup External, s \in Secrets \cup {Blank}}

Replace(c) ==
  /\ pc[c] = "viewing"
  /\ \E wanted \in {w \in Edits(view[c]) : Len(w) <= Cardinality(Ids)} :
       /\ sent' = [sent EXCEPT ![c] = wanted]
       /\ typed' = typed \cup {<<e.id, e.secret>> : e \in ToSet(wanted)}
  /\ queue' = Append(queue, c) /\ pc' = [pc EXCEPT ![c] = "waiting"]
  /\ UNCHANGED <<disk, up, registry, mem, view, answer, rounds, edited>>

\* Mutant: a secret submitted empty is the one of the entry at the same place.
CommittedByPlace(agents, i) == {mem.raw.agents[j] : j \in {i} \cap DOMAIN mem.raw.agents}

\* mergeAgentEntries: a secret submitted empty is the committed one, of the entry of the same id.
Committed(agents, i) == {e \in ToSet(mem.raw.agents) : e.id = agents[i].id}

Merge(agents) ==
  [i \in DOMAIN agents |->
     IF agents[i].secret = Blank /\ \E e \in Committed(agents, i) : e.secret # Absent
     THEN [agents[i] EXCEPT !.secret = (CHOOSE e \in Committed(agents, i) : TRUE).secret]
     ELSE agents[i]]

Candidate(c) == [mem.raw EXCEPT !.agents = Merge(sent[c])]

Ends(c, how) ==
  /\ answer' = [answer EXCEPT ![c] = how]
  /\ pc' = [pc EXCEPT ![c] = "idle"] /\ queue' = Tail(queue)

\* replaceAgents, up to the write: a candidate that does not resolve is refused.  What was loaded
\* on the way stays registered.
Decide ==
  /\ queue # <<>> /\ pc[Head(queue)] = "waiting"
  /\ LET c == Head(queue)
         r == Resolve(Candidate(c), registry)
     IN /\ registry' = r.reg
        /\ IF r.ok THEN pc' = [pc EXCEPT ![c] = "writing"] /\ UNCHANGED <<answer, queue>>
           ELSE Ends(c, "refused")
  /\ UNCHANGED <<disk, up, mem, view, sent, typed, rounds, edited>>

Write ==
  /\ queue # <<>> /\ pc[Head(queue)] = "writing"
  /\ LET c == Head(queue) IN
       \/ /\ disk' = Candidate(c) /\ edited' = FALSE
          /\ pc' = [pc EXCEPT ![c] = "renamed"] /\ UNCHANGED <<answer, queue>>
       \/ Ends(c, "failed") /\ UNCHANGED <<disk, edited>>
  /\ UNCHANGED <<up, registry, mem, view, sent, typed, rounds>>

Commit ==
  /\ queue # <<>> /\ pc[Head(queue)] = "renamed"
  /\ LET c == Head(queue) IN
       /\ mem' = [raw |-> Candidate(c), config |-> Config(Candidate(c), mem.config.plugins)]
       /\ Ends(c, "done")
  /\ UNCHANGED <<disk, up, registry, view, sent, typed, rounds, edited>>

Stop ==
  /\ up = "open"
  /\ up' = "down" /\ registry' = <<>> /\ mem' = Nothing /\ queue' = <<>>
  /\ pc' = [c \in Clients |-> "idle"]
  /\ UNCHANGED <<disk, view, sent, answer, typed, rounds, edited>>

Next == Open \/ (\E c \in Clients : Get(c) \/ Replace(c)) \/ Decide \/ Write \/ Commit \/ Stop

Spec == Init /\ [][Next]_vars
----------------------------------------
TypeOK ==
  /\ up \in {"down", "open", "failed"} /\ rounds \in 0..MaxRounds /\ edited \in BOOLEAN
  /\ ToSet(disk.agents) \subseteq Entries /\ DOMAIN registry \subseteq Builtin \cup External
  /\ pc \in [Clients -> {"idle", "viewing", "waiting", "writing", "renamed"}]
  /\ answer \in [Clients -> {"none", "done", "refused", "failed"}]
  /\ typed \subseteq Ids \X (Secrets \cup {Blank, Absent})

\* The file a replace wrote is one the next start opens.
NextStartAccepts == ~edited => up # "failed" /\ Resolve(disk, Fresh).ok

\* "a write this rejects is a write the next start would also reject" (config/service.ts:136).
RefusedForGood ==
  [][\A c \in Clients : answer[c] = "none" /\ answer'[c] = "refused" =>
       ~Resolve(Candidate(c), Fresh).ok]_vars

\* A secret is never given to an agent nobody gave it to, whatever clients that do not see it
\* submit over one another.
SecretsStayHome ==
  \A e \in ToSet(disk.agents) : e.secret \in Secrets => <<e.id, e.secret>> \in typed

\* What the server goes by is what the next start would find, plugins included.
OneTruth ==
  up = "open" /\ (\A c \in Clients : pc[c] # "renamed") =>
    mem.raw = disk /\ mem.config = Config(disk, disk.plugins)
========================================
