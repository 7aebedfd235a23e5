------------------------------ MODULE PluginHost ------------------------------
(* The plugins of a server: how they are loaded and contribute providers      *)
(* (plugin/loader.ts), how their servers run and their APIs are published     *)
(* (plugin/host.ts), and what their taps on the hooks of a dispatcher do to   *)
(* the launch of an agent (plugin/hooks.ts, agent-runtime/skill-sources.ts).  *)
(*                                                                          *)
(* What a plugin does is a choice made when its code runs.  Loading is        *)
(* synchronous but for the imports, so a plugin is one step; a launch reads   *)
(* the file system between its taps, and what it read may have changed.       *)
EXTENDS Naturals, Sequences, FiniteSets, SequencesExt

CONSTANTS
  Count,      \* of plugins; they are loaded in this order
  SkillsOf,   \* root of skills -> the skills in it
  Required,   \* core's own roots
  MaxRoots,   \* bound: roots one tap adds
  MaxChanges  \* bound: roots that stop or start being readable

VARIABLES
  phase,      \* "loading", "reading", "starting", "publishing", "serving", "failed"
  at,         \* the plugin whose turn it is
  api,        \* plugins that have an API
  taps,       \* plugin -> owners of the taps on its API, in their order
  guards,     \* plugin -> owners of the interceptors on its API
  tapped,     \* <<owner, plugin>>: the taps that servers made
  got,        \* <<owner, plugin>>: the taps that were given the API
  listens,    \* owners of the taps on the dispatcher hook
  error,      \* what failed the load: [plugin, culprit], or None
  launchers,  \* owners of the taps on the launch hook
  todo,       \* of them, those the launch under way has still to run
  sub,        \* the draft of a tap whose roots are being fenced, or None
  memo,       \* required roots: "unread", "readable", "unreadable"
  instructions, roots,   \* the composition
  gave,       \* owner -> the roots its tap added
  skipped,    \* owners whose changes were skipped
  unreadable, changes

vars == <<phase, at, api, taps, guards, tapped, got, listens, error, launchers, todo,
          sub, memo, instructions, roots, gave, skipped, unreadable, changes>>
loadVars == <<phase, at, api, taps, guards, tapped, got, listens, error>>
launchVars == <<todo, sub, memo, instructions, roots, gave, skipped>>

Plugins == 1..Count
Roots == DOMAIN SkillsOf
None == [plugin |-> 0]

PluginAssumption ==
  /\ Count \in Nat /\ MaxRoots \in Nat /\ MaxChanges \in Nat
  /\ Required \subseteq Roots
  /\ \A r, s \in Required : r # s => SkillsOf[r] \cap SkillsOf[s] = {}

Init ==
  /\ phase = "loading" /\ at = 1 /\ api = {}
  /\ taps = [p \in Plugins |-> <<>>] /\ guards = [p \in Plugins |-> <<>>]
  /\ tapped = {} /\ got = {} /\ listens = <<>> /\ error = None
  /\ launchers = <<>> /\ todo = <<>> /\ sub = None /\ memo = "unread"
  /\ instructions = {} /\ roots = <<>> /\ gave = [p \in Plugins |-> {}] /\ skipped = {}
  /\ unreadable = {} /\ changes = 0
----------------------------------------
(* The load.                                                                 *)
Turns(now, next) ==
  IF at < Count THEN at' = at + 1 /\ phase' = now ELSE at' = 1 /\ phase' = next

\* Mutant: whatever is thrown is the fault of the plugin whose server runs.
BlamesRunning(culprit) == error' = [plugin |-> at, culprit |-> culprit]

\* A PluginLoadError keeps the name it was made with: the owner's of what threw.
Blames(culprit) == error' = [plugin |-> culprit, culprit |-> culprit]

Fails(culprit) ==
  /\ Blames(culprit)
  /\ phase' = "failed"
  /\ UNCHANGED <<at, api, tapped, got, listens>>

\* loadPlugins: import, factory, name, contribute (what it contributes is in HostConfig).
Load ==
  /\ phase = "loading"
  /\ \/ /\ \E has \in BOOLEAN : api' = IF has THEN api \cup {at} ELSE api
        /\ Turns("loading", "reading")
        /\ UNCHANGED <<tapped, got, listens, error>>
     \/ Fails(at) \* not constructed, its name is taken, contributes a taken name
  /\ UNCHANGED <<taps, guards, launchers, launchVars, unreadable, changes>>

\* readPluginConfigs.
ReadConfig ==
  /\ phase = "reading"
  /\ \/ Turns("reading", "starting") /\ UNCHANGED <<api, tapped, got, listens, error>>
     \/ Fails(at)
  /\ UNCHANGED <<taps, guards, launchers, launchVars, unreadable, changes>>

\* A server taps APIs and the dispatcher hook, and may watch an API for the taps of others: its
\* interceptor runs inside their servers.
RunServer ==
  /\ phase = "starting"
  /\ \/ \E wants, watches \in SUBSET Plugins, listening \in BOOLEAN :
          /\ Cardinality(watches) <= 1
          /\ taps' = [q \in Plugins |-> IF q \in wants THEN Append(taps[q], at) ELSE taps[q]]
          /\ guards' = [q \in Plugins |-> IF q \in watches THEN Append(guards[q], at) ELSE guards[q]]
          /\ tapped' = tapped \cup ({at} \X wants)
          /\ listens' = IF listening THEN Append(listens, at) ELSE listens
          /\ Turns("starting", "publishing")
          /\ UNCHANGED <<api, got, error>>
     \/ Fails(at) /\ UNCHANGED <<taps, guards>>              \* it throws, or is asynchronous
     \/ \E q \in Plugins : \E g \in ToSet(guards[q]) :       \* tapping q, an interceptor throws
          Fails(g) /\ UNCHANGED <<taps, guards>>
  /\ UNCHANGED <<launchers, launchVars, unreadable, changes>>

\* The API of a plugin goes to its taps, one of which may tap another API.
Heard == IF at \in api THEN taps[at] ELSE <<>>

Publish ==
  /\ phase = "publishing"
  /\ \/ /\ got' = got \cup {<<o, at>> : o \in ToSet(Heard)}
        /\ \/ UNCHANGED taps
           \/ \E o \in ToSet(Heard), q \in Plugins :
                q \notin {at} /\ Len(taps[q]) < Count /\ taps' = [taps EXCEPT ![q] = Append(@, o)]
        /\ Turns("publishing", "serving")
        /\ UNCHANGED <<api, tapped, listens, error>>
     \/ \E o \in ToSet(Heard) \cup (IF at \in api THEN ToSet(guards[at]) ELSE {}) :
          Fails(o) /\ UNCHANGED taps
  /\ UNCHANGED <<guards, launchers, launchVars, unreadable, changes>>
----------------------------------------
(* A dispatcher and the launches of its agent.                               *)
\* Dispatchers.get: every tap on the dispatcher hook runs; one that throws, at once or later, is
\* logged.  Some of them tap its launch hook.
Materialize ==
  /\ phase = "serving" /\ launchers = <<>>
  /\ \E some \in SUBSET ToSet(listens) :
       /\ some # {}
       /\ launchers' = SelectSeq(listens, LAMBDA o : o \in some)
       /\ todo' = launchers'
  /\ UNCHANGED <<loadVars, sub, memo, instructions, roots, gave, skipped, unreadable, changes>>

\* composeLaunchDraft.
Launch ==
  /\ launchers # <<>> /\ todo = <<>> /\ sub = None
  /\ todo' = launchers /\ memo' = "unread" /\ instructions' = {} /\ roots' = <<>>
  /\ gave' = [p \in Plugins |-> {}] /\ skipped' = {}
  /\ UNCHANGED <<loadVars, launchers, sub, unreadable, changes>>

Skip(o) == skipped' = skipped \cup {o} /\ UNCHANGED <<instructions, roots>>

\* canonicalRequiredRoots: once for a launch.
Read == IF Required \cap unreadable = {} THEN "readable" ELSE "unreadable"
ReadOnce == IF memo = "unread" THEN Read ELSE memo

TapRuns ==
  /\ todo # <<>> /\ sub = None
  /\ LET o == Head(todo) IN
       \/ Skip(o) /\ UNCHANGED <<sub, memo, gave>>
       \/ /\ instructions' = instructions \cup {o}
          /\ UNCHANGED <<sub, memo, roots, gave, skipped>>
       \/ \E adds \in SeqOf(Roots, MaxRoots) :
            /\ adds # <<>>
            /\ gave' = [gave EXCEPT ![o] = ToSet(adds)]
            /\ memo' = ReadOnce
            /\ IF memo' = "readable"
               THEN sub' = [plugin |-> o, adds |-> adds] /\ UNCHANGED instructions
               ELSE instructions' = instructions \cup {o} /\ UNCHANGED sub
            /\ UNCHANGED <<roots, skipped>>
  /\ todo' = IF sub' = None THEN Tail(todo) ELSE todo
  /\ UNCHANGED <<loadVars, launchers, unreadable, changes>>

\* normalizeAgentRuntimeSkillSources: a root that is there already is dropped, one whose skills
\* are taken is refused.
Start == [ok |-> TRUE, roots |-> <<>>, seen |-> Required,
          skills |-> UNION {SkillsOf[r] : r \in Required}]
Normalize(list) ==
  LET Take(s, r) ==
        IF ~s.ok \/ r \in unreadable THEN [s EXCEPT !.ok = FALSE]
        ELSE IF r \in s.seen THEN s
        ELSE IF SkillsOf[r] \cap s.skills # {} THEN [s EXCEPT !.ok = FALSE]
        ELSE [ok |-> TRUE, roots |-> Append(s.roots, r), seen |-> s.seen \cup {r},
              skills |-> s.skills \cup SkillsOf[r]]
  IN FoldLeft(Take, Start, list)

\* Mutant: the instructions of a tap are taken before its roots are fenced.
AcceptEager ==
  LET fenced == Normalize(roots \o sub.adds) IN
  /\ instructions' = instructions \cup {sub.plugin}
  /\ IF fenced.ok THEN roots' = fenced.roots /\ UNCHANGED skipped
     ELSE skipped' = skipped \cup {sub.plugin} /\ UNCHANGED roots

Accept ==
  LET fenced == Normalize(roots \o sub.adds) IN
  IF fenced.ok
  THEN roots' = fenced.roots /\ instructions' = instructions \cup {sub.plugin} /\ UNCHANGED skipped
  ELSE Skip(sub.plugin)

Fence ==
  /\ sub # None
  /\ Accept
  /\ sub' = None /\ todo' = Tail(todo)
  /\ UNCHANGED <<loadVars, launchers, memo, gave, unreadable, changes>>

Change(r) ==
  /\ launchers # <<>> /\ changes < MaxChanges
  /\ changes' = changes + 1
  /\ unreadable' = IF r \in unreadable THEN unreadable \ {r} ELSE unreadable \cup {r}
  /\ UNCHANGED <<loadVars, launchers, launchVars>>

Next == Load \/ ReadConfig \/ RunServer \/ Publish \/ Materialize \/ Launch \/ TapRuns \/ Fence
        \/ \E r \in Roots : Change(r)

Spec == Init /\ [][Next]_vars
----------------------------------------
TypeOK ==
  /\ phase \in {"loading", "reading", "starting", "publishing", "serving", "failed"}
  /\ at \in Plugins /\ api \subseteq Plugins
  /\ tapped \subseteq Plugins \X Plugins /\ got \subseteq Plugins \X Plugins
  /\ instructions \subseteq Plugins /\ skipped \subseteq Plugins
  /\ memo \in {"unread", "readable", "unreadable"}
  /\ ToSet(roots) \subseteq Roots /\ unreadable \subseteq Roots

\* A load that fails names the plugin whose code failed it, also when that code ran inside the
\* server of another one.
FailureNamesItsOwner == error # None => error.plugin = error.culprit

\* Plugin order does not matter (plugin/host.ts:5): what a server tapped was given the API, if
\* there is one, when the plugins serve.
EveryTapGetsItsApi ==
  phase = "serving" => \A t \in tapped : t[2] \in api => t \in got

\* A launch never carries two skills of one name, nor one of a name that core's own roots hold.
SkillsAreUnique ==
  /\ \A i, j \in DOMAIN roots : i # j => SkillsOf[roots[i]] \cap SkillsOf[roots[j]] = {}
  /\ \A i \in DOMAIN roots, r \in Required : SkillsOf[roots[i]] \cap SkillsOf[r] = {}

\* What a tap changes is taken as a whole, or not at all; only roots that cannot be fenced are
\* left out alone.
TapsAreWhole ==
  /\ instructions \cap skipped = {}
  /\ \A o \in instructions :
       memo = "readable" => gave[o] \subseteq ToSet(roots) \cup Required
  /\ ToSet(roots) \subseteq UNION {gave[o] : o \in instructions}

\* A tap is skipped for what it did, for a root it added, or for one that was taken before it and
\* cannot be read any more: never for a root of core's.
Conflicts(adds) ==
  \E r \in ToSet(adds) \ (ToSet(roots) \cup Required),
     s \in ToSet(adds) \cup ToSet(roots) \cup Required :
    r # s /\ SkillsOf[r] \cap SkillsOf[s] # {}
SkippedForCause ==
  [][sub # None /\ sub.plugin \in skipped' \ skipped =>
       \/ (ToSet(sub.adds) \cup ToSet(roots)) \cap unreadable # {}
       \/ Conflicts(sub.adds)]_vars
========================================
