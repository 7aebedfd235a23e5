-------------------------------- MODULE Team --------------------------------
(* A Team at one name of a dispatcher: service/team/index.ts (the collection), *)
(* service.ts (the Team), store.ts (its record), with the leader as its Team    *)
(* sees it and the checkout worktree/manager.ts makes and removes.              *)
(*                                                                              *)
(* An action is what runs between two awaits of something outside.  Names are   *)
(* drawn at random: of the other names only the Teams published there count.    *)
(* Writes of the record are steps of whoever awaits them; the store's queue is  *)
(* not kept, since each write merges its own fields onto what it finds.         *)
EXTENDS Naturals, FiniteSets

CONSTANTS
  Creates,      \* the calls of team.create, numbered as they come
  Submits, Dissolves,  \* the calls that give the leader a turn, and that dissolve the Team
  Requests,     \* request ids
  Askings,      \* bound: the ways the creates may share request ids
  Services,     \* bound: TeamService objects of one process
  MaxMishaps    \* bound: failures of a write, a start, a stop or git, and process deaths

Calls == Creates \cup Submits \cup Dissolves
None == "none"

ASSUME TeamAssumption ==
  /\ Creates \subseteq Nat /\ IsFiniteSet(Calls) /\ IsFiniteSet(Services)
  /\ Submits \cap Dissolves = {} /\ Creates \cap (Submits \cup Dissolves) = {}
  /\ None \notin Services
  /\ Askings \subseteq [Creates -> Requests]
  /\ MaxMishaps \in Nat

VARIABLES
  rec,        \* record.json, and the store's committed value
  elsewhere,  \* for each request id, the Teams published for it at other names
  checkout,   \* the managed checkout on disk
  forced,     \* did a dissolve with force take effect?  (history)
  asking,     \* the request id of each create
  host,       \* the dispatcher: start, close and its two sweeps
  pc, at,     \* where each call stands, and with which service
  life,       \* construction, tenure and abandonment of each service
  made,       \* what its workspace is: borrowed, found or made by this creation
  lead,       \* its leader
  end,        \* its dissolve
  sweep,      \* what the running sweep still has to do with it
  redo,       \* the reclaim that start-up launches
  mishaps

disk   == <<rec, elsewhere, checkout, forced>>
calls  == <<pc, at>>
vars == <<disk, asking, host, calls, life, made, lead, end, sweep, redo, mishaps>>

NoRecord == [status |-> None, by |-> None, tree |-> None, force |-> FALSE]

Init ==
  /\ rec = NoRecord /\ elsewhere = [q \in Requests |-> 0] /\ checkout = None /\ forced = FALSE
  /\ asking \in Askings
  /\ host = "up" /\ redo = None
  /\ pc = [c \in Calls |-> "idle"] /\ at = [c \in Calls |-> None]
  /\ life = [s \in Services |-> None] /\ made = [s \in Services |-> None]
  /\ lead = [s \in Services |-> None] /\ end = [s \in Services |-> None]
  /\ sweep = [s \in Services |-> None]
  /\ mishaps = 0

Broke == mishaps < MaxMishaps /\ mishaps' = mishaps + 1

Accepting == host \in {"recovering", "up"}   \* the dispatcher's fence is open
Over(c) == pc[c] \in {"idle", "done"}
At(s) == {c \in Calls : at[c] = s /\ ~Over(c)}

\* A call goes on; one that is over has no service.
GoAt(c, where, s) == pc' = [pc EXCEPT ![c] = where] /\ at' = [at EXCEPT ![c] = s]
Go(c, where) == GoAt(c, where, IF where = "done" THEN None ELSE at[c])

\* constructing: the service whose creation or rebuild is under way.
Constructing == {s \in Services : life[s] \notin {None, "live", "releasing"}}
Live == {s \in Services : life[s] = "live"}
\* A service that has read the record, and speaks for the Team until it lets go of it.
Owners == {s \in Services : life[s] \notin {None, "acquiring"}}

\* Mutant: a Team is not held before it is created to the end.
StartingNone == {}

\* starting: created, and their first turn not over.
Starting == {s \in Services :
  life[s] \in {"prompting", "marking", "opening", "abandoning", "razing", "stranded"} /\ lead[s] # None}

\* An object nobody refers to any more stands for a new TeamService; which one is immaterial.
Unused == {s \in Services : life[s] = None /\ end[s] \in {None, "over"} /\ At(s) = {}}

Fresh(s, stage) ==
  /\ Unused # {} /\ s = CHOOSE x \in Unused : TRUE
  /\ life' = [life EXCEPT ![s] = stage]
  /\ made' = [made EXCEPT ![s] = None] /\ lead' = [lead EXCEPT ![s] = None]
  /\ end' = [end EXCEPT ![s] = None]

\* The construction is over: its creator is answered, and those who joined it go on.
Answered(s, creator, joined) ==
  LET now(c) == IF at[c] = s /\ pc[c] = "making" THEN creator
                ELSE IF at[c] = s /\ pc[c] = "joined" THEN joined ELSE pc[c]
  IN /\ pc' = [c \in Calls |-> now(c)]
     /\ at' = [c \in Calls |-> IF now(c) \in {"redrawing", "opening", "done"} THEN None ELSE at[c]]
----------------------------------------
(* Writes of the record                                                    *)

\* Mutant: a late write of "running" is merged as it came.
MergedBlindly(status) == status

\* mergeRecord: closed is terminal.
Merged(status) == IF rec.status = "closed" THEN "closed" ELSE status

Running == rec' = [rec EXCEPT !.status = Merged("running")]
Closed(tree, force) == rec' = [rec EXCEPT !.status = "closed", !.tree = tree, !.force = force]

----------------------------------------
(* team.create                                                             *)

Enter(c) ==
  /\ Accepting /\ pc[c] = "idle"
  /\ c \in Creates => \A d \in Creates : d < c => pc[d] # "idle"
  /\ Go(c, IF c \in Creates THEN "asked" ELSE "opening")
  /\ UNCHANGED <<disk, asking, host, life, made, lead, end, sweep, redo, mishaps>>

\* Mutant: creates of one request id are not queued.
TurnAlways(c) == TRUE

\* createRequestLifecycle: one create of a request id at a time.
Turn(c) == \A d \in Creates \ {c} :
  asking[d] = asking[c] => Over(d) \/ pc[d] = "asked"

\* acceptedRequest: a Team that carries the request id is the answer; otherwise a name is drawn.
Looks(c) ==
  /\ pc[c] = "asked" /\ Turn(c)
  /\ Go(c, IF rec.by = asking[c] \/ elsewhere[asking[c]] > 0 THEN "done" ELSE "choosing")
  /\ UNCHANGED <<disk, asking, host, life, made, lead, end, sweep, redo, mishaps>>

\* Another name: its Team is published there, or the creation fails.
CreatesElsewhere(c) ==
  /\ pc[c] \in {"choosing", "redrawing"} /\ Go(c, "done")
  /\ \/ elsewhere' = [elsewhere EXCEPT ![asking[c]] = @ + 1] /\ UNCHANGED mishaps
     \/ Broke /\ UNCHANGED elsewhere
  /\ UNCHANGED <<rec, checkout, forced, asking, host, life, made, lead, end, sweep, redo>>

\* This name, unless it is being constructed.
CreatesHere(c, s) ==
  /\ pc[c] = "choosing" /\ Constructing = {}
  /\ Fresh(s, "acquiring")
  /\ GoAt(c, "making", s)
  /\ UNCHANGED <<disk, asking, host, sweep, redo, mishaps>>

\* The record is read: a name that has one is taken for good, and another is drawn.
Acquired(s) ==
  /\ life[s] = "acquiring"
  /\ IF rec.status = None
       THEN life' = [life EXCEPT ![s] = "preparing"] /\ UNCHANGED calls
       ELSE life' = [life EXCEPT ![s] = None] /\ Answered(s, "redrawing", "opening")
  /\ UNCHANGED <<disk, asking, host, made, lead, end, sweep, redo, mishaps>>

\* prepareWorkspace: a borrowed directory, a checkout that was there, or a new one.
Prepared(s) ==
  /\ life[s] = "preparing" /\ life' = [life EXCEPT ![s] = "publishing"]
  /\ \/ made' = [made EXCEPT ![s] = "borrowed"] /\ UNCHANGED checkout
     \/ made' = [made EXCEPT ![s] = IF checkout = None THEN "made" ELSE "found"]
        /\ checkout' = IF checkout = None THEN "clean" ELSE checkout
  /\ UNCHANGED <<rec, elsewhere, forced, asking, host, calls, lead, end, sweep, redo, mishaps>>

PrepareFails(s) ==
  /\ life[s] = "preparing" /\ Broke
  /\ life' = [life EXCEPT ![s] = None] /\ Answered(s, "done", "done")
  /\ UNCHANGED <<disk, asking, host, made, lead, end, sweep, redo>>

\* publishRecord: the Team exists from here on, and its request is accepted.
Published(s) ==
  /\ life[s] = "publishing"
  /\ \E c \in Creates : at[c] = s /\ pc[c] = "making"
       /\ rec' = [status |-> "starting", by |-> asking[c], force |-> FALSE,
                  tree |-> IF made[s] = "borrowed" THEN None ELSE "active"]
  /\ life' = [life EXCEPT ![s] = "seating"]
  /\ UNCHANGED <<elsewhere, checkout, forced, asking, host, calls, made, lead, end, sweep, redo, mishaps>>

PublishFails(s) ==
  /\ life[s] = "publishing" /\ Broke
  /\ life' = [life EXCEPT ![s] = "discarding"]
  /\ UNCHANGED <<disk, asking, host, calls, made, lead, end, sweep, redo>>

\* discardUnclaimedCheckout: what this attempt made and no record owns is removed, or left behind.
Discarded(s) ==
  /\ life[s] = "discarding"
  /\ life' = [life EXCEPT ![s] = None] /\ Answered(s, "done", "done")
  /\ \/ checkout' = (IF made[s] = "made" THEN None ELSE checkout) /\ UNCHANGED mishaps
     \/ Broke /\ UNCHANGED checkout
  /\ UNCHANGED <<rec, elsewhere, forced, asking, host, made, lead, end, sweep, redo>>

\* The leader is built.  A dispatcher that is closing lets go of the Team here, its record
\* still "starting"; otherwise startCreated prompts the leader, if there is a prompt.
Seated(s) ==
  /\ life[s] = "seating"
  /\ IF Accepting
       THEN /\ UNCHANGED calls
            /\ \/ life' = [life EXCEPT ![s] = "prompting"] /\ lead' = [lead EXCEPT ![s] = "up"]
               \/ life' = [life EXCEPT ![s] = "marking"] /\ lead' = [lead EXCEPT ![s] = "idle"]
       ELSE /\ life' = [life EXCEPT ![s] = None] /\ lead' = [lead EXCEPT ![s] = "idle"]
            /\ Answered(s, "done", "done")
  /\ UNCHANGED <<disk, asking, host, made, end, sweep, redo, mishaps>>

\* A step of the creation fails once its record is published.
CreationFails(s) ==
  /\ life[s] \in {"seating", "prompting", "marking", "opening"} /\ Broke
  /\ life' = [life EXCEPT ![s] = "abandoning"]
  /\ UNCHANGED <<disk, asking, host, calls, made, lead, end, sweep, redo>>

\* The start of the first turn may hang, until the leader is stopped: then it is refused ...
PromptRefused(s) ==
  /\ life[s] = "prompting" /\ lead[s] # "up"
  /\ life' = [life EXCEPT ![s] = "abandoning"]
  /\ UNCHANGED <<disk, asking, host, calls, made, lead, end, sweep, redo, mishaps>>

\* ... or it is taken, perhaps just before the stop.
PromptTaken(s) ==
  /\ life[s] = "prompting" /\ life' = [life EXCEPT ![s] = "marking"]
  /\ UNCHANGED <<disk, asking, host, calls, made, lead, end, sweep, redo, mishaps>>

\* The submission and startCreated both write "running": the second changes nothing.
Marked(s) ==
  /\ life[s] = "marking" /\ Running
  /\ life' = [life EXCEPT ![s] = "opening"]
  /\ UNCHANGED <<elsewhere, checkout, forced, asking, host, calls, made, lead, end, sweep, redo, mishaps>>

\* track, evict: a Team its own leader has dissolved meanwhile is dropped at once.
Tracked(s) == life' = [life EXCEPT ![s] =
  IF end[s] \in {"reclaiming", "settling", "over"} THEN "releasing" ELSE "live"]

\* refuseIfClosing: a Team that is held while the dispatcher closes is stopped, and nobody gets it.
Held(s) ==
  IF Accepting
    THEN Answered(s, "done", "deciding") /\ UNCHANGED lead
    ELSE /\ Answered(s, "done", "done")
         /\ lead' = [lead EXCEPT ![s] = IF @ = "up" THEN "stopping" ELSE @]

\* startAdmissions, and the collection takes the Team.
Opened(s) ==
  /\ life[s] = "opening" /\ Tracked(s) /\ Held(s) /\ made' = [made EXCEPT ![s] = None]
  /\ UNCHANGED <<disk, asking, host, end, sweep, redo, mishaps>>

----------------------------------------
(* abandonCreated                                                          *)

AbandonWritten(s) ==
  /\ life[s] = "abandoning"
  /\ Closed(CASE made[s] = "made" -> "pending" [] made[s] = "found" -> "active"
              [] OTHER -> None, rec.force)
  /\ life' = [life EXCEPT ![s] = "razing"]
  /\ UNCHANGED <<elsewhere, checkout, forced, asking, host, calls, made, lead, end, sweep, redo, mishaps>>

AbandonFails(s) ==
  /\ life[s] = "abandoning" /\ Broke
  /\ life' = [life EXCEPT ![s] = "stranded"]
  /\ UNCHANGED <<disk, asking, host, calls, made, lead, end, sweep, redo>>

Razed(s) == lead[s] \in {None, "closed", "stuck"}

\* Only a durable "closed" may ask for the checkout.
AfterAbandon(stage) == IF stage = "razing" THEN "reclaiming" ELSE "retiring"

ChildrenGone(s) ==
  /\ life[s] \in {"razing", "stranded"} /\ Razed(s)
  /\ life' = [life EXCEPT ![s] = AfterAbandon(life[s])]
  /\ UNCHANGED <<disk, asking, host, calls, made, lead, end, sweep, redo, mishaps>>

----------------------------------------
(* get, open, rebuild                                                      *)

\* The construction a call joins.
Joins == Constructing

\* open(): a record that is absent or closed has no Team to reach.
NothingToOpen(c) ==
  /\ pc[c] = "opening" /\ rec.status \in {None, "closed"} /\ Go(c, "done")
  /\ UNCHANGED <<disk, asking, host, life, made, lead, end, sweep, redo, mishaps>>

Opens(c, s) ==
  /\ pc[c] = "opening" /\ rec.status \notin {None, "closed"}
  /\ \/ s \in Live /\ GoAt(c, "deciding", s) /\ UNCHANGED <<life, made, lead, end>>
     \/ Live = {} /\ s \in Joins /\ GoAt(c, "joined", s) /\ UNCHANGED <<life, made, lead, end>>
     \/ Live = {} /\ Joins = {} /\ Fresh(s, "rebuilding") /\ GoAt(c, "joined", s)
  /\ UNCHANGED <<disk, asking, host, sweep, redo, mishaps>>

\* recover(): at start every open Team is rebuilt.
Recovers(s) ==
  /\ host = "recovering" /\ rec.status \notin {None, "closed"}
  /\ Live = {} /\ Constructing = {} /\ Fresh(s, "rebuilding")
  /\ UNCHANGED <<disk, asking, host, calls, sweep, redo, mishaps>>

Rebuilt(s) ==
  /\ life[s] = "rebuilding"
  /\ life' = [life EXCEPT ![s] = "live"]
  /\ lead' = [lead EXCEPT ![s] = "idle"]
  /\ Answered(s, "done", IF Accepting THEN "deciding" ELSE "done")
  /\ UNCHANGED <<disk, asking, host, made, end, sweep, redo, mishaps>>

\* A rebuild that fails, fails whoever waits for it; recover() then fails the start.
RebuildFails(s) ==
  /\ life[s] = "rebuilding" /\ Broke
  /\ life' = [life EXCEPT ![s] = None] /\ Answered(s, "done", "done")
  /\ host' \in IF host = "recovering" THEN {host, "fenced"} ELSE {host}
  /\ UNCHANGED <<disk, asking, made, lead, end, sweep, redo>>

----------------------------------------
(* submitInput, and the leader                                             *)

Fenced(s) == end[s] # None \/ rec.status = "closed"   \* assertOpen throws

\* A leader that is being stopped or closed answers "stopped".
Turns(c, s) ==
  /\ c \in Submits /\ pc[c] = "deciding" /\ at[c] = s
  /\ IF Fenced(s) \/ lead[s] \notin {"idle", "up"}
       THEN Go(c, "done") /\ UNCHANGED lead
       ELSE Go(c, "submitting") /\ lead' = [lead EXCEPT ![s] = "up"]
  /\ UNCHANGED <<disk, asking, host, life, made, end, sweep, redo, mishaps>>

\* The leader takes the turn, which may leave work in the checkout; or it does not.
Submitted(c) ==
  /\ pc[c] = "submitting"
  /\ \/ /\ Go(c, IF rec.status = "starting" THEN "noting" ELSE "done")
        /\ checkout' \in IF checkout = "clean" THEN {"clean", "dirty"} ELSE {checkout}
     \/ Go(c, "done") /\ UNCHANGED checkout
  /\ UNCHANGED <<rec, elsewhere, forced, asking, host, life, made, lead, end, sweep, redo, mishaps>>

Noted(c) ==
  /\ pc[c] = "noting" /\ Go(c, "done")
  /\ \/ Running /\ UNCHANGED mishaps
     \/ Broke /\ UNCHANGED rec
  /\ UNCHANGED <<elsewhere, checkout, forced, asking, host, life, made, lead, end, sweep, redo>>

\* No submission of this leader is in flight.
LeaderQuiet(s) == life[s] # "prompting" /\ \A c \in At(s) : pc[c] # "submitting"

\* destroyChildren closes the leader ...
LeaderCloses(s) ==
  /\ end[s] = "razing" \/ life[s] \in {"razing", "stranded"}
  /\ lead[s] \in {"idle", "up", "stopping"}
  /\ lead' = [lead EXCEPT ![s] = "closing"]
  /\ UNCHANGED <<disk, asking, host, calls, life, made, end, sweep, redo, mishaps>>

\* ... and a close, like a stop, is over when its submissions are; its runtime may be stuck.
LeaderRests(s) ==
  /\ lead[s] \in {"stopping", "closing"} /\ LeaderQuiet(s)
  /\ \/ lead' = [lead EXCEPT ![s] = IF @ = "closing" THEN "closed" ELSE "idle"] /\ UNCHANGED mishaps
     \/ Broke /\ lead' = [lead EXCEPT ![s] = "stuck"]
  /\ UNCHANGED <<disk, asking, host, calls, life, made, end, sweep, redo>>

----------------------------------------
(* dissolve                                                                *)

\* The leader dissolves its own Team (admitLeaderTools).
LeaderDissolves(c, s) ==
  /\ Accepting /\ c \in Dissolves /\ pc[c] = "idle"
  /\ lead[s] = "up" /\ rec.status # "closed"
  /\ GoAt(c, "deciding", s)
  /\ UNCHANGED <<disk, asking, host, life, made, lead, end, sweep, redo, mishaps>>

\* Without force the checkout is assessed first; with force, or after a second look, the
\* dissolve begins behind its receipt, unless there is one.
Decides(c, s) ==
  /\ c \in Dissolves /\ pc[c] = "deciding" /\ at[c] = s
  /\ IF end[s] # None
       THEN Go(c, "done") /\ UNCHANGED <<end, forced>>
       ELSE \/ Go(c, "assessing") /\ UNCHANGED <<end, forced>>
            \/ Go(c, "done") /\ end' = [end EXCEPT ![s] = "forcing"] /\ forced' = TRUE
  /\ UNCHANGED <<rec, elsewhere, checkout, asking, host, life, made, lead, sweep, redo, mishaps>>

\* A checkout with work in it, or git, refuses.
Assessed(c, s) ==
  /\ pc[c] = "assessing" /\ at[c] = s /\ Go(c, "done")
  /\ \/ Broke /\ UNCHANGED end
     \/ /\ UNCHANGED mishaps
        /\ end' = IF end[s] # None \/ (rec.tree = "active" /\ checkout = "dirty")
                    THEN end ELSE [end EXCEPT ![s] = "writing"]
  /\ UNCHANGED <<disk, asking, host, life, made, lead, sweep, redo>>

\* dissolveRecordPatch: what is left to reclaim.
Reclaimable == CASE rec.tree = None -> None [] checkout = None -> "deleted" [] OTHER -> "pending"

DissolveWritten(s) ==
  /\ end[s] \in {"writing", "forcing"}
  /\ Closed(Reclaimable, end[s] = "forcing" /\ Reclaimable = "pending")
  /\ end' = [end EXCEPT ![s] = "razing"]
  /\ UNCHANGED <<elsewhere, checkout, forced, asking, host, calls, life, made, lead, sweep, redo, mishaps>>

\* The one way back: nothing was written, and the fence goes.
DissolveFails(s) ==
  /\ end[s] \in {"writing", "forcing"} /\ Broke
  /\ end' = [end EXCEPT ![s] = None]
  /\ UNCHANGED <<disk, asking, host, calls, life, made, lead, sweep, redo>>

\* closeFromRecord: the collection drops the Team it holds.
DissolveRazed(s) ==
  /\ end[s] = "razing" /\ Razed(s)
  /\ end' = [end EXCEPT ![s] = "reclaiming"]
  /\ life' = [life EXCEPT ![s] = IF @ = "live" THEN "releasing" ELSE @]
  /\ UNCHANGED <<disk, asking, host, calls, made, lead, sweep, redo, mishaps>>

----------------------------------------
(* settleTeamWorktreeCleanup: for an abandoned creation, a dissolve, a start *)

\* Mutant: a reclaim always removes with force.
RemovableAlways == TRUE

\* cleanup(): git removes a checkout with work in it only with force; or fails.
Removable == checkout # "dirty" \/ rec.force

Removes ==
  \/ checkout' = (IF Removable THEN None ELSE checkout) /\ UNCHANGED mishaps
  \/ Broke /\ UNCHANGED checkout

\* The step of a reclaim: nothing to do, removed, or kept back.
Reclaims(stage, next) ==
  /\ stage = "reclaiming"
  /\ \/ rec.tree # "pending" /\ next = "over" /\ UNCHANGED <<checkout, mishaps>>
     \/ rec.tree = "pending" /\ Removes /\ next = IF mishaps' = mishaps THEN "settling" ELSE "over"

\* Its outcome is recorded, or the pending fact stands for the next start.
Settles(stage) ==
  /\ stage = "settling"
  /\ \/ /\ rec' = [rec EXCEPT !.tree = IF checkout = None THEN "deleted" ELSE "kept", !.force = FALSE]
        /\ UNCHANGED mishaps
     \/ Broke /\ UNCHANGED rec

AbandonReclaims(s) ==
  /\ \/ \E next \in {"settling", "over"} :
          /\ Reclaims(life[s], next) /\ UNCHANGED rec
          /\ life' = [life EXCEPT ![s] = IF next = "over" THEN "retiring" ELSE next]
     \/ Settles(life[s]) /\ UNCHANGED checkout /\ life' = [life EXCEPT ![s] = "retiring"]
  /\ UNCHANGED <<elsewhere, forced, asking, host, calls, made, lead, end, sweep, redo>>

DissolveReclaims(s) ==
  /\ \/ \E next \in {"settling", "over"} :
          /\ Reclaims(end[s], next) /\ UNCHANGED rec /\ end' = [end EXCEPT ![s] = next]
     \/ Settles(end[s]) /\ UNCHANGED checkout /\ end' = [end EXCEPT ![s] = "over"]
  /\ UNCHANGED <<elsewhere, forced, asking, host, calls, life, made, lead, sweep, redo>>

StartReclaims ==
  /\ \/ \E next \in {"settling", "over"} :
          /\ Reclaims(redo, next) /\ UNCHANGED rec
          /\ redo' = IF next = "over" THEN None ELSE next
     \/ Settles(redo) /\ UNCHANGED checkout /\ redo' = None
  /\ UNCHANGED <<elsewhere, forced, asking, host, calls, life, made, lead, end, sweep>>

\* release(): the hold on the record outlasts the writes queued through it.
Drained(s) == \A c \in At(s) : pc[c] # "noting"

Released(s) ==
  /\ life[s] \in {"retiring", "releasing"} /\ Drained(s)
  /\ life' = [life EXCEPT ![s] = None]
  /\ IF life[s] = "retiring" THEN Answered(s, "done", "done") ELSE UNCHANGED calls
  /\ UNCHANGED <<disk, asking, host, made, lead, end, sweep, redo, mishaps>>

----------------------------------------
(* The dispatcher starts, closes, dies                                     *)

Recovered ==
  /\ host = "recovering" /\ host' = "up"
  /\ rec.status \in {None, "closed"} \/ Live # {}
  /\ UNCHANGED <<disk, asking, calls, life, made, lead, end, sweep, redo, mishaps>>

\* stopForHost goes over the Teams that are live or starting.
Asked == [s \in Services |-> IF s \in Live \cup Starting THEN "asked" ELSE None]

AskedAgain == Asked

CloseHost ==
  /\ Accepting /\ host' = "fenced" /\ sweep' = Asked
  /\ UNCHANGED <<disk, asking, calls, life, made, lead, end, redo, mishaps>>

\* A leader that is closing, closed or stuck is not waited for.
SweepsLeader(s) ==
  /\ sweep[s] = "asked"
  /\ IF lead[s] \in {"up", "stopping"}
       THEN lead' = [lead EXCEPT ![s] = "stopping"] /\ sweep' = [sweep EXCEPT ![s] = "waiting"]
       ELSE sweep' = [sweep EXCEPT ![s] = None] /\ UNCHANGED lead
  /\ UNCHANGED <<disk, asking, host, calls, life, made, end, redo, mishaps>>

SweptLeader(s) ==
  /\ sweep[s] = "waiting" /\ lead[s] \notin {"stopping", "closing"} /\ Drained(s)
  /\ sweep' = [sweep EXCEPT ![s] = None]
  /\ UNCHANGED <<disk, asking, host, calls, life, made, lead, end, redo, mishaps>>

Swept == \A s \in Services : sweep[s] = None

\* The first sweep, the drain of what was admitted, the second sweep.
SweepEnds ==
  /\ Swept
  /\ \/ host = "fenced" /\ host' = "swept" /\ UNCHANGED sweep
     \/ host = "drained" /\ host' = "closed" /\ UNCHANGED sweep
     \/ /\ host = "swept" /\ \A c \in Calls : Over(c)
        /\ host' = "drained" /\ sweep' = AskedAgain
  /\ UNCHANGED <<disk, asking, calls, life, made, lead, end, redo, mishaps>>

\* The process dies, or ends after its close, and the next one starts.
Crash ==
  /\ Broke
  /\ host' = "recovering"
  /\ redo' = IF rec.status = "closed" /\ rec.tree = "pending" THEN "reclaiming" ELSE None
  /\ pc' = [c \in Calls |-> IF pc[c] = "idle" THEN "idle" ELSE "done"]
  /\ at' = [c \in Calls |-> None]
  /\ life' = [s \in Services |-> None] /\ made' = [s \in Services |-> None]
  /\ lead' = [s \in Services |-> None] /\ end' = [s \in Services |-> None]
  /\ sweep' = [s \in Services |-> None]
  /\ UNCHANGED <<disk, asking>>

----------------------------------------
CreateSteps(s) ==
  \/ Acquired(s) \/ Prepared(s) \/ Published(s) \/ Discarded(s) \/ Seated(s)
  \/ PromptRefused(s) \/ Marked(s) \/ Opened(s)
  \/ AbandonWritten(s) \/ ChildrenGone(s) \/ AbandonReclaims(s)
  \/ Rebuilt(s) \/ Released(s)

EndSteps(s) == DissolveWritten(s) \/ DissolveRazed(s) \/ DissolveReclaims(s)

LeaderSteps(s) == LeaderCloses(s) \/ LeaderRests(s)

SweepSteps(s) == SweepsLeader(s) \/ SweptLeader(s)

\* A start of the leader returns if it is cut off by a stop.  One that a call admitted earlier
\* makes behind the first sweep is assumed to: lifecycle.ts:241-244 says that the drain waits
\* for it in vain otherwise.
Returns(c) == \E s \in Services : at[c] = s /\ (lead[s] # "up" \/ host = "swept")

CallSteps(c) ==
  \/ Looks(c) \/ CreatesElsewhere(c) \/ NothingToOpen(c)
  \/ Returns(c) /\ Submitted(c)
  \/ Noted(c)
  \/ \E s \in Services : Opens(c, s) \/ Assessed(c, s)

\* A call that has its Team goes on at once: nothing from outside comes in between.
Decisions == \E c \in Calls, s \in Services : Turns(c, s) \/ Decides(c, s)
Quiet == \A c \in Calls : pc[c] # "deciding"

Expected ==
  \/ \E s \in Services : CreateSteps(s) \/ EndSteps(s) \/ LeaderSteps(s) \/ SweepSteps(s)
  \/ \E c \in Calls : CallSteps(c)
  \/ SweepEnds

Unexpected ==
  \/ \E c \in Calls : Enter(c) \/ Submitted(c)
  \/ \E s \in Services :
       \/ PromptTaken(s) \/ PrepareFails(s) \/ PublishFails(s) \/ CreationFails(s) \/ AbandonFails(s)
       \/ RebuildFails(s) \/ DissolveFails(s) \/ Recovers(s)
       \/ \E c \in Calls : CreatesHere(c, s) \/ LeaderDissolves(c, s)
  \/ StartReclaims \/ Recovered \/ CloseHost \/ Crash

Next == Decisions \/ (Quiet /\ (Expected \/ Unexpected))

Spec == Init /\ [][Next]_vars

\* The event loop, the disk and git answer, and so does a runtime that is told to stop; one
\* that is starting need not.  A process takes finitely many of these steps, so one fairness
\* condition serves every construction, dissolve and call.
Owed == Decisions \/ (Quiet /\ Expected)
FairSpec == Spec /\ WF_vars(Owed)

----------------------------------------
\* The stages of a call, of a service, of a leader and of a dissolve.
Paths == {"idle", "asked", "choosing", "redrawing", "making", "opening", "joined", "deciding",
          "submitting", "noting", "assessing", "done"}
Lives == {None, "acquiring", "preparing", "publishing", "discarding", "seating", "prompting",
          "marking", "opening", "live", "abandoning", "razing", "stranded", "reclaiming", "settling",
          "retiring", "releasing", "rebuilding"}
Leads == {None, "idle", "up", "stopping", "closing", "closed", "stuck"}
Ends == {None, "writing", "forcing", "razing", "reclaiming", "settling", "over"}

Records == [status : {None, "starting", "running", "closed"}, by : Requests \cup {None},
            tree : {None, "active", "pending", "deleted", "kept"}, force : BOOLEAN]

TypeOK ==
  /\ rec \in Records
  /\ elsewhere \in [Requests -> Nat] /\ checkout \in {None, "clean", "dirty"} /\ forced \in BOOLEAN
  /\ asking \in Askings
  /\ host \in {"recovering", "up", "fenced", "swept", "drained", "closed"}
  /\ pc \in [Calls -> Paths] /\ at \in [Calls -> Services \cup {None}]
  /\ life \in [Services -> Lives] /\ made \in [Services -> {None, "borrowed", "found", "made"}]
  /\ lead \in [Services -> Leads] /\ end \in [Services -> Ends]
  /\ sweep \in [Services -> {None, "asked", "waiting"}]
  /\ redo \in {None, "reclaiming", "settling"}
  /\ mishaps \in 0..MaxMishaps

\* A closed Team stays closed, whatever was queued before its record said so (store.ts:268).
ClosedIsFinal == [][rec.status = "closed" => rec'.status = "closed"]_vars

\* One request id makes one Team, however often it is repeated and whenever the process dies
\* (index.ts:139-150).
OneTeamPerRequest ==
  \A q \in Requests : elsewhere[q] + (IF rec.by = q THEN 1 ELSE 0) <= 1

\* One object at a time speaks for the Team, from its construction to the release of its
\* record ("one Team, one construction"), and whoever has a write to make still holds it.
OneOwner ==
  /\ Cardinality(Owners) <= 1
  /\ \A c \in Calls : pc[c] = "noting" => life[at[c]] # None \/ end[at[c]] \notin {None, "over"}

\* A create that is repeated makes one Team, and one service owns its record
\* (service/team/index.ts).
OneTeamOneOwner == OneTeamPerRequest /\ OneOwner

\* The checkout of a Team whose record is open is never removed, and one with work in it
\* only on a dissolve that was forced.
CheckoutOutlivesItsTeam ==
  [][checkout # None /\ checkout' = None =>
       /\ rec.status \in {None, "closed"}
       /\ checkout = "dirty" => forced]_vars

\* The dispatcher's close leaves no leader running, but for one that a dissolve is closing.
ClosedHostRunsNoTeam ==
  host = "closed" => \A s \in Services :
    lead[s] \in {"up", "stopping", "closing"} => end[s] = "razing"

Dissolving(s) == end[s] \notin {None, "over"}

\* A dissolve that was accepted ends: with the Team closed and its reclaim tried, or with the
\* fence down again.  And the close of the dispatcher ends, though the start of a leader may
\* hang: the first sweep cuts off what the drain would wait for, a Team that is still
\* starting included.
DissolvesAndClosesEnd ==
  /\ (\E s \in Services : Dissolving(s)) ~> \A s \in Services : ~Dissolving(s)
  /\ host = "fenced" ~> host \in {"closed", "recovering"}
========================================
