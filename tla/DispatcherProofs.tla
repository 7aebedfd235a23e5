-------------------------- MODULE DispatcherProofs --------------------------
(***************************************************************************)
(* Theorems about a dispatcher: what the runs check of its parts one at a  *)
(* time holds of all of them side by side, for every value of the          *)
(* constants.                                                              *)
(*                                                                         *)
(* First one Team name, for any number of creates, submits, dissolves,     *)
(* request ids and services, and any number of mishaps and deaths of the   *)
(* host.  TeamInv is inductive.  Each group of variables has a formula     *)
(* that says what a step may make of it (RecStep, LifeStep, CallStep,      *)
(* EndStep): one lemma shows that every step is such a step (RecMoves,     *)
(* LifeMoves, CallMoves, EndMoves), and the parts of the invariant are     *)
(* kept by those formulas alone.  On it rest who leads a Team and who has  *)
(* yet to give it back (SeatInv, MakerInv, LeadInv, CloseInv).             *)
(*                                                                         *)
(* Then the tool calls, for any number of calls, tools and generations of  *)
(* the runtime, and each kind of agent; the start and the close, for any   *)
(* Channels and work; the services of one TeamMate and the sweeps of the   *)
(* close (CollectionInv); and the checkouts, for any names and calls       *)
(* (CheckoutInv).                                                          *)
(***************************************************************************)
EXTENDS Dispatcher, FiniteSetTheorems, TLAPS

\* The stages of a creation before its record is published, and those of a call with its Team.
Unpublished == {"preparing", "publishing", "discarding"}
WithTeam == {"deciding", "submitting", "noting", "assessing"}

\* A create that has begun to look for a name.
Active(c) == pc[c] \in {"choosing", "redrawing", "making"}

\* It has none yet, nor a record.
Unaccepted(c) ==
  \/ pc[c] \in {"choosing", "redrawing"}
  \/ pc[c] = "making" /\ life[at[c]] \in {"acquiring"} \cup Unpublished

\* One construction, one owner; whoever owns it has read the record as its stage says.
LifeInv ==
  /\ \A s, t \in Constructing : s = t
  /\ \A s, t \in Owners : s = t
  /\ \A s \in Services :
       /\ life[s] \in Unpublished => rec.status = None
       /\ life[s] \notin {None, "acquiring"} \cup Unpublished => rec.status # None
       /\ life[s] = "releasing" => rec.status = "closed"

\* What the record says of leaders, dissolves and the checkout.
RecordInv ==
  /\ rec.status = None =>
       /\ \A s \in Services : lead[s] = None /\ end[s] = None
       /\ \A c \in Calls : pc[c] \notin WithTeam
       /\ checkout # "dirty"
  /\ \A s \in Services :
       /\ end[s] \in {"razing", "reclaiming", "settling", "over"} => rec.status = "closed"
       /\ end[s] = "forcing" => forced
  /\ rec.tree = "pending" => rec.status = "closed"
  /\ rec.force => forced

\* Where a call is with its Team: a turn is given only by a Team that was live.
CallInv ==
  /\ \A c \in Calls : pc[c] \in {"making", "joined"} \cup WithTeam => at[c] \in Services
  /\ \A c \in Calls : pc[c] \in {"asked", "choosing", "redrawing", "making"} => c \in Creates
  /\ \A c \in Calls : pc[c] \in {"submitting", "noting"} => c \in Submits
  /\ \A c \in Submits : pc[c] \in WithTeam => life[at[c]] = "live" \/ rec.status = "closed"
  /\ \A c \in Calls : pc[c] = "noting" => life[at[c]] \in {"live", "releasing"}

\* One create of a request id looks for a name, and only while no Team carries the id.
AskInv ==
  /\ \A c, d \in Creates : asking[c] = asking[d] /\ Active(c) /\ Active(d) => c = d
  /\ \A c \in Creates : Unaccepted(c) => elsewhere[asking[c]] = 0 /\ rec.by # asking[c]

TeamInv == TypeOK /\ LifeInv /\ RecordInv /\ CallInv /\ AskInv /\ OneTeamPerRequest

----------------------------------------
(* What the helpers do                                                     *)

\* A mishap is counted.
LEMMA BrokeFacts ==
  ASSUME TeamAssumption, mishaps \in 0..MaxMishaps, Broke
  PROVE  mishaps' \in 0..MaxMishaps
  BY DEF TeamAssumption, Broke

\* A call goes on, and no other.
LEMMA GoFacts ==
  ASSUME pc \in [Calls -> Paths], at \in [Calls -> Services \cup {None}],
         NEW c \in Calls, NEW where \in Paths, NEW s \in Services \cup {None}, GoAt(c, where, s)
  PROVE  /\ pc' \in [Calls -> Paths] /\ at' \in [Calls -> Services \cup {None}]
         /\ \A d \in Calls : pc'[d] = IF d = c THEN where ELSE pc[d]
         /\ \A d \in Calls : at'[d] = IF d = c THEN s ELSE at[d]
  BY DEF GoAt

\* A call that keeps its service, or is done with it.
LEMMA GoesFacts ==
  ASSUME pc \in [Calls -> Paths], at \in [Calls -> Services \cup {None}],
         NEW c \in Calls, NEW where \in Paths, Go(c, where)
  PROVE  /\ pc' \in [Calls -> Paths] /\ at' \in [Calls -> Services \cup {None}]
         /\ \A d \in Calls : pc'[d] = IF d = c THEN where ELSE pc[d]
         /\ \A d \in Calls : at'[d] = IF d = c /\ where = "done" THEN None ELSE at[d]
<1>1. GoAt(c, where, IF where = "done" THEN None ELSE at[c])
  BY DEF Go
<1>2. (IF where = "done" THEN None ELSE at[c]) \in Services \cup {None}
  OBVIOUS
<1> QED BY <1>1, <1>2, GoFacts

\* Those who wait for a construction are answered, and nobody else.
LEMMA AnsweredFacts ==
  ASSUME pc \in [Calls -> Paths], at \in [Calls -> Services \cup {None}],
         NEW s \in Services, NEW creator \in Paths, NEW joined \in Paths, Answered(s, creator, joined)
  PROVE  /\ pc' \in [Calls -> Paths] /\ at' \in [Calls -> Services \cup {None}]
         /\ \A d \in Calls : pc'[d] = IF at[d] = s /\ pc[d] = "making" THEN creator
                                      ELSE IF at[d] = s /\ pc[d] = "joined" THEN joined ELSE pc[d]
         /\ \A d \in Calls : at'[d] = IF pc'[d] \in {"redrawing", "opening", "done"} THEN None ELSE at[d]
  BY DEF Answered

\* A new service is one that nobody works with.
LEMMA FreshFacts ==
  ASSUME NEW s \in Services, NEW stage, Fresh(s, stage)
  PROVE  /\ s \in Unused /\ life[s] = None /\ At(s) = {}
         /\ life' = [life EXCEPT ![s] = stage] /\ made' = [made EXCEPT ![s] = None]
         /\ lead' = [lead EXCEPT ![s] = None] /\ end' = [end EXCEPT ![s] = None]
  BY DEF Fresh, Unused

----------------------------------------
(* What a step makes of each variable has its type                       *)

\* What a step makes of each variable has its type; the rest is as it was.
LEMMA CreateTypes ==
  ASSUME TypeOK, NEW s \in Services,
         \/ Acquired(s) \/ Prepared(s) \/ Published(s) \/ Discarded(s) \/ Seated(s)
         \/ PromptRefused(s) \/ Marked(s) \/ Opened(s)
  PROVE  TypeOK'
<1> USE TeamAssumption DEF TypeOK
<1>m. Broke => mishaps' \in 0..MaxMishaps
  BY BrokeFacts
<1>l. ASSUME NEW l \in Lives, life' = [life EXCEPT ![s] = l]
      PROVE  life' \in [Services -> Lives]
  BY <1>l
<1>r. Running => rec' \in Records
  BY DEF Running, Merged, Records
<1>1. CASE Acquired(s)
  <2>1. life' \in [Services -> Lives]
    BY <1>1, <1>l DEF Acquired, Lives, None
  <2>2. pc' \in [Calls -> Paths] /\ at' \in [Calls -> Services \cup {None}]
    BY <1>1, AnsweredFacts DEF Acquired, calls, Paths
  <2> QED BY <1>1, <2>1, <2>2 DEF Acquired, disk
<1>2. CASE Prepared(s)
  <2>1. life' \in [Services -> Lives]
    BY <1>2, <1>l DEF Prepared, Lives
  <2>2. made' \in [Services -> {None, "borrowed", "found", "made"}]
    BY <1>2 DEF Prepared
  <2>3. checkout' \in {None, "clean", "dirty"}
    BY <1>2 DEF Prepared
  <2> QED BY <1>2, <2>1, <2>2, <2>3 DEF Prepared, calls
<1>3. CASE Published(s)
  <2>1. life' \in [Services -> Lives]
    BY <1>3, <1>l DEF Published, Lives
  <2>2. rec' \in Records
    <3>1. PICK c \in Creates : rec' = [status |-> "starting", by |-> asking[c], force |-> FALSE,
                tree |-> IF made[s] = "borrowed" THEN None ELSE "active"]
      BY <1>3 DEF Published
    <3>2. asking[c] \in Requests
      BY DEF TeamAssumption
    <3> QED BY <3>1, <3>2 DEF Records
  <2> QED BY <1>3, <2>1, <2>2 DEF Published, calls
<1>4. CASE Discarded(s)
  <2>1. life' \in [Services -> Lives]
    BY <1>4, <1>l DEF Discarded, Lives
  <2>2. pc' \in [Calls -> Paths] /\ at' \in [Calls -> Services \cup {None}]
    BY <1>4, AnsweredFacts DEF Discarded, Paths
  <2>3. checkout' \in {None, "clean", "dirty"} /\ mishaps' \in 0..MaxMishaps
    BY <1>4, <1>m DEF Discarded
  <2> QED BY <1>4, <2>1, <2>2, <2>3 DEF Discarded
<1>5. CASE Seated(s)
  <2>1. life' \in [Services -> Lives]
    BY <1>5, <1>l DEF Seated, Lives
  <2>2. pc' \in [Calls -> Paths] /\ at' \in [Calls -> Services \cup {None}]
    BY <1>5, AnsweredFacts DEF Seated, Paths, calls
  <2>3. lead' \in [Services -> Leads]
    BY <1>5 DEF Seated, Leads
  <2> QED BY <1>5, <2>1, <2>2, <2>3 DEF Seated, disk
<1>6. CASE PromptRefused(s)
  <2>1. life' \in [Services -> Lives]
    BY <1>6, <1>l DEF PromptRefused, Lives
  <2> QED BY <1>6, <2>1 DEF PromptRefused, disk, calls
<1>7. CASE Marked(s)
  <2>1. life' \in [Services -> Lives]
    BY <1>7, <1>l DEF Marked, Lives
  <2> QED BY <1>7, <1>r, <2>1 DEF Marked, calls
<1>8. CASE Opened(s)
  <2>1. life' \in [Services -> Lives]
    BY <1>8, <1>l DEF Opened, Tracked, Lives
  <2>2. pc' \in [Calls -> Paths] /\ at' \in [Calls -> Services \cup {None}]
    BY <1>8, AnsweredFacts DEF Opened, Held, Paths, calls
  <2>3. lead' \in [Services -> Leads] /\ made' \in [Services -> {None, "borrowed", "found", "made"}]
    BY <1>8 DEF Opened, Held, Leads
  <2> QED BY <1>8, <2>1, <2>2, <2>3 DEF Opened, disk
<1> QED BY <1>1, <1>2, <1>3, <1>4, <1>5, <1>6, <1>7, <1>8

\* An abandoned construction, step by step, keeps the types of what it writes.
LEMMA AbandonTypes ==
  ASSUME TypeOK, NEW s \in Services,
         AbandonWritten(s) \/ ChildrenGone(s) \/ AbandonReclaims(s) \/ Rebuilt(s) \/ Released(s)
  PROVE  TypeOK'
<1> USE TeamAssumption DEF TypeOK
<1>m. Broke => mishaps' \in 0..MaxMishaps
  BY BrokeFacts
<1>l. ASSUME NEW l \in Lives, life' = [life EXCEPT ![s] = l]
      PROVE  life' \in [Services -> Lives]
  BY <1>l
<1>1. CASE AbandonWritten(s)
  <2>1. life' \in [Services -> Lives]
    BY <1>1, <1>l DEF AbandonWritten, Lives
  <2>2. rec' \in Records
    <3>1. made[s] \in {None, "borrowed", "found", "made"}
      OBVIOUS
    <3>2. PICK tree \in {None, "active", "pending", "deleted", "kept"} : Closed(tree, rec.force)
      BY <1>1, <3>1 DEF AbandonWritten
    <3> QED BY <3>2 DEF Closed, Records
  <2> QED BY <1>1, <2>1, <2>2 DEF AbandonWritten, calls
<1>2. CASE ChildrenGone(s)
  <2>1. life' \in [Services -> Lives]
    BY <1>2, <1>l DEF ChildrenGone, AfterAbandon, Lives
  <2> QED BY <1>2, <2>1 DEF ChildrenGone, disk, calls
<1>3. CASE AbandonReclaims(s)
  <2>1. life' \in [Services -> Lives]
    BY <1>3, <1>l DEF AbandonReclaims, Lives
  <2>2. rec' \in Records
    BY <1>3 DEF AbandonReclaims, Settles, Records
  <2>3. checkout' \in {None, "clean", "dirty"} /\ mishaps' \in 0..MaxMishaps
    BY <1>3, <1>m DEF AbandonReclaims, Settles, Reclaims, Removes
  <2> QED BY <1>3, <2>1, <2>2, <2>3 DEF AbandonReclaims, calls
<1>4. CASE Rebuilt(s)
  <2>1. life' \in [Services -> Lives]
    BY <1>4, <1>l DEF Rebuilt, Lives
  <2>2. pc' \in [Calls -> Paths] /\ at' \in [Calls -> Services \cup {None}]
    BY <1>4, AnsweredFacts DEF Rebuilt, Paths
  <2>3. lead' \in [Services -> Leads]
    BY <1>4 DEF Rebuilt, Leads
  <2> QED BY <1>4, <2>1, <2>2, <2>3 DEF Rebuilt, disk
<1>5. CASE Released(s)
  <2>1. life' \in [Services -> Lives]
    BY <1>5, <1>l DEF Released, Lives
  <2>2. pc' \in [Calls -> Paths] /\ at' \in [Calls -> Services \cup {None}]
    BY <1>5, AnsweredFacts DEF Released, Paths, calls
  <2> QED BY <1>5, <2>1, <2>2 DEF Released, disk
<1> QED BY <1>1, <1>2, <1>3, <1>4, <1>5

\* So does a step that fails.
LEMMA FailureTypes ==
  ASSUME TypeOK, NEW s \in Services,
         \/ PromptTaken(s) \/ PrepareFails(s) \/ PublishFails(s) \/ CreationFails(s) \/ AbandonFails(s)
         \/ RebuildFails(s) \/ DissolveFails(s)
  PROVE  TypeOK'
<1> USE TeamAssumption DEF TypeOK
<1>m. Broke => mishaps' \in 0..MaxMishaps
  BY BrokeFacts
<1>l. ASSUME NEW l \in Lives, life' = [life EXCEPT ![s] = l]
      PROVE  life' \in [Services -> Lives]
  BY <1>l
<1>1. CASE PromptTaken(s)
  BY <1>1, <1>l DEF PromptTaken, Lives, disk, calls
<1>2. CASE PrepareFails(s)
  <2>1. life' \in [Services -> Lives]
    BY <1>2, <1>l DEF PrepareFails, Lives
  <2>2. pc' \in [Calls -> Paths] /\ at' \in [Calls -> Services \cup {None}]
    BY <1>2, AnsweredFacts DEF PrepareFails, Paths
  <2> QED BY <1>2, <1>m, <2>1, <2>2 DEF PrepareFails, disk
<1>3. CASE PublishFails(s)
  BY <1>3, <1>l, <1>m DEF PublishFails, Lives, disk, calls
<1>4. CASE CreationFails(s)
  BY <1>4, <1>l, <1>m DEF CreationFails, Lives, disk, calls
<1>5. CASE AbandonFails(s)
  BY <1>5, <1>l, <1>m DEF AbandonFails, Lives, disk, calls
<1>6. CASE RebuildFails(s)
  <2>1. life' \in [Services -> Lives]
    BY <1>6, <1>l DEF RebuildFails, Lives
  <2>2. pc' \in [Calls -> Paths] /\ at' \in [Calls -> Services \cup {None}]
    BY <1>6, AnsweredFacts DEF RebuildFails, Paths
  <2>3. host' \in {"recovering", "up", "fenced", "swept", "drained", "closed"}
    BY <1>6 DEF RebuildFails
  <2> QED BY <1>6, <1>m, <2>1, <2>2, <2>3 DEF RebuildFails, disk
<1>7. CASE DissolveFails(s)
  <2>1. end' \in [Services -> Ends]
    BY <1>7 DEF DissolveFails, Ends
  <2> QED BY <1>7, <1>m, <2>1 DEF DissolveFails, disk, calls
<1> QED BY <1>1, <1>2, <1>3, <1>4, <1>5, <1>6, <1>7

\* So does a dissolve.
LEMMA EndTypes ==
  ASSUME TypeOK, NEW s \in Services, EndSteps(s) \/ LeaderSteps(s) \/ SweepSteps(s)
  PROVE  TypeOK'
<1> USE TeamAssumption DEF TypeOK
<1>m. Broke => mishaps' \in 0..MaxMishaps
  BY BrokeFacts
<1>l. ASSUME NEW l \in Leads, lead' = [lead EXCEPT ![s] = l]
      PROVE  lead' \in [Services -> Leads]
  BY <1>l
<1>1. CASE DissolveWritten(s)
  <2>1. rec' \in Records
    <3>1. Reclaimable \in {None, "active", "pending", "deleted", "kept"}
      BY DEF Reclaimable
    <3> QED BY <1>1, <3>1 DEF DissolveWritten, Closed, Records
  <2>2. end' \in [Services -> Ends]
    BY <1>1 DEF DissolveWritten, Ends
  <2> QED BY <1>1, <2>1, <2>2 DEF DissolveWritten, calls
<1>2. CASE DissolveRazed(s)
  <2>1. end' \in [Services -> Ends]
    BY <1>2 DEF DissolveRazed, Ends
  <2>2. life' \in [Services -> Lives]
    BY <1>2 DEF DissolveRazed, Lives
  <2> QED BY <1>2, <2>1, <2>2 DEF DissolveRazed, disk, calls
<1>3. CASE DissolveReclaims(s)
  <2>1. end' \in [Services -> Ends]
    BY <1>3 DEF DissolveReclaims, Ends
  <2>2. rec' \in Records
    BY <1>3 DEF DissolveReclaims, Settles, Records
  <2>3. checkout' \in {None, "clean", "dirty"} /\ mishaps' \in 0..MaxMishaps
    BY <1>3, <1>m DEF DissolveReclaims, Settles, Reclaims, Removes
  <2> QED BY <1>3, <2>1, <2>2, <2>3 DEF DissolveReclaims, calls
<1>5. CASE LeaderCloses(s)
  BY <1>5, <1>l DEF LeaderCloses, Leads, disk, calls
<1>6. CASE LeaderRests(s)
  <2>1. lead' \in [Services -> Leads]
    BY <1>6 DEF LeaderRests, Leads
  <2> QED BY <1>6, <1>m, <2>1 DEF LeaderRests, disk, calls
<1>7. CASE SweepsLeader(s)
  <2>1. lead' \in [Services -> Leads] /\ sweep' \in [Services -> {None, "asked", "waiting"}]
    BY <1>7 DEF SweepsLeader, Leads
  <2> QED BY <1>7, <2>1 DEF SweepsLeader, disk, calls
<1>8. CASE SweptLeader(s)
  <2>1. sweep' \in [Services -> {None, "asked", "waiting"}]
    BY <1>8 DEF SweptLeader
  <2> QED BY <1>8, <2>1 DEF SweptLeader, disk, calls
<1> QED BY <1>1, <1>2, <1>3, <1>5, <1>6, <1>7, <1>8 DEF EndSteps, LeaderSteps, SweepSteps

\* So does a call.
LEMMA CallTypes ==
  ASSUME TypeOK, NEW c \in Calls,
         \/ Enter(c) \/ Looks(c) \/ CreatesElsewhere(c) \/ NothingToOpen(c)
         \/ Submitted(c) \/ Noted(c)
  PROVE  TypeOK'
<1> USE TeamAssumption DEF TypeOK
<1>m. Broke => mishaps' \in 0..MaxMishaps
  BY BrokeFacts
<1>g. ASSUME NEW where \in Paths, Go(c, where)
      PROVE  pc' \in [Calls -> Paths] /\ at' \in [Calls -> Services \cup {None}]
  BY <1>g, GoesFacts
<1>1. CASE Enter(c)
  BY <1>1, <1>g DEF Enter, Paths, disk
<1>2. CASE Looks(c)
  BY <1>2, <1>g DEF Looks, Paths, disk
<1>3. CASE CreatesElsewhere(c)
  <2>1. elsewhere' \in [Requests -> Nat]
    BY <1>3 DEF CreatesElsewhere
  <2>2. pc' \in [Calls -> Paths] /\ at' \in [Calls -> Services \cup {None}]
    BY <1>3, <1>g DEF CreatesElsewhere, Paths
  <2>3. mishaps' \in 0..MaxMishaps
    BY <1>3, <1>m DEF CreatesElsewhere
  <2> QED BY <1>3, <2>1, <2>2, <2>3 DEF CreatesElsewhere
<1>4. CASE NothingToOpen(c)
  BY <1>4, <1>g DEF NothingToOpen, Paths, disk
<1>5. CASE Submitted(c)
  <2>1. pc' \in [Calls -> Paths] /\ at' \in [Calls -> Services \cup {None}]
    BY <1>5, <1>g DEF Submitted, Paths
  <2>2. checkout' \in {None, "clean", "dirty"}
    BY <1>5 DEF Submitted
  <2> QED BY <1>5, <2>1, <2>2 DEF Submitted
<1>6. CASE Noted(c)
  <2>1. pc' \in [Calls -> Paths] /\ at' \in [Calls -> Services \cup {None}]
    BY <1>6, <1>g DEF Noted, Paths
  <2>2. rec' \in Records
    BY <1>6 DEF Noted, Running, Merged, Records
  <2>3. mishaps' \in 0..MaxMishaps
    BY <1>6, <1>m DEF Noted
  <2> QED BY <1>6, <2>1, <2>2, <2>3 DEF Noted
<1> QED BY <1>1, <1>2, <1>3, <1>4, <1>5, <1>6

\* So does a call that has found the service it is to ask.
LEMMA CallAtTypes ==
  ASSUME TypeOK, NEW c \in Calls, NEW s \in Services,
         \/ CreatesHere(c, s) \/ Opens(c, s) \/ LeaderDissolves(c, s)
         \/ Turns(c, s) \/ Decides(c, s) \/ Assessed(c, s)
  PROVE  TypeOK'
<1> USE TeamAssumption DEF TypeOK
<1>m. Broke => mishaps' \in 0..MaxMishaps
  BY BrokeFacts
<1>g. ASSUME NEW where \in Paths, Go(c, where) \/ GoAt(c, where, s)
      PROVE  pc' \in [Calls -> Paths] /\ at' \in [Calls -> Services \cup {None}]
  BY <1>g, GoesFacts, GoFacts
<1>f. ASSUME NEW stage \in Lives, Fresh(s, stage)
      PROVE  /\ life' \in [Services -> Lives] /\ made' \in [Services -> {None, "borrowed", "found", "made"}]
             /\ lead' \in [Services -> Leads] /\ end' \in [Services -> Ends]
  BY <1>f, FreshFacts DEF Leads, Ends
<1>1. CASE CreatesHere(c, s)
  BY <1>1, <1>f, <1>g DEF CreatesHere, Lives, Paths, disk
<1>2. CASE Opens(c, s)
  <2>1. pc' \in [Calls -> Paths] /\ at' \in [Calls -> Services \cup {None}]
    BY <1>2, <1>g DEF Opens, Paths
  <2>2. /\ life' \in [Services -> Lives] /\ made' \in [Services -> {None, "borrowed", "found", "made"}]
        /\ lead' \in [Services -> Leads] /\ end' \in [Services -> Ends]
    <3>1. "rebuilding" \in Lives
      BY DEF Lives
    <3> QED BY <1>2, <1>f, <3>1 DEF Opens
  <2> QED BY <1>2, <2>1, <2>2 DEF Opens, disk
<1>4. CASE LeaderDissolves(c, s)
  BY <1>4, <1>g DEF LeaderDissolves, Paths, disk
<1>5. CASE Turns(c, s)
  <2>1. pc' \in [Calls -> Paths] /\ at' \in [Calls -> Services \cup {None}]
    BY <1>5, <1>g DEF Turns, Paths
  <2>2. lead' \in [Services -> Leads]
    BY <1>5 DEF Turns, Leads
  <2> QED BY <1>5, <2>1, <2>2 DEF Turns, disk
<1>6. CASE Decides(c, s)
  <2>1. pc' \in [Calls -> Paths] /\ at' \in [Calls -> Services \cup {None}]
    BY <1>6, <1>g DEF Decides, Paths
  <2>2. end' \in [Services -> Ends] /\ forced' \in BOOLEAN
    BY <1>6 DEF Decides, Ends
  <2> QED BY <1>6, <2>1, <2>2 DEF Decides
<1>7. CASE Assessed(c, s)
  <2>1. pc' \in [Calls -> Paths] /\ at' \in [Calls -> Services \cup {None}]
    BY <1>7, <1>g DEF Assessed, Paths
  <2>2. end' \in [Services -> Ends]
    BY <1>7 DEF Assessed, Ends
  <2>3. mishaps' \in 0..MaxMishaps
    BY <1>7, <1>m DEF Assessed
  <2> QED BY <1>7, <2>1, <2>2, <2>3 DEF Assessed, disk
<1> QED BY <1>1, <1>2, <1>4, <1>5, <1>6, <1>7

\* So does a host that rebuilds its Team from the record.
LEMMA RecoversTypes ==
  ASSUME TypeOK, NEW s \in Services, Recovers(s)
  PROVE  TypeOK'
<1> USE DEF TypeOK
<1>1. "rebuilding" \in Lives /\ None \in Leads /\ None \in Ends
  BY DEF Lives, Leads, Ends
<1>2. /\ life' \in [Services -> Lives] /\ made' \in [Services -> {None, "borrowed", "found", "made"}]
      /\ lead' \in [Services -> Leads] /\ end' \in [Services -> Ends]
  BY <1>1, FreshFacts DEF Recovers
<1> QED BY <1>2 DEF Recovers, disk, calls

\* So do a sweep and a death of the host.
LEMMA HostTypes ==
  ASSUME TypeOK, StartReclaims \/ Recovered \/ CloseHost \/ SweepEnds \/ Crash
  PROVE  TypeOK'
<1> USE TeamAssumption DEF TypeOK
<1>1. CASE Recovered
  BY <1>1 DEF Recovered, disk, calls
<1>a. Asked \in [Services -> {None, "asked", "waiting"}]
  BY DEF Asked
<1>2. CASE CloseHost
  BY <1>2, <1>a DEF CloseHost, disk, calls
<1>3. CASE SweepEnds
  BY <1>3, <1>a DEF SweepEnds, AskedAgain, disk, calls
<1>5. CASE StartReclaims
  <2>1. redo' \in {None, "reclaiming", "settling"}
    BY <1>5 DEF StartReclaims
  <2>2. rec' \in Records
    BY <1>5 DEF StartReclaims, Settles, Records
  <2>3. checkout' \in {None, "clean", "dirty"} /\ mishaps' \in 0..MaxMishaps
    BY <1>5, BrokeFacts DEF StartReclaims, Settles, Reclaims, Removes
  <2> QED BY <1>5, <2>1, <2>2, <2>3 DEF StartReclaims, calls
<1>4. CASE Crash
  <2>1. mishaps' \in 0..MaxMishaps
    BY <1>4, BrokeFacts DEF Crash
  <2>2. /\ life' \in [Services -> Lives] /\ made' \in [Services -> {None, "borrowed", "found", "made"}]
        /\ lead' \in [Services -> Leads] /\ end' \in [Services -> Ends]
        /\ sweep' \in [Services -> {None, "asked", "waiting"}]
    BY <1>4 DEF Crash, Lives, Leads, Ends
  <2>3. pc' \in [Calls -> Paths] /\ at' \in [Calls -> Services \cup {None}]
    BY <1>4 DEF Crash, Paths
  <2>4. redo' \in {None, "reclaiming", "settling"} /\ host' = "recovering" /\ UNCHANGED <<disk, asking>>
    BY <1>4 DEF Crash
  <2> QED BY <2>1, <2>2, <2>3, <2>4 DEF disk
<1> QED BY <1>1, <1>2, <1>3, <1>4, <1>5

\* The first state has the types.
LEMMA InitTypes ==
  ASSUME Init
  PROVE  TypeOK
<1>1. rec \in Records
  BY DEF Init, NoRecord, Records
<1>2. pc \in [Calls -> Paths]
  BY DEF Init, Paths
<1>3. life \in [Services -> Lives] /\ lead \in [Services -> Leads] /\ end \in [Services -> Ends]
  BY DEF Init, Lives, Leads, Ends
<1>4. mishaps \in 0..MaxMishaps
  BY TeamAssumption DEF Init, TeamAssumption
<1> QED BY <1>1, <1>2, <1>3, <1>4 DEF Init, TypeOK

\* Every step keeps them.
LEMMA TypeKept ==
  ASSUME TypeOK, [Next]_vars
  PROVE  TypeOK'
<1>1. CASE UNCHANGED vars
  BY <1>1 DEF vars, disk, calls, TypeOK
<1>2. CASE Decisions
  BY <1>2, CallAtTypes DEF Decisions
<1>3. CASE Expected
  <2>1. ASSUME NEW s \in Services, CreateSteps(s) PROVE TypeOK'
    BY <2>1, CreateTypes, AbandonTypes DEF CreateSteps
  <2>2. ASSUME NEW s \in Services, EndSteps(s) \/ LeaderSteps(s) \/ SweepSteps(s) PROVE TypeOK'
    BY <2>2, EndTypes
  <2>3. ASSUME NEW c \in Calls, CallSteps(c) PROVE TypeOK'
    BY <2>3, CallTypes, CallAtTypes DEF CallSteps
  <2> QED BY <1>3, <2>1, <2>2, <2>3, HostTypes DEF Expected
<1>4. CASE Unexpected
  <2>1. ASSUME NEW c \in Calls, Enter(c) \/ Submitted(c) PROVE TypeOK'
    BY <2>1, CallTypes
  <2>2. ASSUME NEW s \in Services, Recovers(s) PROVE TypeOK'
    BY <2>2, RecoversTypes
  <2>3. ASSUME NEW s \in Services, NEW c \in Calls, CreatesHere(c, s) \/ LeaderDissolves(c, s)
        PROVE  TypeOK'
    BY <2>3, CallAtTypes
  <2>4. ASSUME NEW s \in Services,
               \/ PromptTaken(s) \/ PrepareFails(s) \/ PublishFails(s) \/ CreationFails(s)
               \/ AbandonFails(s) \/ RebuildFails(s) \/ DissolveFails(s)
        PROVE  TypeOK'
    BY <2>4, FailureTypes
  <2> QED BY <1>4, <2>1, <2>2, <2>3, <2>4, HostTypes DEF Unexpected
<1> QED BY <1>1, <1>2, <1>3, <1>4 DEF Next

----------------------------------------
(* The record                                                            *)

\* What a step may make of the record: it is published once, by the construction of
\* that stage, and a closed one stays closed.
RecStep ==
  /\ rec'.status = None => rec.status = None
  /\ rec.status = "closed" => rec'.status = "closed"
  /\ rec.status = None /\ rec'.status # None => \E s \in Services : Published(s)
  /\ rec'.by # rec.by => \E s \in Services : Published(s)
  /\ rec'.tree = "pending" => rec'.status = "closed"
  /\ rec'.force => forced

Parts == TypeOK /\ LifeInv /\ RecordInv /\ CallInv

\* markRunning writes over whatever status the record has, unless it is closed already.
LEMMA MarksRunning ==
  ASSUME TypeOK, rec.status # None, Running
  PROVE  rec'.status # None /\ rec'.by = rec.by /\ rec'.tree = rec.tree /\ rec'.force = rec.force
         /\ (rec.status = "closed" => rec'.status = "closed")
  BY DEF TypeOK, Running, Merged, Records, None

\* A close of the record is a step the record may take.
LEMMA MarksClosed ==
  ASSUME TypeOK, rec.status # None, NEW tree, NEW force, Closed(tree, force), force => forced
  PROVE  RecStep
  BY DEF TypeOK, Closed, Records, RecStep, None

\* The word about the checkout is too: it changes the tree of a closed record only.
LEMMA Settled ==
  ASSUME TypeOK, RecordInv, NEW stage, Settles(stage)
  PROVE  RecStep
<1>1. rec' = rec \/ (rec' = [rec EXCEPT !.tree = rec'.tree, !.force = FALSE] /\ rec'.tree \in {"deleted", "kept"})
  BY DEF Settles, TypeOK, Records
<1> QED BY <1>1 DEF TypeOK, RecordInv, Records, RecStep, None

\* And so is a record left as it is.
LEMMA SameRecord ==
  ASSUME RecordInv, rec' = rec
  PROVE  RecStep
  BY DEF RecordInv, RecStep

\* Every step is one of those.
LEMMA RecMoves ==
  ASSUME Parts, [Next]_vars
  PROVE  RecStep
<1> USE DEF Parts
<1>1. CASE UNCHANGED vars
  BY <1>1, SameRecord DEF vars, disk
<1>2. CASE Decisions
  BY <1>2, SameRecord DEF Decisions, Turns, Decides, disk
<1>3. ASSUME NEW s \in Services, CreateSteps(s)
      PROVE  RecStep
  <2>1. CASE Published(s)
    <3>1. rec.status = None
      BY <2>1 DEF Published, LifeInv, Unpublished
    <3>2. rec'.status = "starting" /\ rec'.force = FALSE /\ rec'.tree \in {None, "active"}
      BY <2>1 DEF Published
    <3> QED BY <2>1, <3>1, <3>2 DEF RecStep, None
  <2>2. CASE Marked(s)
    <3>1. rec.status # None
      BY <2>2 DEF Marked, LifeInv, Unpublished, None
    <3> QED BY <2>2, <3>1, MarksRunning DEF Marked, RecStep, RecordInv
  <2>3. CASE AbandonWritten(s)
    <3>1. rec.status # None
      BY <2>3 DEF AbandonWritten, LifeInv, Unpublished, None
    <3>2. rec.force => forced
      BY DEF RecordInv
    <3> QED BY <2>3, <3>1, <3>2, MarksClosed DEF AbandonWritten
  <2>4. CASE AbandonReclaims(s)
    BY <2>4, Settled, SameRecord DEF AbandonReclaims
  <2>5. CASE \/ Acquired(s) \/ Prepared(s) \/ Discarded(s) \/ Seated(s) \/ PromptRefused(s) \/ Opened(s)
             \/ ChildrenGone(s) \/ Rebuilt(s) \/ Released(s)
    BY <2>5, SameRecord DEF Acquired, Prepared, Discarded, Seated, PromptRefused, Opened, ChildrenGone,
         Rebuilt, Released, disk
  <2> QED BY <1>3, <2>1, <2>2, <2>3, <2>4, <2>5 DEF CreateSteps
<1>4. ASSUME NEW s \in Services, EndSteps(s) \/ LeaderSteps(s) \/ SweepSteps(s)
      PROVE  RecStep
  <2>1. CASE DissolveWritten(s)
    <3>1. rec.status # None
      BY <2>1 DEF DissolveWritten, RecordInv, None
    <3>2. end[s] = "forcing" => forced
      BY DEF RecordInv
    <3> QED BY <2>1, <3>1, <3>2, MarksClosed DEF DissolveWritten
  <2>2. CASE DissolveReclaims(s)
    BY <2>2, Settled, SameRecord DEF DissolveReclaims
  <2>3. CASE DissolveRazed(s) \/ LeaderSteps(s) \/ SweepSteps(s)
    BY <2>3, SameRecord DEF DissolveRazed, LeaderSteps, LeaderCloses, LeaderRests, SweepSteps, SweepsLeader,
         SweptLeader, disk
  <2> QED BY <1>4, <2>1, <2>2, <2>3 DEF EndSteps
<1>5. ASSUME NEW c \in Calls, CallSteps(c)
      PROVE  RecStep
  <2>1. CASE Noted(c)
    <3>1. rec.status # None
      BY <2>1 DEF Noted, RecordInv, WithTeam
    <3> QED BY <2>1, <3>1, MarksRunning, SameRecord DEF Noted, RecStep, RecordInv
  <2>2. CASE ~Noted(c)
    BY <1>5, <2>2, SameRecord DEF CallSteps, Looks, CreatesElsewhere, NothingToOpen, Submitted, Opens, Assessed,
         disk
  <2> QED BY <2>1, <2>2
<1>6. CASE SweepEnds
  BY <1>6, SameRecord DEF SweepEnds, disk
<1>7. CASE StartReclaims
  BY <1>7, Settled, SameRecord DEF StartReclaims
<1>8. CASE Unexpected /\ ~StartReclaims
  BY <1>8, SameRecord DEF Unexpected, Enter, Submitted, PromptTaken, PrepareFails, PublishFails, CreationFails,
       AbandonFails, RebuildFails, DissolveFails, Recovers, CreatesHere, LeaderDissolves, Recovered, CloseHost,
       Crash, disk
<1> QED BY <1>1, <1>2, <1>3, <1>4, <1>5, <1>6, <1>7, <1>8 DEF Next, Expected

----------------------------------------
(* How services move                                                     *)

\* The stages of a construction whose record is published.
Building == {"seating", "prompting", "marking", "opening", "abandoning", "razing", "stranded",
             "reclaiming", "settling", "retiring", "rebuilding"}

\* How a step may move a service to another stage.
Way(s, to) ==
  \/ s \in Unused /\ Constructing = {} /\ to = "acquiring"
  \/ /\ s \in Unused /\ Constructing = {} /\ Live = {} /\ to = "rebuilding"
     /\ rec.status \notin {None, "closed"} /\ rec' = rec
  \/ s \in Constructing /\ to = None
  \/ life[s] = "acquiring" /\ to = "preparing" /\ rec.status = None /\ rec' = rec
  \/ life[s] \in {"preparing", "publishing"} /\ to \in {"publishing", "discarding"} /\ rec' = rec
  \/ Published(s) /\ to = "seating"
  \/ life[s] \in Building /\ to \in Building
  \/ life[s] \in Building /\ to = "live"
  \/ life[s] \in Building \cup {"live"} /\ to = "releasing" /\ rec.status = "closed"
  \/ life[s] = "releasing" /\ to = None /\ Drained(s)

LifeStep ==
  \/ life' = life
  \/ \E s \in Services, to \in Lives : life' = [life EXCEPT ![s] = to] /\ Way(s, to)
  \/ Crash

\* The stages of a service, sorted by what it holds.
LEMMA StageFacts ==
  /\ Lives = {None, "acquiring", "live", "releasing"} \cup Unpublished \cup Building
  /\ \A s \in Services : s \in Constructing <=> life[s] \notin {None, "live", "releasing"}
  /\ \A s \in Services : s \in Owners <=> life[s] \notin {None, "acquiring"}
  /\ \A s \in Services : s \in Live <=> life[s] = "live"
  /\ \A l \in Building : l \notin {None, "acquiring", "live", "releasing"} \cup Unpublished
  /\ \A l \in Unpublished : l \notin {None, "acquiring", "live", "releasing"}
  BY DEF Lives, Unpublished, Building, Constructing, Owners, Live, None

\* A single service that moves a permitted way is a step of the services.
LEMMA Moves ==
  ASSUME NEW s \in Services, NEW to \in Lives, life' = [life EXCEPT ![s] = to], Way(s, to)
  PROVE  LifeStep
  BY DEF LifeStep

\* A creation that goes well moves its service a permitted way.
LEMMA CreateMoves ==
  ASSUME Parts, NEW s \in Services, CreateSteps(s)
  PROVE  LifeStep
<1>0. life[s] \in {None, "live", "releasing"} \/ s \in Constructing
  BY DEF Constructing
<1>1. CASE Acquired(s)
  <2>1. CASE rec.status = None
    <3>1. life' = [life EXCEPT ![s] = "preparing"] /\ rec' = rec /\ life[s] = "acquiring"
      BY <1>1, <2>1 DEF Acquired, disk
    <3> QED BY <2>1, <3>1, Moves DEF Way, Lives
  <2>2. CASE rec.status # None
    <3>1. life' = [life EXCEPT ![s] = None] /\ life[s] = "acquiring"
      BY <1>1, <2>2 DEF Acquired
    <3>2. s \in Constructing
      BY <3>1, StageFacts DEF None
    <3> QED BY <3>1, <3>2, Moves DEF Way, Lives
  <2> QED BY <2>1, <2>2
<1>2. CASE Prepared(s)
  <2>1. life' = [life EXCEPT ![s] = "publishing"] /\ rec' = rec /\ life[s] = "preparing"
    BY <1>2 DEF Prepared
  <2> QED BY <2>1, Moves DEF Way, Lives
<1>3. CASE Published(s)
  <2>1. life' = [life EXCEPT ![s] = "seating"]
    BY <1>3 DEF Published
  <2> QED BY <1>3, <2>1, Moves DEF Way, Lives
<1>4. CASE Discarded(s)
  <2>1. life' = [life EXCEPT ![s] = None] /\ life[s] = "discarding"
    BY <1>4 DEF Discarded
  <2>2. s \in Constructing
    BY <2>1, StageFacts DEF None
  <2> QED BY <2>1, <2>2, Moves DEF Way, Lives
<1>5. CASE Seated(s)
  <2>1. life[s] = "seating" /\ \E to \in {"prompting", "marking", None} : life' = [life EXCEPT ![s] = to]
    BY <1>5 DEF Seated
  <2>2. s \in Constructing
    BY <2>1, StageFacts DEF None
  <2> QED BY <2>1, <2>2, Moves DEF Way, Building, Lives
<1>6. CASE PromptRefused(s) \/ Marked(s)
  <2>1. life[s] \in Building /\ \E to \in {"abandoning", "opening"} : life' = [life EXCEPT ![s] = to]
    BY <1>6 DEF PromptRefused, Marked, Building
  <2> QED BY <2>1, Moves DEF Way, Building, Lives
<1>7. CASE Opened(s)
  <2>1. life[s] \in Building
    BY <1>7 DEF Opened, Building
  <2>2. \/ life' = [life EXCEPT ![s] = "live"]
        \/ life' = [life EXCEPT ![s] = "releasing"] /\ end[s] \in {"reclaiming", "settling", "over"}
    BY <1>7 DEF Opened, Tracked
  <2>3. end[s] \in {"reclaiming", "settling", "over"} => rec.status = "closed"
    BY DEF Parts, RecordInv
  <2> QED BY <2>1, <2>2, <2>3, Moves DEF Way, Lives
<1>8. CASE AbandonWritten(s) \/ ChildrenGone(s) \/ AbandonReclaims(s)
  <2>1. CASE AbandonWritten(s)
    BY <2>1, Moves DEF AbandonWritten, Way, Building, Lives
  <2>2. CASE ChildrenGone(s)
    BY <2>2, Moves DEF ChildrenGone, AfterAbandon, Way, Building, Lives
  <2>3. CASE AbandonReclaims(s)
    <3>1. life[s] \in Building /\ \E to \in {"settling", "retiring"} : life' = [life EXCEPT ![s] = to]
      BY <2>3 DEF AbandonReclaims, Reclaims, Settles, Building
    <3> QED BY <3>1, Moves DEF Way, Building, Lives
  <2> QED BY <1>8, <2>1, <2>2, <2>3
<1>9. CASE Rebuilt(s)
  BY <1>9, Moves DEF Rebuilt, Way, Building, Lives
<1>10. CASE Released(s)
  <2>1. life' = [life EXCEPT ![s] = None] /\ life[s] \in {"retiring", "releasing"} /\ Drained(s)
    BY <1>10 DEF Released
  <2>2. life[s] = "retiring" => s \in Constructing
    BY StageFacts DEF None
  <2> QED BY <2>1, <2>2, Moves DEF Way, Lives
<1> QED BY <1>1, <1>2, <1>3, <1>4, <1>5, <1>6, <1>7, <1>8, <1>9, <1>10 DEF CreateSteps, LifeStep, PromptRefused, Marked

\* So does a step that fails.
LEMMA FailureMoves ==
  ASSUME Parts, NEW s \in Services,
         \/ PromptTaken(s) \/ PrepareFails(s) \/ PublishFails(s) \/ CreationFails(s) \/ AbandonFails(s)
         \/ RebuildFails(s) \/ DissolveFails(s)
  PROVE  LifeStep
<1>1. CASE PromptTaken(s) \/ CreationFails(s) \/ AbandonFails(s)
  <2>1. life[s] \in Building /\ \E to \in {"marking", "abandoning", "stranded"} : life' = [life EXCEPT ![s] = to]
    BY <1>1 DEF PromptTaken, CreationFails, AbandonFails, Building
  <2> QED BY <2>1, Moves DEF Way, Building, Lives
<1>2. CASE PrepareFails(s) \/ RebuildFails(s)
  <2>1. life[s] \in {"preparing", "rebuilding"} /\ life' = [life EXCEPT ![s] = None]
    BY <1>2 DEF PrepareFails, RebuildFails
  <2>2. s \in Constructing
    BY <2>1, StageFacts DEF None
  <2> QED BY <2>1, <2>2, Moves DEF Way, Lives
<1>3. CASE PublishFails(s)
  <2>1. life' = [life EXCEPT ![s] = "discarding"] /\ rec' = rec /\ life[s] = "publishing"
    BY <1>3 DEF PublishFails, disk
  <2> QED BY <2>1, Moves DEF Way, Lives
<1>4. CASE DissolveFails(s)
  BY <1>4 DEF DissolveFails, LifeStep
<1> QED BY <1>1, <1>2, <1>3, <1>4

\* So does the first step of a new service.
LEMMA FreshMoves ==
  ASSUME Parts, NEW s \in Services,
         (\E c \in Calls : CreatesHere(c, s) \/ Opens(c, s)) \/ Recovers(s)
  PROVE  LifeStep
<1>1. CASE \E c \in Calls : CreatesHere(c, s)
  <2>1. Fresh(s, "acquiring") /\ Constructing = {}
    BY <1>1 DEF CreatesHere
  <2>2. life' = [life EXCEPT ![s] = "acquiring"] /\ s \in Unused
    BY <2>1, FreshFacts
  <2> QED BY <2>1, <2>2, Moves DEF Way, Lives
<1>2. CASE (\E c \in Calls : Opens(c, s)) \/ Recovers(s)
  <2>1. \/ life' = life
        \/ Fresh(s, "rebuilding") /\ Constructing = {} /\ Live = {}
           /\ rec.status \notin {None, "closed"} /\ rec' = rec
    BY <1>2 DEF Opens, Joins, Recovers, disk
  <2>2. CASE life' = life
    BY <2>2 DEF LifeStep
  <2>3. CASE life' # life
    <3>1. life' = [life EXCEPT ![s] = "rebuilding"] /\ s \in Unused
      BY <2>1, <2>3, FreshFacts
    <3> QED BY <2>1, <2>3, <3>1, Moves DEF Way, Lives
  <2> QED BY <2>2, <2>3
<1> QED BY <1>1, <1>2

\* So does every step.
LEMMA LifeMoves ==
  ASSUME Parts, [Next]_vars
  PROVE  LifeStep
<1>1. CASE UNCHANGED vars
  BY <1>1 DEF vars, LifeStep
<1>2. CASE Decisions
  BY <1>2 DEF Decisions, Turns, Decides, LifeStep
<1>3. CASE Expected
  <2>1. ASSUME NEW s \in Services, EndSteps(s) \/ LeaderSteps(s) \/ SweepSteps(s)
        PROVE  LifeStep
    <3>1. CASE DissolveRazed(s)
      <4>1. life' = life \/ (life[s] = "live" /\ life' = [life EXCEPT ![s] = "releasing"])
        BY <3>1 DEF DissolveRazed, Parts, TypeOK
      <4>2. rec.status = "closed"
        BY <3>1 DEF DissolveRazed, Parts, RecordInv
      <4> QED BY <4>1, <4>2, Moves DEF Way, Lives, LifeStep
    <3>2. CASE ~DissolveRazed(s)
      BY <2>1, <3>2 DEF EndSteps, LeaderSteps, SweepSteps, DissolveWritten, DissolveReclaims, LeaderCloses,
           LeaderRests, SweepsLeader, SweptLeader, LifeStep
    <3> QED BY <3>1, <3>2
  <2>2. ASSUME NEW c \in Calls, CallSteps(c)
        PROVE  LifeStep
    <3>1. CASE \E s \in Services : Opens(c, s)
      BY <3>1, FreshMoves
    <3>2. CASE ~ \E s \in Services : Opens(c, s)
      BY <2>2, <3>2 DEF CallSteps, Looks, CreatesElsewhere, NothingToOpen, Submitted, Noted, Assessed, LifeStep
    <3> QED BY <3>1, <3>2
  <2> QED BY <1>3, <2>1, <2>2, CreateMoves DEF Expected, SweepEnds, LifeStep
<1>4. CASE Unexpected
  <2>1. ASSUME NEW s \in Services, NEW c \in Calls, CreatesHere(c, s) \/ LeaderDissolves(c, s)
        PROVE  LifeStep
    BY <2>1, FreshMoves DEF LeaderDissolves, LifeStep
  <2>2. ASSUME NEW s \in Services, Recovers(s)
        PROVE  LifeStep
    BY <2>2, FreshMoves
  <2>3. CASE StartReclaims \/ Recovered \/ CloseHost \/ Crash \/ \E c \in Calls : Enter(c) \/ Submitted(c)
    BY <2>3 DEF StartReclaims, Recovered, CloseHost, Enter, Submitted, LifeStep
  <2> QED BY <1>4, <2>1, <2>2, <2>3, FailureMoves DEF Unexpected
<1> QED BY <1>1, <1>2, <1>3, <1>4 DEF Next

----------------------------------------
(* One construction, one owner                                           *)

\* Only the construction that is publishing writes the first record.
LEMMA FirstRecord ==
  ASSUME Parts, RecStep, rec.status = None, rec'.status # None
  PROVE  \E s \in Services : /\ life[s] = "publishing" /\ life' = [life EXCEPT ![s] = "seating"]
                             /\ \A t \in Services : life[t] \in Unpublished \cup {"acquiring"} => t = s
<1>1. PICK s \in Services : Published(s)
  BY DEF RecStep
<1>2. life[s] = "publishing" /\ life' = [life EXCEPT ![s] = "seating"]
  BY <1>1 DEF Published
<1>3. s \in Constructing
  BY <1>2, StageFacts DEF None
<1>4. \A t \in Services : life[t] \in Unpublished \cup {"acquiring"} => t \in Constructing
  BY StageFacts DEF None
<1> QED BY <1>2, <1>3, <1>4 DEF Parts, LifeInv

\* The stages of the services say of the record what they said before.
LEMMA RecordOfStages ==
  ASSUME Parts, RecStep, LifeStep
  PROVE  \A s \in Services :
           /\ life'[s] \in Unpublished => rec'.status = None
           /\ life'[s] \notin {None, "acquiring"} \cup Unpublished => rec'.status # None
           /\ life'[s] = "releasing" => rec'.status = "closed"
<1> SUFFICES ASSUME NEW s \in Services
             PROVE  /\ life'[s] \in Unpublished => rec'.status = None
                    /\ life'[s] \notin {None, "acquiring"} \cup Unpublished => rec'.status # None
                    /\ life'[s] = "releasing" => rec'.status = "closed"
  OBVIOUS
<1>0. life \in [Services -> Lives]
  BY DEF Parts, TypeOK
<1>i. /\ life[s] \in Unpublished => rec.status = None
      /\ life[s] \notin {None, "acquiring"} \cup Unpublished => rec.status # None
      /\ life[s] = "releasing" => rec.status = "closed"
  BY DEF Parts, LifeInv
<1>r. /\ rec.status # None => rec'.status # None
      /\ rec.status = "closed" => rec'.status = "closed"
  BY DEF RecStep
<1>u. rec.status = None /\ rec'.status # None => life'[s] \notin Unpublished
  <2> SUFFICES ASSUME rec.status = None, rec'.status # None PROVE life'[s] \notin Unpublished
    OBVIOUS
  <2>1. PICK t \in Services : /\ life[t] = "publishing" /\ life' = [life EXCEPT ![t] = "seating"]
                              /\ \A x \in Services : life[x] \in Unpublished \cup {"acquiring"} => x = t
    BY FirstRecord
  <2> QED BY <1>0, <2>1 DEF Unpublished
<1>1. CASE life'[s] = life[s]
  BY <1>1, <1>i, <1>r, <1>u
<1>2. CASE Crash
  <2>1. life'[s] = None
    BY <1>2 DEF Crash
  <2> QED BY <2>1 DEF Unpublished, None
<1>3. ASSUME life'[s] # life[s], NEW to \in Lives, life' = [life EXCEPT ![s] = to], Way(s, to)
      PROVE  /\ life'[s] \in Unpublished => rec'.status = None
             /\ life'[s] \notin {None, "acquiring"} \cup Unpublished => rec'.status # None
             /\ life'[s] = "releasing" => rec'.status = "closed"
  <2>0. life'[s] = to
    BY <1>0, <1>3
  <2>1. CASE to \in {None, "acquiring"}
    BY <2>0, <2>1 DEF Unpublished, None
  <2>2. CASE to \in Unpublished
    <3>1. rec' = rec /\ rec.status = None
      BY <1>3, <1>i, <2>2, StageFacts DEF Way, Unpublished, None
    <3> QED BY <2>0, <2>2, <3>1, StageFacts
  <2>3. CASE to \notin {None, "acquiring"} \cup Unpublished
    <3>1. CASE Published(s)
      <4>1. rec'.status # None /\ to = "seating"
        BY <1>0, <3>1, <2>0 DEF Published, None
      <4> QED BY <2>0, <2>3, <4>1
    <3>2. CASE ~Published(s)
      <4>1. rec.status # None /\ (to = "releasing" => rec.status = "closed")
        BY <1>3, <1>i, <2>3, <3>2, StageFacts DEF Way, Unpublished, Building, None
      <4> QED BY <2>0, <2>3, <4>1, <1>r
    <3> QED BY <3>1, <3>2
  <2> QED BY <2>1, <2>2, <2>3
<1>4. CASE life'[s] # life[s] /\ ~Crash
  <2>1. PICK t \in Services, to \in Lives : life' = [life EXCEPT ![t] = to] /\ Way(t, to)
    BY <1>4 DEF LifeStep
  <2>2. t = s
    BY <1>0, <1>4, <2>1
  <2> QED BY <1>3, <1>4, <2>1, <2>2
<1> QED BY <1>1, <1>2, <1>4

\* One construction and one owner.
LEMMA OneKept ==
  ASSUME Parts, LifeStep
  PROVE  /\ \A s, t \in Constructing' : s = t
         /\ \A s, t \in Owners' : s = t
<1>0. life \in [Services -> Lives]
  BY DEF Parts, TypeOK
<1>s. /\ \A s \in Services : s \in Constructing' <=> life'[s] \notin {None, "live", "releasing"}
      /\ \A s \in Services : s \in Owners' <=> life'[s] \notin {None, "acquiring"}
      /\ Constructing' \subseteq Services /\ Owners' \subseteq Services
  BY DEF Constructing, Owners
<1>i. /\ \A s, t \in Constructing : s = t
      /\ \A s, t \in Owners : s = t
      /\ \A s \in Services :
           /\ life[s] \notin {None, "acquiring"} \cup Unpublished => rec.status # None
           /\ life[s] = "releasing" => rec.status = "closed"
  BY DEF Parts, LifeInv
<1>1. CASE life' = life
  BY <1>1, <1>i DEF Constructing, Owners
<1>2. CASE Crash
  <2>1. \A s \in Services : life'[s] = None
    BY <1>2 DEF Crash
  <2> QED BY <2>1, <1>s
<1>3. ASSUME NEW s \in Services, NEW to \in Lives, life' = [life EXCEPT ![s] = to], Way(s, to)
      PROVE  /\ \A x, y \in Constructing' : x = y
             /\ \A x, y \in Owners' : x = y
  <2>0. life'[s] = to /\ \A x \in Services : x # s => life'[x] = life[x]
    BY <1>0, <1>3
  <2>o. \A x \in Services : x # s => (x \in Constructing' <=> x \in Constructing) /\ (x \in Owners' <=> x \in Owners)
    BY <2>0, <1>s, StageFacts
  <2>p. Published(s) => life[s] = "publishing"
    BY DEF Published
  <2>1. s \in Constructing' => s \in Constructing \/ Constructing = {}
    <3>1. CASE life[s] \in Building \/ life[s] \in Unpublished \cup {"acquiring"}
      BY <3>1, StageFacts DEF None
    <3>2. CASE s \in Unused /\ Constructing = {}
      BY <3>2
    <3>3. CASE s \in Constructing
      BY <3>3
    <3>4. CASE to \in {"releasing", None}
      BY <3>4, <2>0, <1>s
    <3> QED BY <1>3, <2>p, <3>1, <3>2, <3>3, <3>4 DEF Way, Unpublished
  <2>2. s \in Owners' => s \in Owners \/ Owners = {}
    <3>1. CASE to \in {None, "acquiring"}
      BY <3>1, <2>0, <1>s
    <3>2. CASE life[s] \in Building \cup Unpublished \cup {"live"}
      BY <3>2, StageFacts DEF None
    <3>3. CASE to = "rebuilding" /\ Constructing = {} /\ Live = {} /\ rec.status \notin {None, "closed"}
      <4>1. \A x \in Services : life[x] \notin {None, "acquiring"} => life[x] = "releasing"
        BY <3>3, StageFacts
      <4>2. \A x \in Services : life[x] # "releasing"
        BY <3>3, <1>i
      <4> QED BY <4>1, <4>2 DEF Owners
    <3>4. CASE life[s] = "acquiring" /\ rec.status = None
      <4>1. s \in Constructing
        BY <3>4, StageFacts DEF None
      <4>2. ASSUME NEW x \in Owners PROVE FALSE
        <5>1. x \in Services /\ life[x] \notin {None, "acquiring"}
          BY <4>2, StageFacts DEF Owners
        <5>2. life[x] \in Unpublished
          BY <5>1, <3>4, <1>i
        <5>3. x \in Constructing /\ x # s
          BY <5>1, <5>2, <3>4, StageFacts
        <5> QED BY <4>1, <5>3, <1>i
      <4> QED BY <4>2
    <3>5. life[s] \in {"preparing", "publishing"} => life[s] \in Building \cup Unpublished \cup {"live"}
      BY DEF Unpublished
    <3>7. \/ to \in {None, "acquiring"}
          \/ life[s] \in Building \cup Unpublished \cup {"live"}
          \/ to = "rebuilding" /\ Constructing = {} /\ Live = {} /\ rec.status \notin {None, "closed"}
          \/ life[s] = "acquiring" /\ rec.status = None
      BY <1>3, <2>p, <3>5 DEF Way
    <3> QED BY <3>1, <3>2, <3>3, <3>4, <3>7
  <2>3. \A x, y \in Constructing' : x = y
    BY <2>o, <2>1, <1>s, <1>i
  <2>4. \A x, y \in Owners' : x = y
    BY <2>o, <2>2, <1>s, <1>i
  <2> QED BY <2>3, <2>4
<1> QED BY <1>1, <1>2, <1>3 DEF LifeStep

\* So the invariant about services is kept.
LEMMA LifeKept ==
  ASSUME Parts, RecStep, LifeStep
  PROVE  LifeInv'
  BY RecordOfStages, OneKept DEF LifeInv

----------------------------------------
(* How calls move                                                        *)

WithService == {"making", "joined"} \cup WithTeam

\* How a step may move a call.
CallWay(c) ==
  \/ pc'[c] = pc[c] /\ (pc[c] \in WithService => at'[c] = at[c])
  \/ pc'[c] \in {"asked", "opening", "done"} /\ (pc'[c] = "asked" => c \in Creates)
  \/ Looks(c)
  \/ pc[c] = "making" /\ pc'[c] = "redrawing" /\ life[at[c]] = "acquiring"
  \/ pc[c] = "choosing" /\ pc'[c] = "making" /\ at'[c] \in Services
  \/ pc'[c] = "joined" /\ at'[c] \in Services
  \/ /\ pc'[c] = "deciding" /\ at'[c] \in Services /\ rec.status # None
     /\ c \in Submits => life'[at'[c]] = "live" \/ rec.status = "closed"
  \/ pc[c] = "deciding" /\ pc'[c] = "submitting" /\ at'[c] = at[c] /\ c \in Submits
  \/ pc[c] = "deciding" /\ pc'[c] = "assessing" /\ at'[c] = at[c]
  \/ pc[c] = "submitting" /\ pc'[c] = "noting" /\ at'[c] = at[c] /\ rec.status = "starting"

CallStep == \A c \in Calls : CallWay(c)

\* A step that leaves the calls alone is a step of the calls.
LEMMA SameCalls ==
  ASSUME UNCHANGED calls
  PROVE  CallStep
  BY DEF calls, CallStep, CallWay

\* One call goes on, and no other.
LEMMA OneCall ==
  ASSUME Parts, NEW c \in Calls, NEW where \in Paths, Go(c, where),
         \/ where \in {"opening", "done"}
         \/ where = "asked" /\ c \in Creates
         \/ pc[c] = "deciding" /\ where = "submitting" /\ c \in Submits
         \/ pc[c] = "deciding" /\ where = "assessing"
         \/ pc[c] = "submitting" /\ where = "noting" /\ rec.status = "starting"
  PROVE  CallStep
<1>1. /\ \A d \in Calls : pc'[d] = IF d = c THEN where ELSE pc[d]
      /\ \A d \in Calls : at'[d] = IF d = c /\ where = "done" THEN None ELSE at[d]
  BY GoesFacts DEF Parts, TypeOK
<1>2. ASSUME NEW d \in Calls PROVE CallWay(d)
  <2>1. CASE d = c
    BY <1>1, <2>1 DEF CallWay
  <2>2. CASE d # c
    BY <1>1, <2>2 DEF CallWay
  <2> QED BY <2>1, <2>2
<1> QED BY <1>2 DEF CallStep

\* One call goes on with a service it has not had, and no other.
LEMMA OneCallAt ==
  ASSUME Parts, NEW c \in Calls, NEW where \in Paths, NEW s \in Services, GoAt(c, where, s),
         \/ pc[c] = "choosing" /\ where = "making"
         \/ where = "joined"
         \/ where = "deciding" /\ rec.status # None
            /\ (c \in Submits => life'[s] = "live" \/ rec.status = "closed")
  PROVE  CallStep
<1>1. /\ \A d \in Calls : pc'[d] = IF d = c THEN where ELSE pc[d]
      /\ \A d \in Calls : at'[d] = IF d = c THEN s ELSE at[d]
  BY GoFacts DEF Parts, TypeOK
<1>2. ASSUME NEW d \in Calls PROVE CallWay(d)
  <2>1. CASE d = c
    BY <1>1, <2>1 DEF CallWay
  <2>2. CASE d # c
    BY <1>1, <2>2 DEF CallWay
  <2> QED BY <2>1, <2>2
<1> QED BY <1>2 DEF CallStep

\* Those who wait for a construction are answered.
LEMMA CallsAnswered ==
  ASSUME Parts, NEW s \in Services, NEW creator \in Paths, NEW joined \in Paths, Answered(s, creator, joined),
         creator = "done" \/ (creator = "redrawing" /\ life[s] = "acquiring"),
         joined \in {"done", "opening"}
           \/ (joined = "deciding" /\ rec.status # None /\ (life'[s] = "live" \/ rec.status = "closed"))
  PROVE  CallStep
<1>1. /\ \A d \in Calls : pc'[d] = IF at[d] = s /\ pc[d] = "making" THEN creator
                                    ELSE IF at[d] = s /\ pc[d] = "joined" THEN joined ELSE pc[d]
      /\ \A d \in Calls : at'[d] = IF pc'[d] \in {"redrawing", "opening", "done"} THEN None ELSE at[d]
  BY AnsweredFacts DEF Parts, TypeOK
<1>2. ASSUME NEW d \in Calls PROVE CallWay(d)
  <2>1. CASE at[d] = s /\ pc[d] = "making"
    BY <1>1, <2>1 DEF CallWay
  <2>2. CASE at[d] = s /\ pc[d] = "joined"
    BY <1>1, <2>2 DEF CallWay
  <2>3. CASE ~(at[d] = s /\ pc[d] \in {"making", "joined"})
    <3>1. pc'[d] = pc[d] /\ at'[d] = IF pc[d] \in {"redrawing", "opening", "done"} THEN None ELSE at[d]
      BY <1>1, <2>3
    <3>2. pc[d] \in WithService => at'[d] = at[d]
      BY <3>1 DEF WithService, WithTeam
    <3> QED BY <3>1, <3>2 DEF CallWay
  <2> QED BY <2>1, <2>2, <2>3
<1> QED BY <1>2 DEF CallStep

\* The steps of a service that answer its callers are steps of the calls.
LEMMA AnsweringSteps ==
  ASSUME Parts, NEW s \in Services,
         \/ Acquired(s) \/ Discarded(s) \/ Seated(s) \/ Opened(s) \/ Rebuilt(s) \/ Released(s)
         \/ PrepareFails(s) \/ RebuildFails(s)
  PROVE  CallStep
<1>p. {"done", "opening", "redrawing", "deciding"} \subseteq Paths
  BY DEF Paths
<1>l. life \in [Services -> Lives]
  BY DEF Parts, TypeOK
<1>1. CASE Acquired(s)
  BY <1>1, <1>p, CallsAnswered, SameCalls DEF Acquired
<1>2. CASE Discarded(s) \/ PrepareFails(s) \/ RebuildFails(s)
  BY <1>2, <1>p, CallsAnswered DEF Discarded, PrepareFails, RebuildFails
<1>3. CASE Seated(s) \/ Released(s)
  BY <1>3, <1>p, CallsAnswered, SameCalls DEF Seated, Released
<1>4. CASE Opened(s)
  <2>1. rec.status # None
    BY <1>4 DEF Opened, Parts, LifeInv, Unpublished, None
  <2>2. life'[s] = "live" \/ rec.status = "closed"
    BY <1>4, <1>l DEF Opened, Tracked, Parts, RecordInv
  <2>3. Answered(s, "done", "deciding") \/ Answered(s, "done", "done")
    BY <1>4 DEF Opened, Held
  <2> QED BY <2>1, <2>2, <2>3, <1>p, CallsAnswered
<1>5. CASE Rebuilt(s)
  <2>1. rec.status # None
    BY <1>5 DEF Rebuilt, Parts, LifeInv, Unpublished, None
  <2>2. life'[s] = "live"
    BY <1>5, <1>l DEF Rebuilt
  <2>3. Answered(s, "done", "deciding") \/ Answered(s, "done", "done")
    BY <1>5 DEF Rebuilt
  <2> QED BY <2>1, <2>2, <2>3, <1>p, CallsAnswered
<1> QED BY <1>1, <1>2, <1>3, <1>4, <1>5

\* So are the steps of the calls themselves.
LEMMA CallingSteps ==
  ASSUME Parts, NEW c \in Calls,
         \/ Enter(c) \/ Looks(c) \/ CreatesElsewhere(c) \/ NothingToOpen(c) \/ Submitted(c) \/ Noted(c)
         \/ \E s \in Services : \/ CreatesHere(c, s) \/ Opens(c, s) \/ LeaderDissolves(c, s)
                                \/ Turns(c, s) \/ Decides(c, s) \/ Assessed(c, s)
  PROVE  CallStep
<1>p. {"asked", "opening", "done", "submitting", "noting", "assessing", "making", "joined", "deciding"} \subseteq Paths
  BY DEF Paths
<1>1. CASE Enter(c) \/ CreatesElsewhere(c) \/ NothingToOpen(c) \/ Submitted(c) \/ Noted(c)
  <2>1. pc[c] = "submitting" => c \in Submits
    BY DEF Parts, CallInv
  <2> QED BY <1>1, <1>p, <2>1, OneCall DEF Enter, CreatesElsewhere, NothingToOpen, Submitted, Noted
<1>2. CASE Looks(c)
  <2>1. /\ \A d \in Calls : d # c => pc'[d] = pc[d]
        /\ \A d \in Calls : d # c => at'[d] = at[d]
    BY <1>2, GoesFacts DEF Looks, Parts, TypeOK, Paths
  <2> QED BY <1>2, <2>1 DEF CallStep, CallWay
<1>3. ASSUME NEW s \in Services, CreatesHere(c, s)
      PROVE  CallStep
  BY <1>3, <1>p, OneCallAt DEF CreatesHere
<1>4. ASSUME NEW s \in Services, Opens(c, s)
      PROVE  CallStep
  <2>1. s \in Live => life[s] = "live"
    BY DEF Live
  <2>2. rec.status # None
    BY <1>4 DEF Opens
  <2> QED BY <1>4, <1>p, <2>1, <2>2, OneCallAt DEF Opens
<1>5. ASSUME NEW s \in Services, LeaderDissolves(c, s)
      PROVE  CallStep
  <2>1. rec.status # None
    BY <1>5 DEF LeaderDissolves, Parts, RecordInv, None
  <2>2. c \notin Submits
    BY <1>5, TeamAssumption DEF LeaderDissolves, TeamAssumption
  <2> QED BY <1>5, <1>p, <2>1, <2>2, OneCallAt DEF LeaderDissolves
<1>6. ASSUME NEW s \in Services, Turns(c, s) \/ Decides(c, s) \/ Assessed(c, s)
      PROVE  CallStep
  <2>1. Turns(c, s) => c \in Submits /\ pc[c] = "deciding" /\ (Go(c, "done") \/ Go(c, "submitting"))
    BY DEF Turns
  <2>2. Decides(c, s) => pc[c] = "deciding" /\ (Go(c, "done") \/ Go(c, "assessing"))
    BY DEF Decides
  <2>3. Assessed(c, s) => Go(c, "done")
    BY DEF Assessed
  <2> QED BY <1>6, <1>p, <2>1, <2>2, <2>3, OneCall
<1> QED BY <1>1, <1>2, <1>3, <1>4, <1>5, <1>6

\* So is every step.
LEMMA CallMoves ==
  ASSUME Parts, [Next]_vars
  PROVE  CallStep
<1>1. CASE UNCHANGED vars
  BY <1>1, SameCalls DEF vars
<1>2. CASE Decisions
  BY <1>2, CallingSteps DEF Decisions
<1>3. CASE Expected
  <2>1. ASSUME NEW s \in Services, CreateSteps(s)
        PROVE  CallStep
    <3>1. CASE \/ Prepared(s) \/ Published(s) \/ PromptRefused(s) \/ Marked(s)
               \/ AbandonWritten(s) \/ ChildrenGone(s) \/ AbandonReclaims(s)
      BY <3>1, SameCalls DEF Prepared, Published, PromptRefused, Marked, AbandonWritten, ChildrenGone,
           AbandonReclaims
    <3> QED BY <2>1, <3>1, AnsweringSteps DEF CreateSteps
  <2>2. ASSUME NEW s \in Services, EndSteps(s) \/ LeaderSteps(s) \/ SweepSteps(s)
        PROVE  CallStep
    BY <2>2, SameCalls DEF EndSteps, LeaderSteps, SweepSteps, DissolveWritten, DissolveRazed, DissolveReclaims,
         LeaderCloses, LeaderRests, SweepsLeader, SweptLeader
  <2>3. ASSUME NEW c \in Calls, CallSteps(c)
        PROVE  CallStep
    BY <2>3, CallingSteps DEF CallSteps
  <2> QED BY <1>3, <2>1, <2>2, <2>3, SameCalls DEF Expected, SweepEnds
<1>4. CASE Unexpected
  <2>1. CASE \E c \in Calls : Enter(c) \/ Submitted(c) \/ \E s \in Services : CreatesHere(c, s) \/ LeaderDissolves(c, s)
    BY <2>1, CallingSteps
  <2>2. ASSUME NEW s \in Services,
               \/ PromptTaken(s) \/ PublishFails(s) \/ CreationFails(s) \/ AbandonFails(s)
               \/ DissolveFails(s) \/ Recovers(s)
        PROVE  CallStep
    BY <2>2, SameCalls DEF PromptTaken, PublishFails, CreationFails, AbandonFails, DissolveFails, Recovers
  <2>3. ASSUME NEW s \in Services, PrepareFails(s) \/ RebuildFails(s)
        PROVE  CallStep
    BY <2>3, AnsweringSteps
  <2>4. CASE StartReclaims \/ Recovered \/ CloseHost
    BY <2>4, SameCalls DEF StartReclaims, Recovered, CloseHost
  <2>5. CASE Crash
    <3>1. \A c \in Calls : pc'[c] = IF pc[c] = "idle" THEN "idle" ELSE "done"
      BY <2>5 DEF Crash
    <3>2. "idle" \notin WithService
      BY DEF WithService, WithTeam
    <3> QED BY <3>1, <3>2 DEF CallStep, CallWay
  <2> QED BY <1>4, <2>1, <2>2, <2>3, <2>4, <2>5 DEF Unexpected
<1> QED BY <1>1, <1>2, <1>3, <1>4 DEF Next

\* A service that speaks for the Team goes on doing so, but for the end of a Team that is closed
\* and has no write to make.
LEMMA LiveStays ==
  ASSUME Parts, LifeStep, ~Crash, NEW s \in Services
  PROVE  /\ life[s] = "live" => life'[s] = "live" \/ (life'[s] = "releasing" /\ rec.status = "closed")
         /\ life[s] = "releasing" => life'[s] = "releasing" \/ Drained(s)
<1>0. life \in [Services -> Lives]
  BY DEF Parts, TypeOK
<1>1. CASE life'[s] = life[s]
  BY <1>1
<1>2. CASE life'[s] # life[s]
  <2>1. PICK t \in Services, to \in Lives : life' = [life EXCEPT ![t] = to] /\ Way(t, to)
    BY <1>2 DEF LifeStep
  <2>2. t = s /\ life'[s] = to
    BY <1>0, <1>2, <2>1
  <2>3. life[s] = "live" => to = "releasing" /\ rec.status = "closed"
    BY <2>1, <2>2, StageFacts DEF Way, Unused, Published, Building, None
  <2>4. life[s] = "releasing" => Drained(s)
    BY <2>1, <2>2, StageFacts DEF Way, Unused, Published, Building, None
  <2> QED BY <2>2, <2>3, <2>4
<1> QED BY <1>1, <1>2

\* So the invariant about calls is kept.
LEMMA CallKept ==
  ASSUME Parts, RecStep, LifeStep, CallStep
  PROVE  CallInv'
<1>w. /\ WithTeam \subseteq WithService /\ "making" \in WithService /\ "joined" \in WithService
      /\ WithTeam = {"deciding", "submitting", "noting", "assessing"}
      /\ WithService = {"making", "joined", "deciding", "submitting", "noting", "assessing"}
  BY DEF WithService, WithTeam
<1>t. /\ pc \in [Calls -> Paths] /\ at \in [Calls -> Services \cup {None}]
      /\ Submits \subseteq Calls /\ Creates \subseteq Calls /\ None \notin Services
  BY TeamAssumption DEF Parts, TypeOK, Calls, TeamAssumption
<1>r. rec.status = "closed" => rec'.status = "closed"
  BY DEF RecStep
<1>1. CASE Crash
  <2>1. \A c \in Calls : pc'[c] \in {"idle", "done"}
    BY <1>1 DEF Crash
  <2> QED BY <2>1, <1>t, <1>w DEF CallInv
<1>2. CASE ~Crash
  <2>a. ASSUME NEW c \in Calls
        PROVE  /\ pc'[c] \in WithService => at'[c] \in Services
               /\ pc'[c] \in {"asked", "choosing", "redrawing", "making"} => c \in Creates
               /\ pc'[c] \in {"submitting", "noting"} => c \in Submits
    <3>1. CallWay(c)
      BY DEF CallStep
    <3>2. /\ pc[c] \in WithService => at[c] \in Services
          /\ pc[c] \in {"asked", "choosing", "redrawing", "making"} => c \in Creates
          /\ pc[c] \in {"submitting", "noting"} => c \in Submits
      BY <1>w DEF Parts, CallInv
    <3>3. Looks(c) => pc'[c] \in {"choosing", "done"} /\ pc[c] = "asked"
      BY <1>t, GoesFacts DEF Looks, Paths
    <3> QED BY <3>1, <3>2, <3>3, <1>w DEF CallWay
  <2>b. ASSUME NEW c \in Calls, c \in Submits, pc'[c] \in WithTeam
        PROVE  life'[at'[c]] = "live" \/ rec'.status = "closed"
    <3>1. CallWay(c)
      BY DEF CallStep
    <3>2. Looks(c) => pc'[c] \in {"choosing", "done"}
      BY <1>t, GoesFacts DEF Looks, Paths
    <3>3. CASE pc[c] \in WithTeam /\ at'[c] = at[c]
      <4>1. at[c] \in Services /\ (life[at[c]] = "live" \/ rec.status = "closed")
        BY <2>b, <3>3, <1>w DEF Parts, CallInv
      <4>2. life[at[c]] = "live" => life'[at[c]] = "live" \/ rec.status = "closed"
        BY <4>1, <1>2, LiveStays
      <4> QED BY <3>3, <4>1, <4>2, <1>r
    <3>4. CASE life'[at'[c]] = "live" \/ rec.status = "closed"
      BY <3>4, <1>r
    <3> QED BY <2>b, <3>1, <3>2, <3>3, <3>4, <1>w DEF CallWay
  <2>c. ASSUME NEW c \in Calls, pc'[c] = "noting"
        PROVE  life'[at'[c]] \in {"live", "releasing"}
    <3>1. CallWay(c)
      BY DEF CallStep
    <3>2. Looks(c) => pc'[c] \in {"choosing", "done"}
      BY <1>t, GoesFacts DEF Looks, Paths
    <3>3. /\ at'[c] = at[c]
          /\ pc[c] = "noting" \/ (pc[c] = "submitting" /\ rec.status = "starting")
      BY <2>c, <3>1, <3>2, <1>w DEF CallWay
    <3>4. at[c] \in Services
      BY <3>3, <1>w DEF Parts, CallInv
    <3>5. life[at[c]] \in {"live", "releasing"} /\ (life[at[c]] = "releasing" => pc[c] = "noting")
      <4>1. CASE pc[c] = "noting"
        BY <4>1 DEF Parts, CallInv
      <4>2. CASE pc[c] = "submitting" /\ rec.status = "starting"
        <5>1. c \in Submits
          BY <4>2 DEF Parts, CallInv
        <5> QED BY <4>2, <5>1, <1>w DEF Parts, CallInv
      <4> QED BY <3>3, <4>1, <4>2
    <3>6. pc[c] = "noting" => ~Drained(at[c])
      BY <3>4 DEF Drained, At, Over
    <3> QED BY <3>3, <3>4, <3>5, <3>6, <1>2, LiveStays
  <2> QED BY <2>a, <2>b, <2>c, <1>t, <1>w DEF CallInv
<1> QED BY <1>1, <1>2

----------------------------------------
(* Leaders, dissolves, the checkout                                      *)

\* What a step may make of the leaders, the dissolves and the checkout.
EndStep ==
  /\ forced => forced'
  /\ \A s \in Services :
       /\ lead'[s] = lead[s] \/ lead'[s] = None \/ rec.status # None \/ rec'.status # None
       /\ \/ end'[s] = end[s] \/ end'[s] = None
          \/ end'[s] = "forcing" /\ forced' /\ rec.status # None
          \/ end'[s] = "writing" /\ rec.status # None
          \/ end'[s] \in {"razing", "reclaiming", "settling", "over"} /\ rec'.status = "closed"
  /\ checkout' = "dirty" => checkout = "dirty" \/ rec.status # None
  /\ checkout # None /\ checkout' = None =>
       rec.status \in {None, "closed"} /\ (checkout = "dirty" => forced)

\* A step that leaves leaders, dissolves and the checkout alone is a permitted one.
LEMMA SameEnds ==
  ASSUME UNCHANGED <<forced, lead, end, checkout>>
  PROVE  EndStep
  BY DEF EndStep

\* A leader of a published Team may change at will.
LEMMA SameEndsOf ==
  ASSUME UNCHANGED <<forced, end, checkout>>, rec.status # None
  PROVE  EndStep
  BY DEF EndStep

\* A reclaim removes a checkout only when the record is closed, and work only by force.
LEMMA Removed ==
  ASSUME Parts, NEW stage, NEW next, Reclaims(stage, next)
  PROVE  /\ checkout' = "dirty" => checkout = "dirty"
         /\ checkout # None /\ checkout' = None =>
              rec.status \in {None, "closed"} /\ (checkout = "dirty" => forced)
<1>1. checkout' = checkout \/ (rec.tree = "pending" /\ Removable /\ checkout' = None)
  BY DEF Reclaims, Removes
<1>2. rec.tree = "pending" => rec.status = "closed"
  BY DEF Parts, RecordInv
<1>3. Removable => (checkout = "dirty" => forced)
  BY DEF Removable, Parts, RecordInv
<1> QED BY <1>1, <1>2, <1>3 DEF None

\* A creation that goes well touches only what it may.
LEMMA CreateEnds ==
  ASSUME Parts, NEW s \in Services, CreateSteps(s)
  PROVE  EndStep
<1>t. lead \in [Services -> Leads] /\ end \in [Services -> Ends]
  BY DEF Parts, TypeOK
<1>i. life[s] \notin {None, "acquiring"} \cup Unpublished => rec.status # None
  BY DEF Parts, LifeInv
<1>1. CASE Acquired(s) \/ PromptRefused(s) \/ ChildrenGone(s) \/ Released(s)
  BY <1>1, SameEnds DEF Acquired, PromptRefused, ChildrenGone, Released, disk
<1>2. CASE Published(s) \/ Marked(s) \/ AbandonWritten(s)
  BY <1>2, SameEnds DEF Published, Marked, AbandonWritten
<1>3. CASE Prepared(s)
  <2>1. /\ UNCHANGED <<forced, lead, end>>
        /\ checkout' = checkout \/ (checkout = None /\ checkout' = "clean")
    BY <1>3 DEF Prepared
  <2> QED BY <2>1 DEF EndStep, None
<1>4. CASE Discarded(s)
  <2>1. UNCHANGED <<forced, lead, end>> /\ checkout' \in {checkout, None} /\ life[s] = "discarding"
    BY <1>4 DEF Discarded
  <2>2. rec.status = None /\ checkout # "dirty"
    BY <2>1 DEF Parts, LifeInv, RecordInv, Unpublished
  <2> QED BY <2>1, <2>2 DEF EndStep, None
<1>5. CASE Seated(s) \/ Opened(s) \/ Rebuilt(s)
  <2>1. rec.status # None
    BY <1>5, <1>i DEF Seated, Opened, Rebuilt, Unpublished, None
  <2>2. UNCHANGED <<forced, end, checkout>>
    BY <1>5 DEF Seated, Opened, Rebuilt, disk
  <2> QED BY <2>1, <2>2, SameEndsOf
<1>6. CASE AbandonReclaims(s)
  <2>1. UNCHANGED <<forced, lead, end>>
    BY <1>6 DEF AbandonReclaims
  <2>2. checkout' = checkout \/ \E next : Reclaims(life[s], next)
    BY <1>6 DEF AbandonReclaims
  <2>3. PICK next : checkout' = checkout \/ Reclaims(life[s], next)
    BY <2>2
  <2> QED BY <2>1, <2>3, Removed DEF EndStep
<1> QED BY <1>1, <1>2, <1>3, <1>4, <1>5, <1>6 DEF CreateSteps

\* So does a dissolve.
LEMMA DissolveEnds ==
  ASSUME Parts, RecStep, NEW s \in Services, EndSteps(s) \/ DissolveFails(s)
  PROVE  EndStep
<1>t. end \in [Services -> Ends]
  BY DEF Parts, TypeOK
<1>i. end[s] \in {"razing", "reclaiming", "settling", "over"} => rec'.status = "closed"
  BY DEF Parts, RecordInv, RecStep
<1>o. ASSUME NEW to, end' = [end EXCEPT ![s] = to]
      PROVE  end'[s] = to /\ \A t \in Services : t # s => end'[t] = end[t]
  BY <1>o, <1>t
<1>1. CASE DissolveWritten(s)
  <2>1. UNCHANGED <<forced, lead, checkout>> /\ end' = [end EXCEPT ![s] = "razing"]
    BY <1>1 DEF DissolveWritten
  <2>2. rec'.status = "closed"
    BY <1>1 DEF DissolveWritten, Closed, Parts, TypeOK, Records
  <2> QED BY <2>1, <2>2, <1>o DEF EndStep
<1>2. CASE DissolveRazed(s)
  <2>1. /\ UNCHANGED <<forced, lead, checkout>> /\ end' = [end EXCEPT ![s] = "reclaiming"]
        /\ end[s] = "razing"
    BY <1>2 DEF DissolveRazed, disk
  <2> QED BY <2>1, <1>i, <1>o DEF EndStep
<1>3. CASE DissolveReclaims(s)
  <2>1. /\ UNCHANGED <<forced, lead>> /\ end[s] \in {"reclaiming", "settling"}
        /\ \E to \in {"settling", "over"} : end' = [end EXCEPT ![s] = to]
    BY <1>3 DEF DissolveReclaims, Reclaims, Settles
  <2>2. PICK next : checkout' = checkout \/ Reclaims(end[s], next)
    BY <1>3 DEF DissolveReclaims
  <2>3. \A t \in Services : end'[t] = end[t] \/ (end'[t] \in {"settling", "over"} /\ rec'.status = "closed")
    BY <2>1, <1>i, <1>o
  <2> QED BY <2>1, <2>2, <2>3, Removed DEF EndStep
<1>4. CASE DissolveFails(s)
  <2>1. UNCHANGED <<forced, lead, checkout>> /\ end' = [end EXCEPT ![s] = None]
    BY <1>4 DEF DissolveFails, disk
  <2> QED BY <2>1, <1>o DEF EndStep
<1> QED BY <1>1, <1>2, <1>3, <1>4 DEF EndSteps

\* So do a leader and the sweeps.
LEMMA LeaderEnds ==
  ASSUME Parts, NEW s \in Services, LeaderSteps(s) \/ SweepSteps(s)
  PROVE  EndStep
<1>1. CASE LeaderCloses(s) \/ LeaderRests(s)
  <2>1. rec.status # None
    BY <1>1 DEF LeaderCloses, LeaderRests, Parts, RecordInv, None
  <2> QED BY <1>1, <2>1, SameEndsOf DEF LeaderCloses, LeaderRests, disk
<1>2. CASE SweepsLeader(s)
  <2>1. CASE lead[s] \in {"up", "stopping"}
    <3>1. rec.status # None
      BY <2>1 DEF Parts, RecordInv, None
    <3> QED BY <1>2, <3>1, SameEndsOf DEF SweepsLeader, disk
  <2>2. CASE lead[s] \notin {"up", "stopping"}
    BY <1>2, <2>2, SameEnds DEF SweepsLeader, disk
  <2> QED BY <2>1, <2>2
<1>3. CASE SweptLeader(s)
  BY <1>3, SameEnds DEF SweptLeader, disk
<1> QED BY <1>1, <1>2, <1>3 DEF LeaderSteps, SweepSteps

\* So does a service that is new.
LEMMA FreshEnds ==
  ASSUME Parts, NEW s \in Services, NEW stage, Fresh(s, stage), UNCHANGED <<forced, checkout>>
  PROVE  EndStep
<1>1. lead' = [lead EXCEPT ![s] = None] /\ end' = [end EXCEPT ![s] = None]
  BY FreshFacts
<1>2. \A t \in Services : lead'[t] \in {lead[t], None} /\ end'[t] \in {end[t], None}
  BY <1>1 DEF Parts, TypeOK
<1> QED BY <1>2 DEF EndStep

\* So does a call.
LEMMA CallEnds ==
  ASSUME Parts, NEW c \in Calls,
         \/ Enter(c) \/ Looks(c) \/ CreatesElsewhere(c) \/ NothingToOpen(c) \/ Submitted(c) \/ Noted(c)
         \/ \E s \in Services : \/ CreatesHere(c, s) \/ Opens(c, s) \/ LeaderDissolves(c, s)
                                \/ Turns(c, s) \/ Decides(c, s) \/ Assessed(c, s)
  PROVE  EndStep
<1>t. lead \in [Services -> Leads] /\ end \in [Services -> Ends]
  BY DEF Parts, TypeOK
<1>i. pc[c] \in WithTeam => rec.status # None
  BY DEF Parts, RecordInv
<1>1. CASE Enter(c) \/ Looks(c) \/ CreatesElsewhere(c) \/ NothingToOpen(c) \/ Noted(c)
  BY <1>1, SameEnds DEF Enter, Looks, CreatesElsewhere, NothingToOpen, Noted, disk
<1>2. CASE Submitted(c)
  <2>1. /\ UNCHANGED <<forced, lead, end>>
        /\ checkout' = checkout \/ (checkout = "clean" /\ checkout' \in {"clean", "dirty"})
        /\ rec.status # None
    BY <1>2, <1>i DEF Submitted, WithTeam
  <2> QED BY <2>1 DEF EndStep, None
<1>3. ASSUME NEW s \in Services, CreatesHere(c, s) \/ Opens(c, s)
      PROVE  EndStep
  BY <1>3, FreshEnds, SameEnds DEF CreatesHere, Opens, disk
<1>4. ASSUME NEW s \in Services, LeaderDissolves(c, s)
      PROVE  EndStep
  BY <1>4, SameEnds DEF LeaderDissolves, disk
<1>5. ASSUME NEW s \in Services, Turns(c, s)
      PROVE  EndStep
  BY <1>5, <1>i, SameEndsOf DEF Turns, disk, WithTeam
<1>6. ASSUME NEW s \in Services, Decides(c, s)
      PROVE  EndStep
  <2>1. /\ UNCHANGED <<lead, checkout>> /\ rec.status # None
        /\ \/ UNCHANGED <<end, forced>>
           \/ end' = [end EXCEPT ![s] = "forcing"] /\ forced' = TRUE
    BY <1>6, <1>i DEF Decides, WithTeam
  <2> QED BY <2>1, <1>t DEF EndStep
<1>7. ASSUME NEW s \in Services, Assessed(c, s)
      PROVE  EndStep
  <2>1. /\ UNCHANGED <<lead, checkout, forced>> /\ rec.status # None
        /\ end' = end \/ end' = [end EXCEPT ![s] = "writing"]
    BY <1>7, <1>i DEF Assessed, WithTeam, disk
  <2> QED BY <2>1, <1>t DEF EndStep
<1> QED BY <1>1, <1>2, <1>3, <1>4, <1>5, <1>6, <1>7

\* So does every step.
LEMMA EndMoves ==
  ASSUME Parts, RecStep, [Next]_vars
  PROVE  EndStep
<1>1. CASE UNCHANGED vars
  BY <1>1, SameEnds DEF vars, disk
<1>2. CASE Decisions
  BY <1>2, CallEnds DEF Decisions
<1>3. CASE Expected
  <2>1. ASSUME NEW c \in Calls, CallSteps(c)
        PROVE  EndStep
    BY <2>1, CallEnds DEF CallSteps
  <2> QED BY <1>3, <2>1, CreateEnds, DissolveEnds, LeaderEnds, SameEnds DEF Expected, SweepEnds, disk
<1>4. CASE Unexpected
  <2>1. CASE \E c \in Calls : Enter(c) \/ Submitted(c) \/ \E s \in Services : CreatesHere(c, s) \/ LeaderDissolves(c, s)
    BY <2>1, CallEnds
  <2>2. ASSUME NEW s \in Services,
               \/ PromptTaken(s) \/ PrepareFails(s) \/ PublishFails(s) \/ CreationFails(s)
               \/ AbandonFails(s) \/ RebuildFails(s)
        PROVE  EndStep
    BY <2>2, SameEnds DEF PromptTaken, PrepareFails, PublishFails, CreationFails, AbandonFails, RebuildFails, disk
  <2>3. ASSUME NEW s \in Services, Recovers(s)
        PROVE  EndStep
    BY <2>3, FreshEnds DEF Recovers, disk
  <2>4. CASE StartReclaims
    <3>1. UNCHANGED <<forced, lead, end>>
      BY <2>4 DEF StartReclaims
    <3>2. PICK next : checkout' = checkout \/ Reclaims(redo, next)
      BY <2>4 DEF StartReclaims
    <3> QED BY <3>1, <3>2, Removed DEF EndStep
  <2>5. CASE Recovered \/ CloseHost
    BY <2>5, SameEnds DEF Recovered, CloseHost, disk
  <2>6. CASE Crash
    <3>1. UNCHANGED <<forced, checkout>> /\ \A s \in Services : lead'[s] = None /\ end'[s] = None
      BY <2>6 DEF Crash, disk
    <3> QED BY <3>1 DEF EndStep
  <2> QED BY <1>4, <2>1, <2>2, <2>3, <2>4, <2>5, <2>6, DissolveEnds DEF Unexpected
<1> QED BY <1>1, <1>2, <1>3, <1>4 DEF Next

\* So the invariant about the record is kept.
LEMMA RecordKept ==
  ASSUME Parts, RecStep, CallStep, EndStep
  PROVE  RecordInv'
<1>r. rec'.status = None => rec.status = None
  BY DEF RecStep
<1>t. pc \in [Calls -> Paths] /\ at \in [Calls -> Services \cup {None}]
  BY DEF Parts, TypeOK
<1>1. ASSUME rec'.status = None
      PROVE  /\ \A s \in Services : lead'[s] = None /\ end'[s] = None
             /\ \A c \in Calls : pc'[c] \notin WithTeam
             /\ checkout' # "dirty"
  <2>1. /\ rec.status = None /\ checkout # "dirty"
        /\ \A s \in Services : lead[s] = None /\ end[s] = None
        /\ \A c \in Calls : pc[c] \notin WithTeam
    BY <1>1, <1>r DEF Parts, RecordInv
  <2>2. \A s \in Services : lead'[s] = None /\ end'[s] = None
    BY <1>1, <2>1 DEF EndStep, None
  <2>3. checkout' # "dirty"
    BY <2>1 DEF EndStep
  <2>4. ASSUME NEW c \in Calls PROVE pc'[c] \notin WithTeam
    <3>1. CallWay(c)
      BY DEF CallStep
    <3>2. Looks(c) => pc'[c] \in {"choosing", "done"}
      BY <1>t, GoesFacts DEF Looks, Paths
    <3> QED BY <2>1, <3>1, <3>2 DEF CallWay, WithTeam
  <2> QED BY <2>2, <2>3, <2>4
<1>2. ASSUME NEW s \in Services
      PROVE  /\ end'[s] \in {"razing", "reclaiming", "settling", "over"} => rec'.status = "closed"
             /\ end'[s] = "forcing" => forced'
  <2>1. /\ end[s] \in {"razing", "reclaiming", "settling", "over"} => rec'.status = "closed"
        /\ end[s] = "forcing" => forced'
    BY DEF Parts, RecordInv, RecStep, EndStep
  <2> QED BY <2>1 DEF EndStep, None
<1>3. (rec'.tree = "pending" => rec'.status = "closed") /\ (rec'.force => forced')
  BY DEF RecStep, EndStep
<1> QED BY <1>1, <1>2, <1>3 DEF RecordInv

----------------------------------------
\* One create of a request id at a time looks for a name.
LEMMA OneLooks ==
  ASSUME Parts, AskInv, CallStep, asking' = asking, NEW c \in Creates, NEW d \in Creates,
         asking[c] = asking[d], Active(c)', Active(d)'
  PROVE  c = d
<1>t. pc \in [Calls -> Paths] /\ at \in [Calls -> Services \cup {None}] /\ Creates \subseteq Calls
  BY DEF Parts, TypeOK, Calls
<1>1. ASSUME NEW x \in Creates, Active(x)'
      PROVE  Active(x) \/ Looks(x)
  <2>1. CallWay(x)
    BY <1>t DEF CallStep
  <2> QED BY <1>1, <2>1 DEF CallWay, Active, WithService, WithTeam
<1>2. ASSUME NEW x \in Creates, NEW y \in Creates, x # y, asking[x] = asking[y], Looks(x), Active(y)'
      PROVE  FALSE
  <2>1. pc'[y] = pc[y]
    BY <1>2, <1>t, GoesFacts DEF Looks, Paths
  <2>2. Over(y) \/ pc[y] = "asked"
    BY <1>2 DEF Looks, Turn
  <2> QED BY <1>2, <2>1, <2>2 DEF Active, Over
<1> QED BY <1>1, <1>2 DEF AskInv

\* What the disk says of the request ids changes with a creation elsewhere, or with the record.
LEMMA AskMoves ==
  ASSUME Parts, [Next]_vars
  PROVE  /\ asking' = asking
         /\ elsewhere' # elsewhere => \E c \in Calls : CreatesElsewhere(c)
<1>1. asking' = asking
  <2>1. CASE UNCHANGED vars
    BY <2>1 DEF vars
  <2>2. CASE Decisions
    BY <2>2 DEF Decisions, Turns, Decides
  <2>3. CASE Expected
    BY <2>3 DEF Expected, CreateSteps, EndSteps, LeaderSteps, SweepSteps, CallSteps, SweepEnds,
       Acquired, Prepared, Published, Discarded, Seated, PromptRefused, Marked, Opened, AbandonWritten,
       ChildrenGone, AbandonReclaims, Rebuilt, Released, DissolveWritten, DissolveRazed, DissolveReclaims,
       LeaderCloses, LeaderRests, SweepsLeader, SweptLeader, Looks, CreatesElsewhere, NothingToOpen, Submitted,
       Noted, Opens, Assessed
  <2>4. CASE Unexpected
    BY <2>4 DEF Unexpected, Enter, Submitted, PromptTaken, PrepareFails, PublishFails, CreationFails,
       AbandonFails, RebuildFails, DissolveFails, Recovers, CreatesHere, LeaderDissolves, StartReclaims,
       Recovered, CloseHost, Crash
  <2> QED BY <2>1, <2>2, <2>3, <2>4 DEF Next
<1>2. elsewhere' = elsewhere \/ \E c \in Calls : CreatesElsewhere(c)
  <2>1. CASE UNCHANGED vars
    BY <2>1 DEF vars, disk
  <2>2. CASE Decisions
    BY <2>2 DEF Decisions, Turns, Decides, disk
  <2>3. CASE Expected
    BY <2>3 DEF Expected, CreateSteps, EndSteps, LeaderSteps, SweepSteps, CallSteps, SweepEnds, disk,
       Acquired, Prepared, Published, Discarded, Seated, PromptRefused, Marked, Opened, AbandonWritten,
       ChildrenGone, AbandonReclaims, Rebuilt, Released, DissolveWritten, DissolveRazed, DissolveReclaims,
       LeaderCloses, LeaderRests, SweepsLeader, SweptLeader, Looks, NothingToOpen, Submitted,
       Noted, Opens, Assessed
  <2>4. CASE Unexpected
    BY <2>4 DEF Unexpected, Enter, Submitted, PromptTaken, PrepareFails, PublishFails, CreationFails,
       AbandonFails, RebuildFails, DissolveFails, Recovers, CreatesHere, LeaderDissolves, StartReclaims,
       Recovered, CloseHost, Crash, disk
  <2> QED BY <2>1, <2>2, <2>3, <2>4 DEF Next
<1> QED BY <1>1, <1>2

----------------------------------------
(* Request ids, and the theorems                                         *)

\* A create that has no Team yet had none before, or has just found that there is none.
LEMMA UnacceptedBefore ==
  ASSUME Parts, LifeStep, CallStep, NEW c \in Creates, Unaccepted(c)'
  PROVE  Unaccepted(c) \/ (Looks(c) /\ pc'[c] = "choosing")
<1>t. /\ pc \in [Calls -> Paths] /\ at \in [Calls -> Services \cup {None}] /\ c \in Calls
      /\ life \in [Services -> Lives]
  BY DEF Parts, TypeOK, Calls
<1>1. CallWay(c)
  BY <1>t DEF CallStep
<1>2. Looks(c) => pc'[c] \in {"choosing", "done"}
  BY <1>t, GoesFacts DEF Looks, Paths
<1>3. CASE pc'[c] \in {"choosing", "redrawing"}
  BY <1>1, <1>2, <1>3 DEF CallWay, Unaccepted
<1>4. CASE pc'[c] = "making" /\ life'[at'[c]] \in {"acquiring"} \cup Unpublished
  <2>1. pc[c] = "choosing" \/ (pc[c] = "making" /\ at'[c] = at[c])
    BY <1>1, <1>2, <1>4 DEF CallWay, WithService
  <2>2. CASE pc[c] = "choosing"
    BY <2>2 DEF Unaccepted
  <2>3. CASE pc[c] = "making" /\ at'[c] = at[c]
    <3>1. at[c] \in Services
      BY <2>3, <1>t DEF Parts, CallInv
    <3>2. c \in At(at[c])
      BY <2>3, <1>t DEF At, Over
    <3>3. ~Crash
      BY <1>4, <1>t DEF Crash
    <3>4. life[at[c]] \in {"acquiring"} \cup Unpublished
      <4>1. CASE life'[at[c]] = life[at[c]]
        BY <1>4, <2>3, <4>1
      <4>2. CASE life'[at[c]] # life[at[c]]
        <5>1. PICK s \in Services, to \in Lives : life' = [life EXCEPT ![s] = to] /\ Way(s, to)
          BY <3>3, <4>2 DEF LifeStep
        <5>2. s = at[c] /\ to = life'[s]
          BY <1>t, <3>1, <4>2, <5>1
        <5>3. s \notin Unused
          BY <3>2, <5>2 DEF Unused
        <5> QED BY <1>4, <2>3, <5>1, <5>2, <5>3, StageFacts DEF Way, Unpublished, Building, None
      <4> QED BY <4>1, <4>2
    <3> QED BY <2>3, <3>4 DEF Unaccepted
  <2> QED BY <2>1, <2>2, <2>3
<1> QED BY <1>3, <1>4 DEF Unaccepted

\* What a create that publishes has asked is no other Team's.
LEMMA PublishedFor ==
  ASSUME Parts, AskInv, NEW s \in Services, Published(s)
  PROVE  \E c \in Creates : /\ at[c] = s /\ pc[c] = "making" /\ Active(c) /\ Unaccepted(c)
                            /\ rec'.by = asking[c] /\ elsewhere[asking[c]] = 0
                            /\ life'[s] = "seating" /\ UNCHANGED <<elsewhere, calls>>
<1>1. PICK c \in Creates : /\ at[c] = s /\ pc[c] = "making"
                           /\ rec' = [status |-> "starting", by |-> asking[c], force |-> FALSE,
                                      tree |-> IF made[s] = "borrowed" THEN None ELSE "active"]
  BY DEF Published
<1>2. /\ life[s] = "publishing" /\ life' = [life EXCEPT ![s] = "seating"] /\ life \in [Services -> Lives]
      /\ UNCHANGED <<elsewhere, calls>>
  BY DEF Published, Parts, TypeOK
<1>3. Active(c) /\ Unaccepted(c)
  BY <1>1, <1>2 DEF Active, Unaccepted, Unpublished
<1>4. elsewhere[asking[c]] = 0
  BY <1>3 DEF AskInv
<1> QED BY <1>1, <1>2, <1>3, <1>4

\* So the invariant about request ids is kept.
LEMMA AskKept ==
  ASSUME Parts, AskInv, RecStep, LifeStep, CallStep, [Next]_vars
  PROVE  AskInv'
<1>t. /\ pc \in [Calls -> Paths] /\ at \in [Calls -> Services \cup {None}] /\ Creates \subseteq Calls
      /\ asking \in [Creates -> Requests] /\ elsewhere \in [Requests -> Nat]
  BY TeamAssumption DEF Parts, TypeOK, Calls, TeamAssumption
<1>a. asking' = asking
  BY AskMoves
<1>1. \A c, d \in Creates : asking'[c] = asking'[d] /\ Active(c)' /\ Active(d)' => c = d
  BY <1>a, OneLooks
<1>2. ASSUME NEW c \in Creates, Unaccepted(c)'
      PROVE  elsewhere'[asking[c]] = 0 /\ rec'.by # asking[c]
  <2>0. asking[c] \in Requests
    BY <1>t
  <2>1. CASE Unaccepted(c)
    <3>1. elsewhere[asking[c]] = 0 /\ rec.by # asking[c] /\ Active(c)
      BY <2>1 DEF AskInv, Unaccepted, Active
    <3>2. elsewhere'[asking[c]] = 0
      <4>1. CASE elsewhere' = elsewhere
        BY <3>1, <4>1
      <4>2. ASSUME NEW d \in Calls, CreatesElsewhere(d)
            PROVE  elsewhere'[asking[c]] = 0
        <5>1. d \in Creates /\ Active(d)
          BY <4>2 DEF CreatesElsewhere, Parts, CallInv, Active
        <5>2. pc'[d] = "done"
          BY <1>t, <4>2, GoesFacts DEF CreatesElsewhere, Paths
        <5>3. c # d
          BY <1>2, <5>2 DEF Unaccepted
        <5>4. asking[c] # asking[d]
          BY <3>1, <5>1, <5>3 DEF AskInv
        <5>5. \/ elsewhere' = [elsewhere EXCEPT ![asking[d]] = @ + 1]
              \/ UNCHANGED elsewhere
          BY <4>2 DEF CreatesElsewhere
        <5> QED BY <1>t, <2>0, <3>1, <5>4, <5>5
      <4> QED BY <4>1, <4>2, AskMoves
    <3>3. rec'.by # asking[c]
      <4>1. CASE rec'.by = rec.by
        BY <3>1, <4>1
      <4>2. CASE rec'.by # rec.by
        <5>1. PICK s \in Services : Published(s)
          BY <4>2 DEF RecStep
        <5>2. PICK d \in Creates : /\ at[d] = s /\ pc[d] = "making" /\ Active(d)
                                   /\ rec'.by = asking[d] /\ life'[s] = "seating" /\ UNCHANGED calls
          BY <5>1, PublishedFor
        <5>3. SUFFICES ASSUME asking[c] = asking[d] PROVE FALSE
          BY <5>2
        <5>4. c = d
          BY <3>1, <5>2, <5>3 DEF AskInv
        <5> QED BY <1>2, <5>2, <5>4 DEF Unaccepted, Unpublished, calls
      <4> QED BY <4>1, <4>2
    <3> QED BY <3>2, <3>3
  <2>2. CASE Looks(c) /\ pc'[c] = "choosing"
    <3>1. UNCHANGED <<rec, elsewhere>>
      BY <2>2 DEF Looks, disk
    <3>2. pc'[c] = IF rec.by = asking[c] \/ elsewhere[asking[c]] > 0 THEN "done" ELSE "choosing"
      BY <2>2, <1>t, GoesFacts DEF Looks, Paths
    <3>3. rec.by # asking[c] /\ ~(elsewhere[asking[c]] > 0)
      BY <2>2, <3>2
    <3>4. elsewhere[asking[c]] \in Nat
      BY <1>t, <2>0
    <3> QED BY <3>1, <3>3, <3>4
  <2> QED BY <1>2, <2>1, <2>2, UnacceptedBefore
<1> QED BY <1>1, <1>2, <1>a DEF AskInv

\* And with it one Team per request id.
LEMMA RequestKept ==
  ASSUME Parts, AskInv, OneTeamPerRequest, RecStep, [Next]_vars
  PROVE  OneTeamPerRequest'
<1>t. asking \in [Creates -> Requests] /\ elsewhere \in [Requests -> Nat]
  BY TeamAssumption DEF Parts, TypeOK, TeamAssumption
<1> SUFFICES ASSUME NEW q \in Requests
             PROVE  elsewhere'[q] + (IF rec'.by = q THEN 1 ELSE 0) <= 1
  BY DEF OneTeamPerRequest
<1>0. elsewhere[q] \in Nat /\ elsewhere[q] + (IF rec.by = q THEN 1 ELSE 0) <= 1
  BY <1>t DEF OneTeamPerRequest
<1>1. ASSUME NEW c \in Calls, CreatesElsewhere(c)
      PROVE  elsewhere'[q] + (IF rec'.by = q THEN 1 ELSE 0) <= 1
  <2>1. c \in Creates /\ Unaccepted(c)
    BY <1>1 DEF CreatesElsewhere, Parts, CallInv, Unaccepted
  <2>2. elsewhere[asking[c]] = 0 /\ rec.by # asking[c] /\ asking[c] \in Requests
    BY <2>1, <1>t DEF AskInv
  <2>3. /\ rec' = rec
        /\ elsewhere' = [elsewhere EXCEPT ![asking[c]] = @ + 1] \/ elsewhere' = elsewhere
    BY <1>1 DEF CreatesElsewhere
  <2>4. CASE q = asking[c]
    <3>1. elsewhere'[q] \in {0, 1}
      BY <1>t, <2>2, <2>3, <2>4
    <3> QED BY <2>2, <2>3, <2>4, <3>1
  <2>5. CASE q # asking[c]
    <3>1. elsewhere'[q] = elsewhere[q]
      BY <1>t, <2>3, <2>5
    <3> QED BY <1>0, <2>3, <3>1
  <2> QED BY <2>4, <2>5
<1>2. CASE elsewhere' = elsewhere /\ rec'.by # rec.by
  <2>1. PICK s \in Services : Published(s)
    BY <1>2 DEF RecStep
  <2>2. PICK c \in Creates : rec'.by = asking[c] /\ elsewhere[asking[c]] = 0
    BY <2>1, PublishedFor
  <2>3. elsewhere[q] <= 1
    BY <1>0
  <2>4. CASE q = asking[c]
    BY <1>2, <2>2, <2>4
  <2>5. CASE q # asking[c]
    BY <1>2, <1>0, <2>2, <2>3, <2>5
  <2> QED BY <2>4, <2>5
<1>3. CASE elsewhere' = elsewhere /\ rec'.by = rec.by
  BY <1>0, <1>3
<1> QED BY <1>1, <1>2, <1>3, AskMoves

----------------------------------------
(* The theorems                                                            *)

\* The invariant holds at the start: there is no Team, and nobody has asked for one.
LEMMA StartsRight ==
  ASSUME Init
  PROVE  TeamInv
<1>1. TypeOK
  BY InitTypes
<1>2. LifeInv
  BY DEF Init, LifeInv, Constructing, Owners, Unpublished, NoRecord, None
<1>3. RecordInv
  BY DEF Init, RecordInv, NoRecord, WithTeam, None
<1>4. CallInv
  <2>1. Creates \subseteq Calls /\ Submits \subseteq Calls
    BY DEF Calls
  <2> QED BY <2>1 DEF Init, CallInv, WithTeam
<1>5. AskInv
  <2>1. \A c \in Creates : pc[c] = "idle"
    BY DEF Init, Calls
  <2> QED BY <2>1 DEF AskInv, Active, Unaccepted
<1>6. OneTeamPerRequest
  BY DEF Init, OneTeamPerRequest, NoRecord
<1> QED BY <1>1, <1>2, <1>3, <1>4, <1>5, <1>6 DEF TeamInv

\* A step from a state of the invariant is described by the four summaries.
LEMMA StepMoves ==
  ASSUME TeamInv, [Next]_vars
  PROVE  Parts /\ AskInv /\ OneTeamPerRequest /\ RecStep /\ LifeStep /\ CallStep /\ EndStep
<1>1. Parts /\ AskInv /\ OneTeamPerRequest
  BY DEF TeamInv, Parts
<1>2. RecStep
  BY <1>1, RecMoves
<1> QED BY <1>1, <1>2, LifeMoves, CallMoves, EndMoves

\* The invariant is inductive.
LEMMA TeamInvKept ==
  ASSUME TeamInv, [Next]_vars
  PROVE  TeamInv'
<1>1. Parts /\ AskInv /\ OneTeamPerRequest /\ RecStep /\ LifeStep /\ CallStep /\ EndStep /\ TypeOK
  BY StepMoves DEF TeamInv
<1>2. TypeOK'
  BY <1>1, TypeKept
<1> QED BY <1>1, <1>2, LifeKept, RecordKept, CallKept, AskKept, RequestKept DEF TeamInv

\* It always holds.
LEMMA AlwaysTeamInv == Spec => []TeamInv
<1>1. Init => TeamInv
  BY StartsRight
<1>2. TeamInv /\ [Next]_vars => TeamInv'
  BY TeamInvKept
<1> QED BY <1>1, <1>2, PTL DEF Spec

\* The state of a Team always has its type.
THEOREM TeamTypeCorrect == Spec => []TypeOK
<1>1. TeamInv => TypeOK
  BY DEF TeamInv
<1> QED BY <1>1, AlwaysTeamInv, PTL

\* However often a create is repeated, at whatever names and across whatever deaths of the
\* process, one Team carries its request id; and one object at a time speaks for the Team.
LEMMA OneOwnerOfATeam == Spec => []OneTeamOneOwner
<1>1. TeamInv => OneTeamOneOwner
  <2> SUFFICES ASSUME TeamInv PROVE OneTeamOneOwner
    OBVIOUS
  <2>1. Cardinality(Owners) <= 1
    <3>1. \A s, t \in Owners : s = t
      BY DEF TeamInv, LifeInv
    <3>2. CASE Owners = {}
      <4>1. Cardinality(Owners) = 0
        BY <3>2, FS_EmptySet
      <4> QED BY <4>1
    <3>3. CASE Owners # {}
      <4>1. PICK s \in Owners : TRUE
        BY <3>3
      <4>2. Owners = {s}
        BY <3>1, <4>1
      <4>3. Cardinality(Owners) = 1
        BY <4>2, FS_Singleton
      <4> QED BY <4>3
    <3> QED BY <3>2, <3>3
  <2>2. \A c \in Calls : pc[c] = "noting" => life[at[c]] # None \/ end[at[c]] \notin {None, "over"}
    BY DEF TeamInv, CallInv, None
  <2> QED BY <2>1, <2>2 DEF OneTeamOneOwner, OneOwner, TeamInv
<1> QED BY <1>1, AlwaysTeamInv, PTL

\* A closed Team stays closed, whatever write was queued before its record said so.
LEMMA TeamStaysClosed == Spec => ClosedIsFinal
<1>1. TeamInv /\ [Next]_vars => [rec.status = "closed" => rec'.status = "closed"]_vars
  BY StepMoves DEF RecStep
<1> QED BY <1>1, AlwaysTeamInv, PTL DEF Spec, ClosedIsFinal

\* The checkout of a Team whose record is open is never removed, and one with work in it
\* only after a dissolve that was forced.
THEOREM CheckoutOutlives == Spec => CheckoutOutlivesItsTeam
<1>1. TeamInv /\ [Next]_vars =>
        [checkout # None /\ checkout' = None =>
           /\ rec.status \in {None, "closed"}
           /\ checkout = "dirty" => forced]_vars
  BY StepMoves DEF EndStep
<1> QED BY <1>1, AlwaysTeamInv, PTL DEF Spec, CheckoutOutlivesItsTeam
----------------------------------------
(* What the close of the dispatcher leaves of a Team                       *)

\* The stages of a service whose leader is yet to be built, those of one that is held with its
\* leader, and those that a create waits for.
Early == {"acquiring", "preparing", "publishing", "discarding", "seating", "rebuilding"}
WithLeader == {"prompting", "marking", "opening", "live"}
Holding == WithLeader \cup {"abandoning", "razing", "stranded"}
Creating == {"acquiring", "preparing", "publishing", "discarding", "seating", "prompting", "marking",
             "opening", "abandoning", "razing", "stranded", "reclaiming", "settling", "retiring"}

\* Nobody asks a Team for anything, or ends it, that has no leader yet.
SeatInv ==
  /\ \A s \in Services :
       /\ life[s] \in Early => lead[s] = None /\ end[s] = None
       /\ life[s] \in WithLeader => lead[s] # None
       /\ end[s] # None => lead[s] # None
  /\ \A c \in Calls : pc[c] \in WithTeam => lead[at[c]] # None

\* A creation has a create that waits for it.
MakerInv == \A s \in Services : life[s] \in Creating => \E c \in Calls : at[c] = s /\ pc[c] = "making"

\* A leader that runs has a Team that holds it, or a dissolve that closes it.
LeadInv ==
  \A s \in Services :
    /\ end[s] \in {"reclaiming", "settling", "over"} => lead[s] \in {"closed", "stuck"}
    /\ lead[s] \in {"up", "stopping"} => life[s] \in Holding \/ end[s] = "razing"
    /\ lead[s] = "closing" => end[s] = "razing" \/ life[s] \in {"razing", "stranded"}

\* Behind the drain no call is left; the second sweep reaches each leader that runs.
CloseInv ==
  /\ host \in {"drained", "closed"} => \A c \in Calls : Over(c)
  /\ host = "drained" => \A s \in Services :
       lead[s] \in {"up", "stopping"} =>
         \/ end[s] = "razing"
         \/ sweep[s] = "asked"
         \/ sweep[s] = "waiting" /\ lead[s] = "stopping"
  /\ host = "closed" => \A s \in Services : lead[s] \in {"up", "stopping"} => end[s] = "razing"

\* How a step may move a service, its leader and its dissolve.
ServiceWay(s) ==
  \/ life'[s] = life[s] /\ lead'[s] = lead[s] /\ end'[s] = end[s]
  \/ /\ life[s] = None /\ lead'[s] = None /\ end'[s] = None /\ At(s) = {}
     /\ \/ life'[s] = "acquiring" /\ \E c \in Calls : at'[c] = s /\ pc'[c] = "making"
        \/ life'[s] = "rebuilding"
  \/ /\ lead'[s] = lead[s] /\ end'[s] = end[s]
     /\ \/ life[s] \in Early /\ life'[s] \in Early \cup {None} /\ (life'[s] \in Creating => life[s] \in Creating)
        \/ life[s] = "seating" /\ life'[s] = "abandoning"
        \/ life[s] = "prompting" /\ life'[s] \in {"marking", "abandoning"}
        \/ life[s] = "marking" /\ life'[s] \in {"opening", "abandoning"}
        \/ life[s] = "opening" /\ life'[s] = "abandoning"
        \/ life[s] = "abandoning" /\ life'[s] \in {"razing", "stranded"}
        \/ life[s] \in {"razing", "stranded"} /\ Razed(s) /\ life'[s] \in {"reclaiming", "retiring"}
        \/ life[s] \in {"reclaiming", "settling"} /\ life'[s] \in {"settling", "retiring"}
        \/ life[s] \in {"retiring", "releasing"} /\ life'[s] = None
  \/ /\ life[s] = "seating" /\ end'[s] = end[s]
     /\ \/ life'[s] = "prompting" /\ lead'[s] = "up"
        \/ life'[s] = "marking" /\ lead'[s] = "idle"
        \/ life'[s] = None /\ lead'[s] = "idle"
  \/ /\ life[s] = "opening" /\ end'[s] = end[s]
     /\ life'[s] = "live" \/ (life'[s] = "releasing" /\ end[s] \in {"reclaiming", "settling", "over"})
     /\ lead'[s] = lead[s] \/ (lead[s] = "up" /\ lead'[s] = "stopping")
  \/ life[s] = "rebuilding" /\ life'[s] = "live" /\ lead'[s] = "idle" /\ end'[s] = end[s]
  \/ /\ life'[s] = life[s] /\ end'[s] = end[s]
     /\ \/ life[s] = "live" /\ lead[s] \in {"idle", "up"} /\ lead'[s] = "up" /\ ~(\A c \in Calls : Over(c))
        \/ lead[s] \in {"idle", "up", "stopping"} /\ lead'[s] = "closing" /\ (end[s] = "razing" \/ life[s] \in {"razing", "stranded"})
        \/ lead[s] = "closing" /\ lead'[s] \in {"closed", "stuck"}
        \/ lead[s] = "stopping" /\ lead'[s] \in {"idle", "stuck"}
        \/ lead[s] = "up" /\ lead'[s] = "stopping" /\ sweep'[s] = "waiting"
  \/ /\ life'[s] = life[s] /\ lead'[s] = lead[s]
     /\ \/ end[s] = None /\ end'[s] \in {"writing", "forcing"} /\ \E c \in Calls : at[c] = s /\ pc[c] \in WithTeam
        \/ end[s] \in {"writing", "forcing"} /\ end'[s] \in {"razing", None}
        \/ end[s] \in {"reclaiming", "settling"} /\ end'[s] \in {"settling", "over"}
  \/ /\ end[s] = "razing" /\ end'[s] = "reclaiming" /\ Razed(s) /\ lead'[s] = lead[s]
     /\ life'[s] = life[s] \/ (life[s] = "live" /\ life'[s] = "releasing")

ServiceStep == \A s \in Services : ServiceWay(s)

LEMMA CreateServices ==
  ASSUME Parts, NEW s \in Services,
         \/ Acquired(s) \/ Prepared(s) \/ Published(s) \/ Discarded(s) \/ Seated(s)
         \/ PromptRefused(s) \/ Marked(s) \/ Opened(s)
  PROVE  ServiceStep
<1> SUFFICES ASSUME NEW t \in Services PROVE ServiceWay(t)
  BY DEF ServiceStep
<1> USE DEF Parts, TypeOK
<1>1. CASE t # s
  <2>1. life'[t] = life[t] /\ lead'[t] = lead[t] /\ end'[t] = end[t]
    BY <1>1 DEF Acquired, Prepared, Published, Discarded, Seated, PromptRefused, Marked, Opened, Tracked, Held
  <2> QED BY <2>1 DEF ServiceWay
<1>2. CASE t = s
  <2>1. CASE Acquired(s) \/ Prepared(s) \/ Published(s) \/ Discarded(s)
    <3>1. /\ lead'[s] = lead[s] /\ end'[s] = end[s]
          /\ life[s] \in {"acquiring", "preparing", "publishing", "discarding"}
          /\ life'[s] \in {"preparing", "publishing", "seating", None}
      BY <2>1 DEF Acquired, Prepared, Published, Discarded
    <3> QED BY <1>2, <3>1 DEF ServiceWay, Early, Creating
  <2>2. CASE Seated(s)
    BY <1>2, <2>2 DEF Seated, ServiceWay
  <2>3. CASE PromptRefused(s) \/ Marked(s)
    <3>1. /\ lead'[s] = lead[s] /\ end'[s] = end[s]
          /\ \/ life[s] = "prompting" /\ life'[s] = "abandoning"
             \/ life[s] = "marking" /\ life'[s] = "opening"
      BY <2>3 DEF PromptRefused, Marked
    <3> QED BY <1>2, <3>1 DEF ServiceWay
  <2>4. CASE Opened(s)
    <3>1. /\ life[s] = "opening" /\ end'[s] = end[s]
          /\ life'[s] = "live" \/ (life'[s] = "releasing" /\ end[s] \in {"reclaiming", "settling", "over"})
      BY <2>4 DEF Opened, Tracked
    <3>2. lead'[s] = lead[s] \/ (lead[s] = "up" /\ lead'[s] = "stopping")
      BY <2>4 DEF Opened, Held
    <3> QED BY <1>2, <3>1, <3>2 DEF ServiceWay
  <2> QED BY <2>1, <2>2, <2>3, <2>4
<1> QED BY <1>1, <1>2

LEMMA AbandonServices ==
  ASSUME Parts, NEW s \in Services,
         AbandonWritten(s) \/ ChildrenGone(s) \/ AbandonReclaims(s) \/ Rebuilt(s) \/ Released(s)
  PROVE  ServiceStep
<1> SUFFICES ASSUME NEW t \in Services PROVE ServiceWay(t)
  BY DEF ServiceStep
<1> USE DEF Parts, TypeOK
<1>1. CASE t # s
  <2>1. life'[t] = life[t] /\ lead'[t] = lead[t] /\ end'[t] = end[t]
    BY <1>1 DEF AbandonWritten, ChildrenGone, AbandonReclaims, Rebuilt, Released
  <2> QED BY <2>1 DEF ServiceWay
<1>2. CASE t = s
  <2>1. CASE AbandonWritten(s)
    <3>1. lead'[s] = lead[s] /\ end'[s] = end[s] /\ life[s] = "abandoning" /\ life'[s] = "razing"
      BY <2>1 DEF AbandonWritten
    <3> QED BY <1>2, <3>1 DEF ServiceWay
  <2>2. CASE ChildrenGone(s)
    <3>1. /\ lead'[s] = lead[s] /\ end'[s] = end[s] /\ life[s] \in {"razing", "stranded"} /\ Razed(s)
          /\ life'[s] \in {"reclaiming", "retiring"}
      BY <2>2 DEF ChildrenGone, AfterAbandon
    <3> QED BY <1>2, <3>1 DEF ServiceWay
  <2>3. CASE AbandonReclaims(s)
    <3>1. /\ lead'[s] = lead[s] /\ end'[s] = end[s] /\ life[s] \in {"reclaiming", "settling"}
          /\ life'[s] \in {"settling", "retiring"}
      BY <2>3 DEF AbandonReclaims, Reclaims, Settles
    <3> QED BY <1>2, <3>1 DEF ServiceWay
  <2>4. CASE Rebuilt(s)
    <3>1. life[s] = "rebuilding" /\ life'[s] = "live" /\ lead'[s] = "idle" /\ end'[s] = end[s]
      BY <2>4 DEF Rebuilt
    <3> QED BY <1>2, <3>1 DEF ServiceWay
  <2>5. CASE Released(s)
    <3>1. lead'[s] = lead[s] /\ end'[s] = end[s] /\ life[s] \in {"retiring", "releasing"} /\ life'[s] = None
      BY <2>5 DEF Released
    <3> QED BY <1>2, <3>1 DEF ServiceWay
  <2> QED BY <2>1, <2>2, <2>3, <2>4, <2>5
<1> QED BY <1>1, <1>2

LEMMA FailedServices ==
  ASSUME Parts, NEW s \in Services,
         PromptTaken(s) \/ PrepareFails(s) \/ PublishFails(s) \/ CreationFails(s) \/ AbandonFails(s) \/ RebuildFails(s)
  PROVE  ServiceStep
<1> SUFFICES ASSUME NEW t \in Services PROVE ServiceWay(t)
  BY DEF ServiceStep
<1> USE DEF Parts, TypeOK
<1>0. /\ lead'[t] = lead[t] /\ end'[t] = end[t]
      /\ t # s => life'[t] = life[t]
  BY DEF PromptTaken, PrepareFails, PublishFails, CreationFails, AbandonFails, RebuildFails
<1>1. CASE t # s
  BY <1>0, <1>1 DEF ServiceWay
<1>2. CASE t = s
  <2>1. \/ life[s] = "prompting" /\ life'[s] = "marking"
        \/ life[s] = "preparing" /\ life'[s] = None
        \/ life[s] = "publishing" /\ life'[s] = "discarding"
        \/ life[s] \in {"seating", "prompting", "marking", "opening"} /\ life'[s] = "abandoning"
        \/ life[s] = "abandoning" /\ life'[s] = "stranded"
        \/ life[s] = "rebuilding" /\ life'[s] = None
    BY DEF PromptTaken, PrepareFails, PublishFails, CreationFails, AbandonFails, RebuildFails
  <2> QED BY <1>0, <1>2, <2>1 DEF ServiceWay, Early, Creating, None
<1> QED BY <1>1, <1>2

LEMMA LeaderServices ==
  ASSUME Parts, NEW s \in Services,
         LeaderCloses(s) \/ LeaderRests(s) \/ SweepsLeader(s) \/ SweptLeader(s)
         \/ DissolveWritten(s) \/ DissolveFails(s) \/ DissolveRazed(s) \/ DissolveReclaims(s)
  PROVE  ServiceStep
<1> SUFFICES ASSUME NEW t \in Services PROVE ServiceWay(t)
  BY DEF ServiceStep
<1> USE DEF Parts, TypeOK
<1>1. CASE t # s
  <2>1. life'[t] = life[t] /\ lead'[t] = lead[t] /\ end'[t] = end[t]
    BY <1>1 DEF LeaderCloses, LeaderRests, SweepsLeader, SweptLeader, DissolveWritten, DissolveFails, DissolveRazed,
         DissolveReclaims
  <2> QED BY <2>1 DEF ServiceWay
<1>2. CASE t = s
  <2>1. CASE LeaderCloses(s)
    <3>1. /\ life'[s] = life[s] /\ end'[s] = end[s] /\ lead'[s] = "closing"
          /\ lead[s] \in {"idle", "up", "stopping"}
          /\ end[s] = "razing" \/ life[s] \in {"razing", "stranded"}
      BY <2>1 DEF LeaderCloses
    <3> QED BY <1>2, <3>1 DEF ServiceWay
  <2>2. CASE LeaderRests(s)
    <3>1. /\ life'[s] = life[s] /\ end'[s] = end[s]
          /\ \/ lead[s] = "closing" /\ lead'[s] \in {"closed", "stuck"}
             \/ lead[s] = "stopping" /\ lead'[s] \in {"idle", "stuck"}
      BY <2>2 DEF LeaderRests
    <3> QED BY <1>2, <3>1 DEF ServiceWay
  <2>3. CASE SweepsLeader(s)
    <3>1. /\ life'[s] = life[s] /\ end'[s] = end[s]
          /\ \/ lead'[s] = lead[s]
             \/ lead[s] = "up" /\ lead'[s] = "stopping" /\ sweep'[s] = "waiting"
      BY <2>3 DEF SweepsLeader
    <3> QED BY <1>2, <3>1 DEF ServiceWay
  <2>4. CASE SweptLeader(s)
    BY <1>2, <2>4 DEF SweptLeader, ServiceWay
  <2>5. CASE DissolveWritten(s) \/ DissolveFails(s)
    <3>1. /\ life'[s] = life[s] /\ lead'[s] = lead[s]
          /\ end[s] \in {"writing", "forcing"} /\ end'[s] \in {"razing", None}
      BY <2>5 DEF DissolveWritten, DissolveFails
    <3> QED BY <1>2, <3>1 DEF ServiceWay
  <2>6. CASE DissolveRazed(s)
    <3>1. /\ end[s] = "razing" /\ end'[s] = "reclaiming" /\ Razed(s) /\ lead'[s] = lead[s]
          /\ life'[s] = life[s] \/ (life[s] = "live" /\ life'[s] = "releasing")
      BY <2>6 DEF DissolveRazed
    <3> QED BY <1>2, <3>1 DEF ServiceWay
  <2>7. CASE DissolveReclaims(s)
    <3>1. /\ life'[s] = life[s] /\ lead'[s] = lead[s]
          /\ end[s] \in {"reclaiming", "settling"} /\ end'[s] \in {"settling", "over"}
      BY <2>7 DEF DissolveReclaims, Reclaims, Settles
    <3> QED BY <1>2, <3>1 DEF ServiceWay
  <2> QED BY <2>1, <2>2, <2>3, <2>4, <2>5, <2>6, <2>7
<1> QED BY <1>1, <1>2

\* A service that begins is one that nobody works with.
LEMMA BeginsServices ==
  ASSUME Parts, NEW s \in Services, NEW stage \in {"acquiring", "rebuilding"}, Fresh(s, stage),
         stage = "acquiring" => \E c \in Calls : at'[c] = s /\ pc'[c] = "making"
  PROVE  ServiceStep
<1> SUFFICES ASSUME NEW t \in Services PROVE ServiceWay(t)
  BY DEF ServiceStep
<1>1. /\ life[s] = None /\ At(s) = {}
      /\ life' = [life EXCEPT ![s] = stage]
      /\ lead' = [lead EXCEPT ![s] = None] /\ end' = [end EXCEPT ![s] = None]
  BY FreshFacts
<1>2. /\ life'[t] = IF t = s THEN stage ELSE life[t]
      /\ lead'[t] = IF t = s THEN None ELSE lead[t]
      /\ end'[t] = IF t = s THEN None ELSE end[t]
  BY <1>1 DEF Parts, TypeOK
<1> QED BY <1>1, <1>2 DEF ServiceWay

LEMMA CallServices ==
  ASSUME Parts, NEW c \in Calls, NEW s \in Services,
         CreatesHere(c, s) \/ Opens(c, s) \/ Turns(c, s) \/ Decides(c, s) \/ Assessed(c, s)
  PROVE  ServiceStep
<1>1. CASE CreatesHere(c, s)
  <2>1. at'[c] = s /\ pc'[c] = "making"
    BY <1>1 DEF CreatesHere, GoAt, Parts, TypeOK
  <2> QED BY <1>1, <2>1, BeginsServices DEF CreatesHere
<1>2. CASE Opens(c, s)
  <2>1. UNCHANGED <<life, made, lead, end>> \/ Fresh(s, "rebuilding")
    BY <1>2 DEF Opens
  <2>2. CASE UNCHANGED <<life, made, lead, end>>
    BY <2>2 DEF ServiceStep, ServiceWay
  <2> QED BY <2>1, <2>2, BeginsServices
<1>3. CASE Turns(c, s)
  <2>1. /\ life' = life /\ end' = end
        /\ lead' = lead \/ (rec.status # "closed" /\ lead[s] \in {"idle", "up"} /\ lead' = [lead EXCEPT ![s] = "up"])
        /\ c \in Submits /\ pc[c] = "deciding" /\ at[c] = s
    BY <1>3 DEF Turns, Fenced
  <2>2. rec.status # "closed" => life[s] = "live"
    BY <2>1 DEF Parts, CallInv, WithTeam
  <2>3. ~(\A d \in Calls : Over(d))
    BY <2>1 DEF Over
  <2>4. ASSUME NEW t \in Services PROVE lead'[t] = lead[t] \/ (t = s /\ lead[s] \in {"idle", "up"} /\ lead'[t] = "up" /\ life[s] = "live")
    BY <2>1, <2>2 DEF Parts, TypeOK
  <2> QED BY <2>1, <2>3, <2>4 DEF ServiceStep, ServiceWay
<1>4. CASE Decides(c, s) \/ Assessed(c, s)
  <2>1. /\ life' = life /\ lead' = lead /\ pc[c] \in {"deciding", "assessing"} /\ at[c] = s
        /\ \/ end' = end
           \/ end[s] = None /\ \E to \in {"writing", "forcing"} : end' = [end EXCEPT ![s] = to]
    BY <1>4 DEF Decides, Assessed
  <2>2. ASSUME NEW t \in Services
        PROVE  end'[t] = end[t] \/ (t = s /\ end[s] = None /\ end'[t] \in {"writing", "forcing"})
    BY <2>1 DEF Parts, TypeOK
  <2>3. pc[c] \in WithTeam
    BY <2>1 DEF WithTeam
  <2> QED BY <2>1, <2>2, <2>3 DEF ServiceStep, ServiceWay
<1> QED BY <1>1, <1>2, <1>3, <1>4

\* So does every step but a crash.
LEMMA ServiceMoves ==
  ASSUME Parts, [Next]_vars
  PROVE  ServiceStep \/ Crash
<1>s. UNCHANGED <<life, lead, end>> => ServiceStep
  BY DEF ServiceStep, ServiceWay
<1>1. CASE UNCHANGED vars
  BY <1>1, <1>s DEF vars
<1>2. CASE Decisions
  BY <1>2, CallServices DEF Decisions
<1>3. CASE Expected
  <2>1. ASSUME NEW s \in Services, CreateSteps(s)
        PROVE  ServiceStep
    BY <2>1, CreateServices, AbandonServices DEF CreateSteps
  <2>2. ASSUME NEW s \in Services, EndSteps(s) \/ LeaderSteps(s) \/ SweepSteps(s)
        PROVE  ServiceStep
    BY <2>2, LeaderServices DEF EndSteps, LeaderSteps, SweepSteps
  <2>3. ASSUME NEW c \in Calls, CallSteps(c)
        PROVE  ServiceStep
    <3>1. CASE \E s \in Services : Opens(c, s) \/ Assessed(c, s)
      BY <3>1, CallServices
    <3>2. CASE ~ \E s \in Services : Opens(c, s) \/ Assessed(c, s)
      BY <2>3, <3>2, <1>s DEF CallSteps, Looks, CreatesElsewhere, NothingToOpen, Submitted, Noted
    <3> QED BY <3>1, <3>2
  <2>4. CASE SweepEnds
    BY <2>4, <1>s DEF SweepEnds
  <2> QED BY <1>3, <2>1, <2>2, <2>3, <2>4 DEF Expected
<1>4. CASE Unexpected
  <2>1. ASSUME NEW s \in Services, NEW c \in Calls, CreatesHere(c, s) \/ LeaderDissolves(c, s)
        PROVE  ServiceStep
    BY <2>1, CallServices, <1>s DEF LeaderDissolves
  <2>2. ASSUME NEW s \in Services, Recovers(s)
        PROVE  ServiceStep
    BY <2>2, BeginsServices DEF Recovers
  <2>3. CASE StartReclaims \/ Recovered \/ CloseHost \/ \E c \in Calls : Enter(c) \/ Submitted(c)
    BY <2>3, <1>s DEF StartReclaims, Recovered, CloseHost, Enter, Submitted
  <2> QED BY <1>4, <2>1, <2>2, <2>3, FailedServices, LeaderServices DEF Unexpected
<1> QED BY <1>1, <1>2, <1>3, <1>4 DEF Next
\* How a step may move a call: one whose creation goes on keeps waiting for it, and only a Team
\* that has its leader is given one.
WaitWay(c) ==
  /\ Over(c) /\ ~Accepting => pc'[c] = pc[c]
  /\ \/ pc'[c] = pc[c] /\ at'[c] = at[c]
     \/ pc[c] # "making" /\ pc'[c] \notin WithTeam
     \/ pc[c] = "making" /\ pc'[c] \notin WithTeam /\ life'[at[c]] \notin Creating
     \/ pc[c] \in WithTeam /\ pc'[c] \in WithTeam /\ at'[c] = at[c]
     \/ pc[c] # "making" /\ at'[c] \in Services /\ lead'[at'[c]] # None

WaitStep == \A c \in Calls : WaitWay(c)

\* A construction that is over answers those who waited for it.
LEMMA AnswersCalls ==
  ASSUME Parts, NEW s \in Services, NEW creator \in {"redrawing", "done"},
         NEW joined \in {"deciding", "opening", "done"}, Answered(s, creator, joined),
         life'[s] \notin Creating,
         joined = "deciding" => lead'[s] # None
  PROVE  WaitStep
<1> SUFFICES ASSUME NEW d \in Calls PROVE WaitWay(d)
  BY DEF WaitStep
<1>1. creator \in Paths /\ joined \in Paths
  BY DEF Paths
<1>2. /\ pc'[d] = IF at[d] = s /\ pc[d] = "making" THEN creator
                  ELSE IF at[d] = s /\ pc[d] = "joined" THEN joined ELSE pc[d]
      /\ at'[d] = IF pc'[d] \in {"redrawing", "opening", "done"} THEN None ELSE at[d]
  BY <1>1, AnsweredFacts DEF Parts, TypeOK
<1>3. CASE at[d] = s /\ pc[d] = "making"
  BY <1>2, <1>3 DEF WaitWay, WithTeam, Over
<1>4. CASE at[d] = s /\ pc[d] = "joined"
  BY <1>2, <1>4 DEF WaitWay, WithTeam, Over
<1>5. CASE ~(at[d] = s /\ pc[d] \in {"making", "joined"})
  <2>1. pc'[d] = pc[d]
    BY <1>2, <1>5
  <2>2. CASE pc[d] \in {"redrawing", "opening", "done"}
    BY <2>1, <2>2 DEF WaitWay, WithTeam
  <2>3. CASE pc[d] \notin {"redrawing", "opening", "done"}
    BY <1>2, <2>1, <2>3 DEF WaitWay
  <2> QED BY <2>2, <2>3
<1> QED BY <1>3, <1>4, <1>5

\* A call that goes on by itself.
LEMMA GoesCalls ==
  ASSUME Parts, NEW c \in Calls, NEW where \in Paths, Go(c, where), pc[c] # "making",
         where \in WithTeam => pc[c] \in WithTeam,
         Over(c) => Accepting
  PROVE  WaitStep
<1> SUFFICES ASSUME NEW d \in Calls PROVE WaitWay(d)
  BY DEF WaitStep
<1>1. /\ pc'[d] = IF d = c THEN where ELSE pc[d]
      /\ at'[d] = IF d = c /\ where = "done" THEN None ELSE at[d]
  BY GoesFacts DEF Parts, TypeOK
<1> QED BY <1>1 DEF WaitWay, WithTeam

\* A call that gets a service of its own.
LEMMA GetsCalls ==
  ASSUME Parts, NEW c \in Calls, NEW where \in Paths, NEW s \in Services, GoAt(c, where, s), pc[c] # "making",
         where \in WithTeam => lead'[s] # None,
         Over(c) => Accepting
  PROVE  WaitStep
<1> SUFFICES ASSUME NEW d \in Calls PROVE WaitWay(d)
  BY DEF WaitStep
<1>1. /\ pc'[d] = IF d = c THEN where ELSE pc[d]
      /\ at'[d] = IF d = c THEN s ELSE at[d]
  BY GoFacts DEF Parts, TypeOK
<1> QED BY <1>1 DEF WaitWay

LEMMA ServicesAnswer ==
  ASSUME Parts, SeatInv, NEW s \in Services,
         \/ Acquired(s) \/ Discarded(s) \/ Seated(s) \/ Opened(s) \/ Rebuilt(s) \/ Released(s)
         \/ PrepareFails(s) \/ RebuildFails(s)
  PROVE  WaitStep
<1>c. calls' = calls => WaitStep
  BY DEF calls, WaitStep, WaitWay
<1>n. None \notin Creating /\ "live" \notin Creating /\ "releasing" \notin Creating
  BY DEF Creating, None
<1>l. life \in [Services -> Lives] /\ lead \in [Services -> Leads]
  BY DEF Parts, TypeOK
<1>1. CASE Acquired(s)
  <2>1. CASE rec.status = None
    BY <1>1, <2>1, <1>c DEF Acquired
  <2>2. CASE rec.status # None
    <3>1. life'[s] = None /\ Answered(s, "redrawing", "opening")
      BY <1>1, <2>2, <1>l DEF Acquired
    <3> QED BY <3>1, <1>n, AnswersCalls
  <2> QED BY <2>1, <2>2
<1>2. CASE Discarded(s) \/ PrepareFails(s) \/ RebuildFails(s)
  <2>1. life'[s] = None /\ Answered(s, "done", "done")
    BY <1>2, <1>l DEF Discarded, PrepareFails, RebuildFails
  <2> QED BY <2>1, <1>n, AnswersCalls
<1>3. CASE Seated(s)
  <2>1. CASE Accepting
    BY <1>3, <2>1, <1>c DEF Seated
  <2>2. CASE ~Accepting
    <3>1. life'[s] = None /\ Answered(s, "done", "done")
      BY <1>3, <2>2, <1>l DEF Seated
    <3> QED BY <3>1, <1>n, AnswersCalls
  <2> QED BY <2>1, <2>2
<1>4. CASE Opened(s)
  <2>1. life'[s] \in {"live", "releasing"}
    BY <1>4, <1>l DEF Opened, Tracked
  <2>2. lead[s] # None
    BY <1>4 DEF Opened, SeatInv, WithLeader
  <2>3. CASE Accepting
    <3>1. Answered(s, "done", "deciding") /\ lead' = lead
      BY <1>4, <2>3 DEF Opened, Held
    <3> QED BY <3>1, <2>1, <2>2, <1>n, AnswersCalls
  <2>4. CASE ~Accepting
    <3>1. Answered(s, "done", "done")
      BY <1>4, <2>4 DEF Opened, Held
    <3> QED BY <3>1, <2>1, <1>n, AnswersCalls
  <2> QED BY <2>3, <2>4
<1>5. CASE Rebuilt(s)
  <2>1. life'[s] = "live" /\ lead'[s] = "idle" /\ "idle" # None
    BY <1>5, <1>l DEF Rebuilt, None
  <2>2. Answered(s, "done", "deciding") \/ Answered(s, "done", "done")
    BY <1>5 DEF Rebuilt
  <2> QED BY <2>1, <2>2, <1>n, AnswersCalls
<1>6. CASE Released(s)
  <2>1. life'[s] = None
    BY <1>6, <1>l DEF Released
  <2>2. Answered(s, "done", "done") \/ UNCHANGED calls
    BY <1>6 DEF Released
  <2> QED BY <2>1, <2>2, <1>n, <1>c, AnswersCalls
<1> QED BY <1>1, <1>2, <1>3, <1>4, <1>5, <1>6

LEMMA CallsGo ==
  ASSUME Parts, SeatInv, NEW c \in Calls,
         \/ Enter(c) \/ Looks(c) \/ CreatesElsewhere(c) \/ NothingToOpen(c) \/ Submitted(c) \/ Noted(c)
         \/ \E s \in Services : Turns(c, s) \/ Decides(c, s) \/ Assessed(c, s)
  PROVE  WaitStep
<1>1. CASE Enter(c)
  <2>1. PICK where \in {"asked", "opening"} : Go(c, where)
    BY <1>1 DEF Enter
  <2>2. where \in Paths /\ where \notin WithTeam /\ pc[c] = "idle" /\ Accepting
    BY <1>1 DEF Enter, Paths, WithTeam
  <2> QED BY <2>1, <2>2, GoesCalls
<1>2. CASE ~Enter(c)
  <2>1. /\ pc[c] \in {"asked", "choosing", "redrawing", "opening"} \cup WithTeam
        /\ \E where \in {"done", "choosing"} \cup WithTeam :
             /\ Go(c, where)
             /\ where \in WithTeam => pc[c] \in WithTeam
    BY <1>2 DEF Looks, CreatesElsewhere, NothingToOpen, Submitted, Noted, Turns, Decides, Assessed, WithTeam
  <2>2. PICK where \in {"done", "choosing"} \cup WithTeam :
             /\ Go(c, where)
             /\ where \in WithTeam => pc[c] \in WithTeam
    BY <2>1
  <2>3. where \in Paths /\ pc[c] # "making" /\ ~Over(c)
    BY <2>1 DEF Paths, WithTeam, Over
  <2> QED BY <2>2, <2>3, GoesCalls
<1> QED BY <1>1, <1>2

LEMMA CallsGet ==
  ASSUME Parts, SeatInv, NEW c \in Calls, NEW s \in Services,
         CreatesHere(c, s) \/ Opens(c, s) \/ LeaderDissolves(c, s)
  PROVE  WaitStep
<1>1. CASE CreatesHere(c, s)
  <2>1. GoAt(c, "making", s) /\ pc[c] = "choosing"
    BY <1>1 DEF CreatesHere
  <2>2. "making" \in Paths /\ "making" \notin WithTeam /\ ~Over(c)
    BY <2>1 DEF Paths, WithTeam, Over
  <2> QED BY <2>1, <2>2, GetsCalls
<1>2. CASE Opens(c, s)
  <2>1. pc[c] = "opening" /\ ~Over(c)
    BY <1>2 DEF Opens, Over
  <2>2. CASE s \in Live /\ GoAt(c, "deciding", s) /\ lead' = lead
    <3>1. lead'[s] # None
      BY <2>2 DEF Live, SeatInv, WithLeader
    <3> QED BY <2>1, <2>2, <3>1, GetsCalls DEF Paths
  <2>3. CASE GoAt(c, "joined", s)
    <3>1. "joined" \in Paths /\ "joined" \notin WithTeam
      BY DEF Paths, WithTeam
    <3> QED BY <2>1, <2>3, <3>1, GetsCalls
  <2> QED BY <1>2, <2>2, <2>3 DEF Opens
<1>3. CASE LeaderDissolves(c, s)
  <2>1. GoAt(c, "deciding", s) /\ pc[c] = "idle" /\ Accepting /\ lead'[s] = "up" /\ "up" # None
    BY <1>3 DEF LeaderDissolves, None
  <2> QED BY <2>1, GetsCalls DEF Paths
<1> QED BY <1>1, <1>2, <1>3

LEMMA WaitMoves ==
  ASSUME Parts, SeatInv, [Next]_vars
  PROVE  WaitStep \/ Crash
<1>c. calls' = calls => WaitStep
  BY DEF calls, WaitStep, WaitWay
<1>1. CASE UNCHANGED vars
  BY <1>1, <1>c DEF vars
<1>2. CASE Decisions
  BY <1>2, CallsGo DEF Decisions
<1>3. CASE Expected
  <2>1. ASSUME NEW s \in Services, CreateSteps(s)
        PROVE  WaitStep
    <3>1. CASE \/ Acquired(s) \/ Discarded(s) \/ Seated(s) \/ Opened(s) \/ Rebuilt(s) \/ Released(s)
      BY <3>1, ServicesAnswer
    <3>2. CASE \/ Prepared(s) \/ Published(s) \/ PromptRefused(s) \/ Marked(s) \/ AbandonWritten(s)
               \/ ChildrenGone(s) \/ AbandonReclaims(s)
      BY <3>2, <1>c DEF Prepared, Published, PromptRefused, Marked, AbandonWritten, ChildrenGone, AbandonReclaims
    <3> QED BY <2>1, <3>1, <3>2 DEF CreateSteps
  <2>2. ASSUME NEW s \in Services, EndSteps(s) \/ LeaderSteps(s) \/ SweepSteps(s)
        PROVE  WaitStep
    BY <2>2, <1>c DEF EndSteps, LeaderSteps, SweepSteps, DissolveWritten, DissolveRazed, DissolveReclaims,
         LeaderCloses, LeaderRests, SweepsLeader, SweptLeader
  <2>3. ASSUME NEW c \in Calls, CallSteps(c)
        PROVE  WaitStep
    <3>1. CASE \E s \in Services : Opens(c, s)
      BY <3>1, CallsGet
    <3>2. CASE ~ \E s \in Services : Opens(c, s)
      BY <2>3, <3>2, CallsGo DEF CallSteps
    <3> QED BY <3>1, <3>2
  <2>4. CASE SweepEnds
    BY <2>4, <1>c DEF SweepEnds
  <2> QED BY <1>3, <2>1, <2>2, <2>3, <2>4 DEF Expected
<1>4. CASE Unexpected
  <2>1. ASSUME NEW s \in Services, NEW c \in Calls, CreatesHere(c, s) \/ LeaderDissolves(c, s)
        PROVE  WaitStep
    BY <2>1, CallsGet
  <2>2. ASSUME NEW c \in Calls, Enter(c) \/ Submitted(c)
        PROVE  WaitStep
    BY <2>2, CallsGo
  <2>3. ASSUME NEW s \in Services, PrepareFails(s) \/ RebuildFails(s)
        PROVE  WaitStep
    BY <2>3, ServicesAnswer
  <2>4. ASSUME NEW s \in Services,
               PromptTaken(s) \/ PublishFails(s) \/ CreationFails(s) \/ AbandonFails(s) \/ DissolveFails(s) \/ Recovers(s)
        PROVE  WaitStep
    BY <2>4, <1>c DEF PromptTaken, PublishFails, CreationFails, AbandonFails, DissolveFails, Recovers
  <2>5. CASE StartReclaims \/ Recovered \/ CloseHost
    BY <2>5, <1>c DEF StartReclaims, Recovered, CloseHost
  <2> QED BY <1>4, <2>1, <2>2, <2>3, <2>4, <2>5 DEF Unexpected
<1> QED BY <1>1, <1>2, <1>3, <1>4 DEF Next
\* How a step may move the host and its sweep.
SweepWay(s) ==
  \/ sweep'[s] = sweep[s]
  \/ /\ sweep[s] = "asked" /\ end'[s] = end[s]
     /\ \/ lead[s] \in {"up", "stopping"} /\ lead'[s] = "stopping" /\ sweep'[s] = "waiting"
        \/ lead[s] \notin {"up", "stopping"} /\ lead'[s] = lead[s] /\ sweep'[s] = None
  \/ /\ sweep[s] = "waiting" /\ lead[s] # "stopping" /\ lead'[s] = lead[s] /\ end'[s] = end[s]
     /\ sweep'[s] = None

HostStep ==
  \/ host' = host /\ \A s \in Services : SweepWay(s)
  \/ host' \notin {"drained", "closed"}
  \/ /\ host = "swept" /\ host' = "drained" /\ sweep' = Asked /\ lead' = lead /\ end' = end /\ pc' = pc
     /\ \A c \in Calls : Over(c)
  \/ host = "drained" /\ host' = "closed" /\ Swept /\ lead' = lead /\ end' = end /\ pc' = pc

LEMMA HostMoves ==
  ASSUME Parts, [Next]_vars
  PROVE  HostStep
<1>s. host' = host /\ sweep' = sweep => HostStep
  BY DEF HostStep, SweepWay
<1>1. CASE UNCHANGED vars
  BY <1>1, <1>s DEF vars
<1>2. CASE Decisions
  BY <1>2, <1>s DEF Decisions, Turns, Decides
<1>3. CASE Expected
  <2>1. ASSUME NEW s \in Services, CreateSteps(s)
        PROVE  HostStep
    BY <2>1, <1>s DEF CreateSteps, Acquired, Prepared, Published, Discarded, Seated, PromptRefused, Marked, Opened,
         AbandonWritten, ChildrenGone, AbandonReclaims, Rebuilt, Released
  <2>2. ASSUME NEW s \in Services, EndSteps(s) \/ LeaderSteps(s)
        PROVE  HostStep
    BY <2>2, <1>s DEF EndSteps, LeaderSteps, DissolveWritten, DissolveRazed, DissolveReclaims, LeaderCloses, LeaderRests
  <2>3. ASSUME NEW s \in Services, SweepSteps(s)
        PROVE  HostStep
    <3>1. ASSUME NEW t \in Services PROVE SweepWay(t)
      <4>1. CASE t # s
        BY <2>3, <4>1 DEF SweepSteps, SweepsLeader, SweptLeader, SweepWay, Parts, TypeOK
      <4>2. CASE t = s
        BY <2>3, <4>2 DEF SweepSteps, SweepsLeader, SweptLeader, SweepWay, Parts, TypeOK
      <4> QED BY <4>1, <4>2
    <3>2. host' = host
      BY <2>3 DEF SweepSteps, SweepsLeader, SweptLeader
    <3> QED BY <3>1, <3>2 DEF HostStep
  <2>4. ASSUME NEW c \in Calls, CallSteps(c)
        PROVE  HostStep
    BY <2>4, <1>s DEF CallSteps, Looks, CreatesElsewhere, NothingToOpen, Submitted, Noted, Opens, Assessed
  <2>5. CASE SweepEnds
    BY <2>5 DEF SweepEnds, HostStep, AskedAgain, calls
  <2> QED BY <1>3, <2>1, <2>2, <2>3, <2>4, <2>5 DEF Expected
<1>4. CASE Unexpected
  <2>1. CASE StartReclaims \/ Recovered \/ CloseHost \/ Crash
    BY <2>1, <1>s DEF StartReclaims, Recovered, CloseHost, Crash, HostStep
  <2>2. ASSUME NEW c \in Calls, Enter(c) \/ Submitted(c)
        PROVE  HostStep
    BY <2>2, <1>s DEF Enter, Submitted
  <2>3. ASSUME NEW s \in Services,
               \/ PromptTaken(s) \/ PrepareFails(s) \/ PublishFails(s) \/ CreationFails(s) \/ AbandonFails(s)
               \/ DissolveFails(s) \/ Recovers(s)
               \/ \E c \in Calls : CreatesHere(c, s) \/ LeaderDissolves(c, s)
        PROVE  HostStep
    BY <2>3, <1>s DEF PromptTaken, PrepareFails, PublishFails, CreationFails, AbandonFails, DissolveFails, Recovers,
         CreatesHere, LeaderDissolves
  <2>4. ASSUME NEW s \in Services, RebuildFails(s)
        PROVE  HostStep
    <3>1. sweep' = sweep /\ (host' = host \/ host' = "fenced")
      BY <2>4 DEF RebuildFails
    <3> QED BY <3>1, <1>s DEF HostStep
  <2> QED BY <1>4, <2>1, <2>2, <2>3, <2>4 DEF Unexpected
<1> QED BY <1>1, <1>2, <1>3, <1>4 DEF Next

----------------------------------------
(* The four invariants are kept                                           *)

SeatOf(s) ==
  /\ life[s] \in Early => lead[s] = None /\ end[s] = None
  /\ life[s] \in WithLeader => lead[s] # None
  /\ end[s] # None => lead[s] # None

LEMMA ServiceSeats ==
  ASSUME SeatInv, NEW s \in Services, ServiceWay(s),
         \A c \in Calls : at[c] = s /\ pc[c] \in WithTeam => lead[s] # None
  PROVE  SeatOf(s)'
  BY DEF SeatInv, SeatOf, ServiceWay, Early, WithLeader, Creating, Razed, None

LEMMA CallSeats ==
  ASSUME Parts, SeatInv, ServiceStep, NEW c \in Calls, WaitWay(c), pc'[c] \in WithTeam
  PROVE  lead'[at'[c]] # None
<1>1. CASE pc[c] \in WithTeam /\ at'[c] = at[c]
  <2>1. at[c] \in Services /\ lead[at[c]] # None /\ ServiceWay(at[c])
    BY <1>1 DEF Parts, CallInv, SeatInv, ServiceStep
  <2>2. At(at[c]) # {}
    BY <1>1 DEF At, WithTeam, Over
  <2> QED BY <1>1, <2>1, <2>2 DEF ServiceWay, None
<1>2. CASE pc'[c] = pc[c] /\ at'[c] = at[c]
  BY <1>1, <1>2
<1> QED BY <1>1, <1>2 DEF WaitWay

LEMMA SeatKeeps ==
  ASSUME Parts, SeatInv, ServiceStep, WaitStep
  PROVE  SeatInv'
<1>1. ASSUME NEW s \in Services PROVE SeatOf(s)'
  BY ServiceSeats DEF ServiceStep, SeatInv
<1>2. ASSUME NEW c \in Calls, pc'[c] \in WithTeam PROVE lead'[at'[c]] # None
  BY <1>2, CallSeats DEF WaitStep
<1> QED BY <1>1, <1>2 DEF SeatInv, SeatOf

LEMMA MakerKeeps ==
  ASSUME Parts, MakerInv, ServiceStep, WaitStep
  PROVE  MakerInv'
<1> SUFFICES ASSUME NEW s \in Services, life'[s] \in Creating
             PROVE  \E c \in Calls : at'[c] = s /\ pc'[c] = "making"
  BY DEF MakerInv
<1>1. life[s] \in Creating \/ \E c \in Calls : at'[c] = s /\ pc'[c] = "making"
  BY DEF ServiceStep, ServiceWay, Creating, Early, None
<1>2. CASE life[s] \in Creating
  <2>1. PICK c \in Calls : at[c] = s /\ pc[c] = "making"
    BY <1>2 DEF MakerInv
  <2>2. WaitWay(c) /\ "making" \notin WithTeam
    BY DEF WaitStep, WithTeam
  <2> QED BY <2>1, <2>2 DEF WaitWay
<1> QED BY <1>1, <1>2

LeadOf(s) ==
  /\ end[s] \in {"reclaiming", "settling", "over"} => lead[s] \in {"closed", "stuck"}
  /\ lead[s] \in {"up", "stopping"} => life[s] \in Holding \/ end[s] = "razing"
  /\ lead[s] = "closing" => end[s] = "razing" \/ life[s] \in {"razing", "stranded"}

LEMMA LeadKeeps ==
  ASSUME SeatInv, LeadInv, ServiceStep
  PROVE  LeadInv'
<1>1. ASSUME NEW s \in Services PROVE LeadOf(s)'
  <2>1. LeadOf(s) /\ SeatOf(s) /\ ServiceWay(s)
    BY DEF LeadInv, LeadOf, SeatInv, SeatOf, ServiceStep
  <2> QED BY <2>1 DEF LeadOf, SeatOf, ServiceWay, Early, WithLeader, Holding, Creating, Razed, None
<1> QED BY <1>1 DEF LeadInv, LeadOf

\* Behind the drain, nothing is under construction.
LEMMA NothingMade ==
  ASSUME MakerInv, \A c \in Calls : Over(c), NEW s \in Services
  PROVE  life[s] \notin Creating
  BY DEF MakerInv, Over

\* A leader that runs behind the drain ran before, as it was or on its way to being stopped.
LEMMA RunningBefore ==
  ASSUME NEW s \in Services, ServiceWay(s), life[s] \notin Creating, \A c \in Calls : Over(c),
         lead'[s] \in {"up", "stopping"}
  PROVE  /\ lead[s] \in {"up", "stopping"}
         /\ lead'[s] = lead[s] \/ (lead[s] = "up" /\ lead'[s] = "stopping" /\ sweep'[s] = "waiting")
         /\ end[s] = "razing" => end'[s] = "razing"
  BY DEF ServiceWay, Creating, Early, Razed, None

LEMMA CloseKeeps ==
  ASSUME Parts, SeatInv, MakerInv, LeadInv, CloseInv, ServiceStep, WaitStep, HostStep
  PROVE  CloseInv'
<1>1. CASE host' \notin {"drained", "closed"}
  BY <1>1 DEF CloseInv
<1>2. CASE host = "swept" /\ host' = "drained" /\ sweep' = Asked /\ lead' = lead /\ end' = end /\ pc' = pc
           /\ (\A c \in Calls : Over(c))
  <2>1. \A c \in Calls : Over(c)'
    BY <1>2 DEF Over
  <2>2. ASSUME NEW s \in Services, lead[s] \in {"up", "stopping"}, end[s] # "razing"
        PROVE  sweep'[s] = "asked"
    <3>1. life[s] \in Holding /\ life[s] \notin Creating
      BY <1>2, <2>2, NothingMade DEF LeadInv
    <3>2. life[s] = "live"
      BY <3>1 DEF Holding, WithLeader, Creating
    <3> QED BY <1>2, <3>2 DEF Asked, Live
  <2> QED BY <1>2, <2>1, <2>2 DEF CloseInv
<1>3. CASE host = "drained" /\ host' = "closed" /\ Swept /\ lead' = lead /\ end' = end /\ pc' = pc
  <2>1. \A c \in Calls : Over(c)'
    BY <1>3 DEF CloseInv, Over
  <2> QED BY <1>3, <2>1 DEF CloseInv, Swept, None
<1>4. CASE host' = host /\ host \in {"drained", "closed"} /\ \A s \in Services : SweepWay(s)
  <2>0. \A c \in Calls : Over(c)
    BY <1>4 DEF CloseInv
  <2>1. \A c \in Calls : Over(c)'
    BY <1>4, <2>0 DEF WaitStep, WaitWay, Accepting, Over
  <2>2. ASSUME NEW s \in Services, lead'[s] \in {"up", "stopping"}
        PROVE  /\ lead[s] \in {"up", "stopping"}
               /\ lead'[s] = lead[s] \/ (lead[s] = "up" /\ lead'[s] = "stopping" /\ sweep'[s] = "waiting")
               /\ end[s] = "razing" => end'[s] = "razing"
    BY <2>0, <2>2, RunningBefore, NothingMade DEF ServiceStep
  <2>3. ASSUME host = "drained", NEW s \in Services, lead'[s] \in {"up", "stopping"}
        PROVE  \/ end'[s] = "razing"
               \/ sweep'[s] = "asked"
               \/ sweep'[s] = "waiting" /\ lead'[s] = "stopping"
    <3>1. \/ end[s] = "razing"
          \/ sweep[s] = "asked"
          \/ sweep[s] = "waiting" /\ lead[s] = "stopping"
      BY <2>2, <2>3 DEF CloseInv
    <3>2. SweepWay(s)
      BY <1>4
    <3> QED BY <2>2, <2>3, <3>1, <3>2 DEF SweepWay, None
  <2>4. ASSUME host = "closed", NEW s \in Services, lead'[s] \in {"up", "stopping"}
        PROVE  end'[s] = "razing"
    BY <2>2, <2>4 DEF CloseInv
  <2> QED BY <1>4, <2>1, <2>3, <2>4 DEF CloseInv
<1> QED BY <1>1, <1>2, <1>3, <1>4 DEF HostStep

\* What was said of leaders, seats, makers and the close.
HeldInv == SeatInv /\ MakerInv /\ LeadInv /\ CloseInv

LEMMA HeldStarts ==
  ASSUME Init
  PROVE  HeldInv
  BY DEF Init, HeldInv, SeatInv, MakerInv, LeadInv, CloseInv, Early, WithLeader, Creating, WithTeam, None

LEMMA HeldKeeps ==
  ASSUME Parts, HeldInv, [Next]_vars
  PROVE  HeldInv'
<1>1. CASE Crash
  BY <1>1 DEF Crash, HeldInv, SeatInv, MakerInv, LeadInv, CloseInv, Early, WithLeader, Creating, WithTeam, None
<1>2. CASE ~Crash
  BY <1>2, ServiceMoves, WaitMoves, HostMoves, SeatKeeps, MakerKeeps, LeadKeeps, CloseKeeps DEF HeldInv
<1> QED BY <1>1, <1>2

LEMMA HeldMeans == ASSUME HeldInv PROVE ClosedHostRunsNoTeam
<1> SUFFICES ASSUME host = "closed", NEW s \in Services, lead[s] \in {"up", "stopping", "closing"}
             PROVE  end[s] = "razing"
  BY DEF ClosedHostRunsNoTeam
<1>1. life[s] \notin Creating
  BY NothingMade DEF HeldInv, CloseInv
<1>2. life[s] \notin {"razing", "stranded"}
  BY <1>1 DEF Creating
<1> QED BY <1>2 DEF HeldInv, CloseInv, LeadInv

\* A dispatcher that is closed runs no leader, but for one that a dissolve is closing.
LEMMA TeamClosesQuiet == Spec => []ClosedHostRunsNoTeam
<1>1. Init => HeldInv
  BY HeldStarts
<1>2. TeamInv /\ HeldInv /\ [Next]_vars => HeldInv'
  BY HeldKeeps DEF TeamInv, Parts
<1>3. HeldInv => ClosedHostRunsNoTeam
  BY HeldMeans
<1> QED BY <1>1, <1>2, <1>3, AlwaysTeamInv, PTL DEF Spec

----------------------------------------
(* The services of one TeamMate and the sweeps of the close                *)
\* The groups of its variables, and a constant.
USE DEF C!svcs, C!maps, C!calls, C!host, C!NoReopen
\* Where a call stands with its service.
MateOf(c) ==
  /\ colPc[c] \in {"starting", "intent", "submitting"} =>
          colTarget[c] # 0 /\ colPhase[colTarget[c]] # "closed" /\ KindOf[c] # "close"
  /\ colPc[c] = "undoing" => colTarget[c] # 0 /\ KindOf[c] = "spawn"
  /\ colPc[c] = "starting" => colRt[colTarget[c]] \in {"starting", "stuck"}
  /\ colPc[c] = "submitting" => colRt[colTarget[c]] = "up"
  /\ colPc[c] = "intent" =>
          \/ colRt[colTarget[c]] = "up"
          \/ colRt[colTarget[c]] = "none" /\ (colPhase[colTarget[c]] # "active" \/ colHostStop[colTarget[c]] = "drain")
  /\ colPc[c] = "allocating" => KindOf[c] = "spawn"
  /\ colPc[c] = "building" => KindOf[c] = "send" /\ colReopening.pc = "building"
  /\ colPc[c] = "resolved" /\ colTarget[c] = 0 =>
          colFlight = "none" /\ colEntities = 0 /\ colRecord # "absent" /\ KindOf[c] # "spawn"
  /\ colPc[c] = "resolved" /\ colTarget[c] # 0 =>
          \/ colTarget[c] \in {colEntities, colReopening.svc}
          \/ colPhase[colTarget[c]] # "active" \/ colHostStop[colTarget[c]] # "no"
  /\ colPc[c] = "waiting" /\ KindOf[c] = "spawn" => colFlight = "creating"
  /\ KindOf[c] = "spawn" /\ colPc[c] \in {"idle", "allocating"} => colRecord = "absent" /\ colFlight # "creating"

ServiceOf(i) ==
  /\ colRt[i] # "none" => i \in {colEntities, colReopening.svc}
  /\ colPhase[i] = "closing" <=> colClosing[i] # "no"
  /\ colClosing[i] = "drain" => colRt[i] = "none"
  /\ colClosing[i] # "no" => \E c \in CollectionCalls : colPc[c] = "closing" /\ colTarget[c] = i

\* Of the reopening map.
ReopenInv ==
  /\ colReopening.pc = "none" => colReopening = C!NoReopen
  /\ colReopening.pc = "building" =>
       /\ colReopening.svc = 0 /\ colReopening.owner \in CollectionCalls /\ colPc[colReopening.owner] = "building"
       /\ colEntities = 0
  /\ colReopening.pc = "built" =>
       /\ colReopening.svc # 0 /\ colPhase[colReopening.svc] # "closed" /\ colEntities \in {0, colReopening.svc}
       /\ colReopening.owner \in CollectionCalls /\ colTarget[colReopening.owner] = colReopening.svc
       /\ KindOf[colReopening.owner] = "send"
       /\ colPc[colReopening.owner] \in {"resolved", "starting", "intent", "submitting"}
       /\ colPc[colReopening.owner] = "resolved" => colRt[colReopening.svc] = "none"
  /\ colReopening.pc # "none" => colFlight \in {"none", "joining"}

MapInv ==
  /\ colEntities # 0 => colPhase[colEntities] # "closed"
  /\ colFlight = "joining" => colReopening.pc = "building"
  /\ colFlight = "opening" => colEntities = 0 /\ colRecord # "absent"
  /\ colFlight = "creating" => colRecord = "absent"
  /\ colRecord = "absent" => colBuilt = 0 /\ colReopening.pc = "none"
  /\ colFlight # "none" => \E c \in CollectionCalls : colPc[c] = "waiting"

SweepInv ==
  /\ colSweep = "none" <=> ~colFence
  /\ colSweep # "none" => colPass \in {1, 2}
  /\ colSweep = "drain" => colPass = 1
  /\ colSweep = "done" => colPass = 2
  /\ colSweep # "none" /\ colPass = 2 => \A c \in CollectionCalls : C!Over(c)
  /\ colPass = 2 /\ colSweep = "reopen" => \A i \in C!Materialized : colRt[i] # "none" => i \in colHeld
  /\ colPass = 2 /\ colSweep = "stop" => \A i \in C!Materialized : colRt[i] # "none" => i \in colHeld \/ colHostStop[i] = "stop"
  /\ colSweep = "done" => \A i \in C!Materialized : colRt[i] = "none"

CallsInv == \A c \in CollectionCalls : MateOf(c)
ServicesInv == \A i \in C!Materialized : ServiceOf(i)
CollectionInv == C!TypeOK /\ CallsInv /\ ServicesInv /\ ReopenInv /\ MapInv /\ SweepInv

LEMMA CollectionInit ==
  ASSUME C!CollectionAssumption, C!Init
  PROVE  CollectionInv
<1>1. C!TypeOK
  <2>1. C!Materialized = {}
    BY DEF C!Init, C!Materialized
  <2>2. /\ colPhase \in [C!Materialized -> C!Phases]
        /\ colRt \in [C!Materialized -> {"none", "starting", "stuck", "up"}]
        /\ colHostStop \in [C!Materialized -> {"no", "stop", "drain"}]
        /\ colClosing \in [C!Materialized -> {"no", "stop", "drain"}]
    BY <2>1 DEF C!Init
  <2>3. colRecord \in {"absent", "open", "closed"} /\ colBuilt \in 0..MaxServices
    BY DEF C!Init, C!CollectionAssumption
  <2>4. colPc \in [CollectionCalls -> C!Outs] /\ colTarget \in [CollectionCalls -> 0..colBuilt]
    BY DEF C!Init, C!Outs
  <2>5. colReopening \in [pc : {"none", "building", "built"},
                          svc : 0..colBuilt, owner : CollectionCalls \cup {C!Nobody}]
    BY DEF C!Init
  <2>6. colEntities = 0 /\ colBuilt = 0 /\ colPass = 0 /\ colFlight = "none" /\ colSweep = "none" /\ colHeld = {}
    BY DEF C!Init
  <2>7. colFence \in BOOLEAN
    BY DEF C!Init
  <2> QED BY <2>2, <2>3, <2>4, <2>5, <2>6, <2>7 DEF C!TypeOK
<1>2. CallsInv
  BY DEF C!Init, CallsInv, MateOf
<1>3. ServicesInv
  BY DEF C!Init, ServicesInv, ServiceOf, C!Materialized
<1>4. ReopenInv /\ MapInv /\ SweepInv
  BY DEF C!Init, ReopenInv, MapInv, SweepInv, C!Materialized
<1> QED BY <1>1, <1>2, <1>3, <1>4 DEF CollectionInv

\* A service is built next to the others.
LEMMA BuildMoves ==
  ASSUME C!CollectionAssumption, C!TypeOK, C!Build
  PROVE  /\ colBuilt' = colBuilt + 1 /\ colBuilt' \in 0..MaxServices
         /\ C!Materialized' = C!Materialized \cup {colBuilt + 1} /\ colBuilt + 1 \notin C!Materialized
         /\ colPhase' \in [C!Materialized' -> C!Phases]
         /\ colRt' \in [C!Materialized' -> {"none", "starting", "stuck", "up"}]
         /\ colHostStop' \in [C!Materialized' -> {"no", "stop", "drain"}]
         /\ colClosing' \in [C!Materialized' -> {"no", "stop", "drain"}]
         /\ \A i \in C!Materialized : /\ colPhase'[i] = colPhase[i] /\ colRt'[i] = colRt[i]
                                      /\ colHostStop'[i] = colHostStop[i] /\ colClosing'[i] = colClosing[i]
         /\ colPhase'[colBuilt + 1] = "active" /\ colRt'[colBuilt + 1] = "none"
         /\ colHostStop'[colBuilt + 1] = "no" /\ colClosing'[colBuilt + 1] = "no"
<1>1. colBuilt' = colBuilt + 1 /\ colBuilt' \in 0..MaxServices /\ colBuilt \in Nat
  BY DEF C!Build, C!TypeOK, C!CollectionAssumption
<1>2. C!Materialized' = C!Materialized \cup {colBuilt + 1} /\ colBuilt + 1 \notin C!Materialized
  BY <1>1 DEF C!Materialized
<1>3. C!Materialized' = 1..colBuilt + 1
  BY <1>1 DEF C!Materialized
<1>4. /\ colPhase' \in [C!Materialized' -> C!Phases]
      /\ \A i \in C!Materialized : colPhase'[i] = colPhase[i]
      /\ colPhase'[colBuilt + 1] = "active"
  BY <1>1, <1>2, <1>3 DEF C!Build, C!Grow, C!TypeOK, C!Phases
<1>5. /\ colRt' \in [C!Materialized' -> {"none", "starting", "stuck", "up"}]
      /\ \A i \in C!Materialized : colRt'[i] = colRt[i]
      /\ colRt'[colBuilt + 1] = "none"
  BY <1>1, <1>2, <1>3 DEF C!Build, C!Grow, C!TypeOK
<1>6. /\ colHostStop' \in [C!Materialized' -> {"no", "stop", "drain"}]
      /\ \A i \in C!Materialized : colHostStop'[i] = colHostStop[i]
      /\ colHostStop'[colBuilt + 1] = "no"
  BY <1>1, <1>2, <1>3 DEF C!Build, C!Grow, C!TypeOK
<1>7. /\ colClosing' \in [C!Materialized' -> {"no", "stop", "drain"}]
      /\ \A i \in C!Materialized : colClosing'[i] = colClosing[i]
      /\ colClosing'[colBuilt + 1] = "no"
  BY <1>1, <1>2, <1>3 DEF C!Build, C!Grow, C!TypeOK
<1> QED BY <1>1, <1>2, <1>4, <1>5, <1>6, <1>7

\* Sends that end without success leave the map of names alone.
LEMMA EndsBadly ==
  ASSUME C!TypeOK, NEW S \in SUBSET CollectionCalls, C!Ends(S, FALSE)
  PROVE  /\ \A c \in CollectionCalls : colPc'[c] = IF c \notin S THEN colPc[c]
                                                   ELSE IF KindOf[c] = "spawn" THEN "undoing" ELSE "threw"
         /\ colPc' \in [CollectionCalls -> C!Outs]
         /\ colReopening.owner \in S => colReopening' = C!NoReopen
         /\ colReopening.owner \notin S => colReopening' = colReopening
         /\ colEntities' = colEntities
  BY DEF C!Ends, C!TypeOK, C!Outs, C!Leaves

\* Sends of service i that return put it in the map.
LEMMA EndsWell ==
  ASSUME C!TypeOK, NEW i \in C!Materialized, ~C!Retired(i),
         NEW S \in SUBSET CollectionCalls, \A c \in S : colTarget[c] = i, C!Ends(S, TRUE)
  PROVE  /\ \A c \in CollectionCalls : colPc'[c] = IF c \notin S THEN colPc[c] ELSE "returned"
         /\ colPc' \in [CollectionCalls -> C!Outs]
         /\ colReopening.owner \in S => colReopening' = C!NoReopen
         /\ colReopening.owner \notin S => colReopening' = colReopening
         /\ (\E c \in S : KindOf[c] = "send") => colEntities' = i
         /\ (\A c \in S : KindOf[c] # "send") => colEntities' = colEntities
<1>1. /\ \A c \in CollectionCalls : colPc'[c] = IF c \notin S THEN colPc[c] ELSE "returned"
      /\ colPc' \in [CollectionCalls -> C!Outs]
      /\ colReopening.owner \in S => colReopening' = C!NoReopen
      /\ colReopening.owner \notin S => colReopening' = colReopening
  BY DEF C!Ends, C!TypeOK, C!Outs, C!Leaves
<1>2. (\A c \in S : KindOf[c] # "send") => colEntities' = colEntities
  BY DEF C!Ends
<1>3. ASSUME NEW s \in S, KindOf[s] = "send"
      PROVE  colEntities' = i
  <2>1. colTarget[CHOOSE c \in S : KindOf[c] = "send"] = i
    BY <1>3
  <2> QED BY <2>1, <1>3 DEF C!Ends, C!Publish
<1> QED BY <1>1, <1>2, <1>3

\* One service of the name, at most, has a runtime.
LEMMA OneAlone ==
  ASSUME C!TypeOK, ServicesInv, ReopenInv, NEW i \in C!Materialized, colRt[i] # "none"
  PROVE  /\ \A j \in C!Materialized : colRt[j] # "none" => j = i
         /\ colReopening.pc = "none" => i = colEntities
         /\ colReopening.pc = "built" => i = colReopening.svc
         /\ colReopening.pc # "building"
  BY DEF C!TypeOK, ServicesInv, ServiceOf, ReopenInv, C!Materialized

LEMMA RefusedKeeps ==
  ASSUME C!CollectionAssumption, CollectionInv, NEW c \in CollectionCalls, C!Refused(c)
  PROVE  CollectionInv'
<1> USE C!CollectionAssumption DEF CollectionInv
<1>1. C!TypeOK'
  BY DEF C!Refused, C!TypeOK, C!Outs, C!Phases, C!Materialized
<1>2. CallsInv'
  BY DEF C!Refused, CallsInv, MateOf, C!TypeOK, C!Materialized
<1>3. ServicesInv'
  BY DEF C!Refused, ServicesInv, ServiceOf, C!TypeOK, C!Materialized
<1>4. ReopenInv'
  BY DEF C!Refused, ReopenInv, CallsInv, MateOf, ServicesInv, ServiceOf, C!TypeOK, C!Materialized
<1>5. MapInv'
  BY DEF C!Refused, MapInv, ReopenInv, CallsInv, MateOf, C!TypeOK, C!Materialized
<1>6. SweepInv'
  BY DEF C!Refused, SweepInv, C!Over, C!TypeOK, C!Materialized
<1> QED BY <1>1, <1>2, <1>3, <1>4, <1>5, <1>6

LEMMA SpawnAllocatesKeeps ==
  ASSUME C!CollectionAssumption, CollectionInv, NEW c \in CollectionCalls, C!SpawnAllocates(c)
  PROVE  CollectionInv'
<1> USE C!CollectionAssumption DEF CollectionInv
<1>1. C!TypeOK'
  BY DEF C!SpawnAllocates, SweepInv, C!TypeOK, C!Outs, C!Phases, C!Materialized
<1>2. CallsInv'
  BY DEF C!SpawnAllocates, SweepInv, CallsInv, MateOf, C!TypeOK, C!Materialized
<1>3. ServicesInv'
  BY DEF C!SpawnAllocates, SweepInv, ServicesInv, ServiceOf, C!TypeOK, C!Materialized
<1>4. ReopenInv'
  BY DEF C!SpawnAllocates, SweepInv, ReopenInv, CallsInv, MateOf, ServicesInv, ServiceOf, C!TypeOK,
     C!Materialized
<1>5. MapInv'
  BY DEF C!SpawnAllocates, SweepInv, MapInv, ReopenInv, CallsInv, MateOf, C!TypeOK, C!Materialized
<1>6. SweepInv'
  BY DEF C!SpawnAllocates, SweepInv, C!Over, C!TypeOK, C!Materialized
<1> QED BY <1>1, <1>2, <1>3, <1>4, <1>5, <1>6

LEMMA SpawnRegistersKeeps ==
  ASSUME C!CollectionAssumption, CollectionInv, NEW c \in CollectionCalls, C!SpawnRegisters(c)
  PROVE  CollectionInv'
<1> USE C!CollectionAssumption DEF CollectionInv
<1>a. /\ colRecord = "absent" /\ colReopening = C!NoReopen /\ colFlight = "none" /\ KindOf[c] = "spawn"
      /\ \A d \in CollectionCalls : KindOf[d] = "spawn" => d = c
  BY DEF C!SpawnRegisters, CallsInv, MateOf, MapInv, ReopenInv, C!CollectionAssumption
<1>b. /\ \A d \in CollectionCalls : colPc'[d] = IF d = c THEN "waiting" ELSE colPc[d]
      /\ colFlight' = "creating" /\ UNCHANGED <<colRecord, C!svcs, colEntities, colReopening, colTarget, C!host>>
  BY DEF C!SpawnRegisters, C!TypeOK
<1>1. C!TypeOK'
  BY <1>b DEF C!SpawnRegisters, C!TypeOK, C!Outs, C!Phases, C!Materialized
<1>2. CallsInv'
  BY <1>a, <1>b DEF CallsInv, MateOf
<1>3. ServicesInv'
  BY <1>a, <1>b DEF C!SpawnRegisters, ServicesInv, ServiceOf, C!Materialized
<1>4. ReopenInv'
  BY <1>a, <1>b DEF ReopenInv
<1>5. MapInv'
  BY <1>a, <1>b DEF MapInv
<1>6. SweepInv'
  BY <1>a, <1>b DEF C!SpawnRegisters, SweepInv, C!Over, C!Materialized
<1> QED BY <1>1, <1>2, <1>3, <1>4, <1>5, <1>6

LEMMA ResolveKeeps ==
  ASSUME C!CollectionAssumption, CollectionInv, NEW c \in CollectionCalls, C!Resolve(c)
  PROVE  CollectionInv'
<1> USE C!CollectionAssumption DEF CollectionInv
<1> DEFINE Known == C!AtHand # 0 /\ (C!Live = 0 => colFlight = "none")
<1>a. /\ colEntities \in 0..colBuilt /\ colReopening.svc \in 0..colBuilt /\ C!Live \in {0, colEntities}
      /\ colEntities # 0 => C!Live = colEntities
      /\ C!AtHand \in {colEntities, colReopening.svc} /\ C!AtHand \in 0..colBuilt
  BY DEF C!AtHand, C!Live, C!Retired, C!TypeOK, MapInv
<1>b. CASE Known
  <2>1. /\ \A d \in CollectionCalls : /\ colPc'[d] = IF d = c THEN "resolved" ELSE colPc[d]
                                      /\ colTarget'[d] = IF d = c THEN C!AtHand ELSE colTarget[d]
        /\ UNCHANGED <<colRecord, C!svcs, C!maps, C!host>> /\ C!AtHand # 0 /\ colPc[c] = "idle" /\ ~colFence
        /\ KindOf[c] # "spawn"
    BY <1>b DEF C!Resolve, C!TypeOK
  <2>2. colPc' \in [CollectionCalls -> C!Outs] /\ colTarget' \in [CollectionCalls -> 0..colBuilt]
    BY <1>a, <1>b DEF C!Resolve, C!TypeOK, C!Outs
  <2>3. C!TypeOK'
    BY <2>1, <2>2 DEF C!TypeOK, C!Materialized, C!Phases
  <2>4. CallsInv'
    BY <1>a, <2>1 DEF CallsInv, MateOf
  <2>5. ServicesInv'
    BY <2>1 DEF ServicesInv, ServiceOf, C!Materialized
  <2>6. ReopenInv'
    BY <2>1 DEF ReopenInv
  <2>7. MapInv'
    BY <2>1 DEF MapInv
  <2>8. SweepInv'
    BY <2>1 DEF SweepInv, C!Materialized
  <2> QED BY <2>3, <2>4, <2>5, <2>6, <2>7, <2>8
<1>c. CASE ~Known
  <2>1. /\ \A d \in CollectionCalls : colPc'[d] = IF d = c THEN "waiting" ELSE colPc[d]
        /\ UNCHANGED <<colRecord, C!svcs, colEntities, colReopening, colTarget, C!host>>
        /\ colPc[c] = "idle" /\ ~colFence /\ KindOf[c] # "spawn"
        /\ \A d \in CollectionCalls : colPc[d] # "resolved"
    BY <1>c DEF C!Resolve, C!Quiet, C!TypeOK
  <2>a. colFlight # "none" => colFlight' = colFlight
    BY <1>c DEF C!Resolve
  <2>b. colFlight = "none" => C!AtHand = 0
    BY <1>c
  <2>c. colFlight = "none" => \/ colReopening.pc # "none" /\ colFlight' = "joining"
                              \/ colReopening.pc = "none" /\ colFlight' = "reading"
    BY <1>c DEF C!Resolve
  <2>2. colPc' \in [CollectionCalls -> C!Outs]
    BY <1>c DEF C!Resolve, C!TypeOK, C!Outs
  <2>3. C!AtHand = 0 => colReopening.pc # "built"
    BY <1>a DEF C!AtHand, ReopenInv, C!TypeOK
  <2>4. C!TypeOK'
    BY <2>1, <2>2, <2>a, <2>c DEF C!TypeOK, C!Materialized, C!Phases
  <2>5. CallsInv'
    BY <2>1, <2>a, <2>c DEF CallsInv, MateOf
  <2>6. ServicesInv'
    BY <2>1 DEF ServicesInv, ServiceOf, C!Materialized
  <2>7. ReopenInv'
    BY <2>1, <2>a, <2>c DEF ReopenInv
  <2>8. MapInv'
    <3>1. colFlight' = "joining" => colReopening.pc = "building"
      BY <2>1, <2>3, <2>a, <2>b, <2>c DEF MapInv, C!TypeOK
    <3>2. colFlight' # "none" => \E d \in CollectionCalls : colPc'[d] = "waiting"
      BY <2>1
    <3> QED BY <2>1, <2>a, <2>c, <3>1, <3>2 DEF MapInv
  <2>9. SweepInv'
    BY <2>1 DEF SweepInv, C!Materialized
  <2> QED BY <2>2, <2>4, <2>5, <2>6, <2>7, <2>8, <2>9
<1> QED BY <1>b, <1>c

LEMMA SendReopensKeeps ==
  ASSUME C!CollectionAssumption, CollectionInv, NEW c \in CollectionCalls, C!SendReopens(c)
  PROVE  CollectionInv'
<1> USE C!CollectionAssumption DEF CollectionInv
<1>a. /\ colPc[c] = "resolved" /\ KindOf[c] = "send" /\ colTarget[c] = 0
      /\ colFlight = "none" /\ colEntities = 0 /\ colRecord # "absent"
      /\ UNCHANGED <<colRecord, C!svcs, colEntities, colFlight, C!host>>
  BY DEF C!SendReopens, C!Continues, CallsInv, MateOf
<1>b. CASE colReopening.pc = "none"
  <2>1. /\ colReopening = C!NoReopen /\ colReopening.svc = 0
        /\ colReopening' = [pc |-> "building", svc |-> 0, owner |-> c]
        /\ \A d \in CollectionCalls : colPc'[d] = IF d = c THEN "building" ELSE colPc[d]
        /\ colTarget' = colTarget /\ colPc' \in [CollectionCalls -> C!Outs]
    BY <1>b DEF C!SendReopens, ReopenInv, C!TypeOK, C!Outs
  <2>2. /\ colReopening'.pc = "building" /\ colReopening'.svc = 0 /\ colReopening'.owner = c
        /\ colReopening' \in [pc : {"none", "building", "built"},
                              svc : 0..colBuilt, owner : CollectionCalls \cup {C!Nobody}]
    BY <2>1 DEF C!TypeOK
  <2>3. C!TypeOK'
    BY <1>a, <2>1, <2>2 DEF C!TypeOK, C!Materialized, C!Phases
  <2>4. CallsInv'
    BY <1>a, <2>1, <2>2 DEF CallsInv, MateOf
  <2>5. ServicesInv'
    BY <1>a, <2>1, <2>2 DEF ServicesInv, ServiceOf, C!Materialized
  <2>6. ReopenInv'
    BY <1>a, <2>1, <2>2 DEF ReopenInv
  <2>7. MapInv'
    BY <1>a, <2>1, <2>2 DEF MapInv
  <2>8. SweepInv'
    BY <1>a, <2>1 DEF SweepInv, C!Materialized, C!Over
  <2> QED BY <2>3, <2>4, <2>5, <2>6, <2>7, <2>8
<1>c. CASE colReopening.pc # "none"
  <2>1. /\ colReopening' = colReopening
        /\ \A d \in CollectionCalls : /\ d # c => colPc'[d] = colPc[d]
                                      /\ colTarget'[d] = IF d = c THEN colReopening.svc ELSE colTarget[d]
        /\ colPc'[c] = IF colReopening.pc = "built" THEN "resolved" ELSE "building"
        /\ colPc' \in [CollectionCalls -> C!Outs] /\ colTarget' \in [CollectionCalls -> 0..colBuilt]
        /\ colReopening.pc \in {"building", "built"}
    BY <1>c DEF C!SendReopens, C!TypeOK, C!Outs
  <2>2. colReopening.pc = "built" => colReopening.svc # 0 /\ colReopening.owner # c
    BY <1>a DEF ReopenInv
  <2>3. colReopening.pc = "building" => colReopening.svc = 0 /\ colReopening.owner # c
    BY <1>a DEF ReopenInv
  <2>4. C!TypeOK'
    BY <1>a, <2>1 DEF C!TypeOK, C!Materialized, C!Phases
  <2>5. CallsInv'
    BY <1>a, <2>1, <2>2, <2>3 DEF CallsInv, MateOf
  <2>6. ServicesInv'
    BY <1>a, <2>1 DEF ServicesInv, ServiceOf, C!Materialized
  <2>7. ReopenInv'
    BY <1>a, <2>1, <2>2, <2>3 DEF ReopenInv
  <2>8. MapInv'
    BY <1>a, <2>1 DEF MapInv
  <2>9. SweepInv'
    BY <1>a, <2>1 DEF SweepInv, C!Materialized, C!Over
  <2> QED BY <2>4, <2>5, <2>6, <2>7, <2>8, <2>9
<1> QED BY <1>b, <1>c

LEMMA CollectionCloseBeginsKeeps ==
  ASSUME C!CollectionAssumption, CollectionInv, NEW c \in CollectionCalls, C!CloseBegins(c)
  PROVE  CollectionInv'
<1> USE C!CollectionAssumption DEF CollectionInv
<1> DEFINE i == colTarget[c]
            over == i = 0 \/ C!Retired(i)
<1>a. /\ i \in 0..colBuilt
      /\ i # 0 => i \in C!Materialized
      /\ colPc[c] \in {"resolved", "undoing"}
      /\ colPc[c] = "resolved" => KindOf[c] = "close"
      /\ colPc[c] = "undoing" => i # 0 /\ KindOf[c] = "spawn"
      /\ UNCHANGED <<colRecord, colBuilt, colRt, colHostStop, C!maps, colTarget, C!host>>
  BY DEF C!CloseBegins, C!Continues, CallsInv, MateOf, C!TypeOK, C!Materialized
<1>b. /\ \A d \in CollectionCalls : d # c => colPc'[d] = colPc[d]
      /\ colPc'[c] = IF ~over THEN "closing" ELSE IF KindOf[c] = "spawn" THEN "threw" ELSE "returned"
      /\ colPc' \in [CollectionCalls -> C!Outs]
  BY DEF C!CloseBegins, C!TypeOK, C!Outs
<1>c. colReopening.pc # "none" => colReopening.owner # c
  BY <1>a DEF ReopenInv, C!TypeOK
<1>d. colSweep # "none" => colPass # 2
  BY <1>a DEF SweepInv, C!Over
<1>e. CASE over \/ colClosing[i] # "no"
  <2>1. UNCHANGED <<colPhase, colClosing>>
    BY <1>e DEF C!CloseBegins
  <2>2. C!TypeOK'
    BY <1>a, <1>b, <2>1 DEF C!TypeOK, C!Materialized, C!Phases
  <2>3. CallsInv'
    BY <1>a, <1>b, <2>1 DEF CallsInv, MateOf
  <2>4. ServicesInv'
    BY <1>a, <1>b, <2>1 DEF ServicesInv, ServiceOf, C!Materialized
  <2>5. ReopenInv'
    BY <1>a, <1>b, <1>c, <2>1 DEF ReopenInv
  <2>6. MapInv'
    BY <1>a, <1>b, <2>1 DEF MapInv
  <2>7. SweepInv'
    BY <1>a, <1>b, <1>d, <2>1 DEF SweepInv, C!Materialized
  <2> QED BY <2>2, <2>3, <2>4, <2>5, <2>6, <2>7
<1>f. CASE ~over /\ colClosing[i] = "no"
  <2>1. /\ i \in C!Materialized /\ colPhase[i] # "closed"
    BY <1>a, <1>f DEF C!Retired
  <2>2. /\ \A j \in C!Materialized : /\ colPhase'[j] = IF j = i THEN "closing" ELSE colPhase[j]
                                     /\ colClosing'[j] = IF j = i THEN "stop" ELSE colClosing[j]
        /\ colPhase' \in [C!Materialized -> C!Phases]
        /\ colClosing' \in [C!Materialized -> {"no", "stop", "drain"}]
    BY <1>f, <2>1 DEF C!CloseBegins, C!TypeOK, C!Phases
  <2>3. C!TypeOK'
    BY <1>a, <1>b, <2>2 DEF C!TypeOK, C!Materialized
  <2>4. CallsInv'
    BY <1>a, <1>b, <1>f, <2>1, <2>2 DEF CallsInv, MateOf, C!TypeOK, C!Materialized
  <2>5. ServicesInv'
    BY <1>a, <1>b, <1>f, <2>1, <2>2 DEF ServicesInv, ServiceOf, C!Materialized
  <2>6. ReopenInv'
    BY <1>a, <1>b, <1>c, <2>1, <2>2 DEF ReopenInv, C!TypeOK, C!Materialized
  <2>7. MapInv'
    BY <1>a, <1>b, <2>1, <2>2 DEF MapInv, C!TypeOK, C!Materialized
  <2>8. SweepInv'
    BY <1>a, <1>b, <1>d DEF SweepInv, C!Materialized
  <2> QED BY <2>3, <2>4, <2>5, <2>6, <2>7, <2>8
<1> QED BY <1>e, <1>f

LEMMA HostStoppedKeeps ==
  ASSUME C!CollectionAssumption, CollectionInv, NEW i \in C!Materialized, C!HostStopped(i)
  PROVE  CollectionInv'
<1> USE C!CollectionAssumption DEF CollectionInv
<1>1. C!TypeOK'
  BY DEF C!HostStopped, C!Quiet, C!Inside, C!TypeOK, C!Outs, C!Phases, C!Materialized
<1>2. CallsInv'
  BY DEF C!HostStopped, C!Quiet, C!Inside, CallsInv, MateOf, C!TypeOK, C!Materialized
<1>3. ServicesInv'
  BY DEF C!HostStopped, C!Quiet, C!Inside, ServicesInv, ServiceOf, C!TypeOK, C!Materialized
<1>4. ReopenInv'
  BY DEF C!HostStopped, C!Quiet, C!Inside, ReopenInv, CallsInv, MateOf, ServicesInv, ServiceOf,
     C!TypeOK, C!Materialized
<1>5. MapInv'
  BY DEF C!HostStopped, C!Quiet, C!Inside, MapInv, ReopenInv, CallsInv, MateOf, C!TypeOK,
     C!Materialized
<1>6. SweepInv'
  BY DEF C!HostStopped, C!Quiet, C!Inside, SweepInv, C!Over, C!TypeOK, C!Materialized
<1> QED BY <1>1, <1>2, <1>3, <1>4, <1>5, <1>6

LEMMA ClosedKeeps ==
  ASSUME C!CollectionAssumption, CollectionInv, NEW i \in C!Materialized, C!Closed(i)
  PROVE  CollectionInv'
<1> USE C!CollectionAssumption DEF CollectionInv
<1>1. C!TypeOK'
  BY DEF C!Closed, C!Quiet, C!Inside, ReopenInv, MapInv, C!TypeOK, C!Outs, C!Phases, C!Materialized
<1>2. CallsInv'
  BY DEF C!Closed, C!Quiet, C!Inside, ReopenInv, MapInv, CallsInv, MateOf, C!TypeOK, C!Materialized
<1>3. ServicesInv'
  BY DEF C!Closed, C!Quiet, C!Inside, ReopenInv, MapInv, ServicesInv, ServiceOf, C!TypeOK,
     C!Materialized
<1>4. ReopenInv'
  BY DEF C!Closed, C!Quiet, C!Inside, ReopenInv, MapInv, CallsInv, MateOf, ServicesInv, ServiceOf,
     C!TypeOK, C!Materialized
<1>5. MapInv'
  BY DEF C!Closed, C!Quiet, C!Inside, ReopenInv, MapInv, CallsInv, MateOf, C!TypeOK, C!Materialized
<1>6. SweepInv'
  BY DEF C!Closed, C!Quiet, C!Inside, ReopenInv, MapInv, SweepInv, C!Over, C!TypeOK, C!Materialized
<1> QED BY <1>1, <1>2, <1>3, <1>4, <1>5, <1>6

LEMMA FenceKeeps ==
  ASSUME C!CollectionAssumption, CollectionInv, C!Fence
  PROVE  CollectionInv'
<1> USE C!CollectionAssumption DEF CollectionInv
<1>1. C!TypeOK'
  BY DEF C!Fence, C!TypeOK, C!Outs, C!Phases, C!Materialized
<1>2. CallsInv'
  BY DEF C!Fence, CallsInv, MateOf, C!TypeOK, C!Materialized
<1>3. ServicesInv'
  BY DEF C!Fence, ServicesInv, ServiceOf, C!TypeOK, C!Materialized
<1>4. ReopenInv'
  BY DEF C!Fence, ReopenInv, CallsInv, MateOf, ServicesInv, ServiceOf, C!TypeOK, C!Materialized
<1>5. MapInv'
  BY DEF C!Fence, MapInv, ReopenInv, CallsInv, MateOf, C!TypeOK, C!Materialized
<1>6. SweepInv'
  BY DEF C!Fence, SweepInv, C!Over, C!TypeOK, C!Materialized
<1> QED BY <1>1, <1>2, <1>3, <1>4, <1>5, <1>6

LEMMA SweepJoinsKeeps ==
  ASSUME C!CollectionAssumption, CollectionInv, C!SweepJoins
  PROVE  CollectionInv'
<1> USE C!CollectionAssumption DEF CollectionInv
<1>1. C!TypeOK'
  BY DEF C!SweepJoins, C!Live, C!Retired, ServicesInv, ServiceOf, ReopenInv, MapInv, C!TypeOK,
     C!Outs, C!Phases, C!Materialized
<1>2. CallsInv'
  BY DEF C!SweepJoins, C!Live, C!Retired, ServicesInv, ServiceOf, ReopenInv, MapInv, CallsInv,
     MateOf, C!TypeOK, C!Materialized
<1>3. ServicesInv'
  BY DEF C!SweepJoins, C!Live, C!Retired, ServicesInv, ServiceOf, ReopenInv, MapInv, C!TypeOK,
     C!Materialized
<1>4. ReopenInv'
  BY DEF C!SweepJoins, C!Live, C!Retired, ServicesInv, ServiceOf, ReopenInv, MapInv, CallsInv,
     MateOf, C!TypeOK, C!Materialized
<1>5. MapInv'
  BY DEF C!SweepJoins, C!Live, C!Retired, ServicesInv, ServiceOf, ReopenInv, MapInv, CallsInv,
     MateOf, C!TypeOK, C!Materialized
<1>6. SweepInv'
  <2>1. UNCHANGED <<C!svcs, C!maps, C!calls, colFence, colPass>> /\ colSweep' = "reopen" /\ colSweep = "join"
    BY DEF C!SweepJoins
  <2>2. ASSUME colPass = 2, NEW i \in C!Materialized, colRt[i] # "none"
        PROVE  i \in colHeld'
    <3>1. colReopening.pc = "none"
      BY <2>1, <2>2 DEF SweepInv, ReopenInv, C!Over, C!TypeOK
    <3>2. i = colEntities /\ i # 0
      BY <2>2, <3>1, OneAlone DEF C!Materialized
    <3>3. colPhase[i] # "closed"
      BY <3>2 DEF MapInv
    <3> QED BY <3>2, <3>3 DEF C!SweepJoins, C!Live, C!Retired
  <2> QED BY <2>1, <2>2 DEF SweepInv, C!Materialized, C!Over
<1> QED BY <1>1, <1>2, <1>3, <1>4, <1>5, <1>6

LEMMA SweepReopensKeeps ==
  ASSUME C!CollectionAssumption, CollectionInv, C!SweepReopens
  PROVE  CollectionInv'
<1> USE C!CollectionAssumption DEF CollectionInv
<1>1. C!TypeOK'
  <2>1. {colReopening.svc} \ {0} \subseteq C!Materialized
    BY DEF C!TypeOK, C!Materialized
  <2>2. colHeld' \subseteq C!Materialized /\ colSweep' = "stop"
    BY <2>1 DEF C!SweepReopens, C!HeldByReopen, C!TypeOK
  <2> QED BY <2>2 DEF C!SweepReopens, C!TypeOK, C!Materialized
<1>2. CallsInv'
  BY DEF C!SweepReopens, C!HeldByReopen, C!Retired, CallsInv, MateOf, C!TypeOK, C!Materialized
<1>3. ServicesInv'
  BY DEF C!SweepReopens, C!HeldByReopen, C!Retired, ServicesInv, ServiceOf, C!TypeOK, C!Materialized
<1>4. ReopenInv'
  BY DEF C!SweepReopens, C!HeldByReopen, C!Retired, ReopenInv, CallsInv, MateOf, ServicesInv,
     ServiceOf, C!TypeOK, C!Materialized
<1>5. MapInv'
  BY DEF C!SweepReopens, C!HeldByReopen, C!Retired, MapInv, ReopenInv, CallsInv, MateOf, C!TypeOK,
     C!Materialized
<1>6. SweepInv'
  BY DEF C!SweepReopens, C!HeldByReopen, C!Retired, SweepInv, C!Over, C!TypeOK, C!Materialized
<1> QED BY <1>1, <1>2, <1>3, <1>4, <1>5, <1>6

LEMMA SweepStopsKeeps ==
  ASSUME C!CollectionAssumption, CollectionInv, NEW i \in C!Materialized, C!SweepStops(i)
  PROVE  CollectionInv'
<1> USE C!CollectionAssumption DEF CollectionInv
<1>1. C!TypeOK'
  BY DEF C!SweepStops, ServicesInv, ServiceOf, ReopenInv, MapInv, C!Phases, C!TypeOK, C!Outs,
     C!Materialized
<1>2. CallsInv'
  BY DEF C!SweepStops, ServicesInv, ServiceOf, ReopenInv, MapInv, C!Phases, CallsInv, MateOf,
     C!TypeOK, C!Materialized
<1>3. ServicesInv'
  BY DEF C!SweepStops, ServicesInv, ServiceOf, ReopenInv, MapInv, C!Phases, C!TypeOK, C!Materialized
<1>4. ReopenInv'
  BY DEF C!SweepStops, ServicesInv, ServiceOf, ReopenInv, MapInv, C!Phases, CallsInv, MateOf,
     C!TypeOK, C!Materialized
<1>5. MapInv'
  BY DEF C!SweepStops, ServicesInv, ServiceOf, ReopenInv, MapInv, C!Phases, CallsInv, MateOf,
     C!TypeOK, C!Materialized
<1>6. SweepInv'
  <2>1. /\ UNCHANGED <<colPhase, colRt, colClosing, C!maps, C!calls, colFence, colSweep, colPass, colBuilt>>
        /\ colSweep = "stop" /\ colHeld' = colHeld \ {i}
        /\ \A j \in C!Materialized : j # i => colHostStop'[j] = colHostStop[j]
        /\ colPhase[i] = "active" => colHostStop'[i] = "stop"
        /\ \A j \in C!Materialized : colHostStop[j] = "no"
    BY DEF C!SweepStops, C!TypeOK
  <2>2. colPass = 2 /\ colRt[i] # "none" => colPhase[i] = "active"
    <3>1. colPass = 2 => colClosing[i] = "no" /\ colReopening.pc = "none"
      BY <2>1 DEF SweepInv, ServicesInv, ServiceOf, C!Over, ReopenInv, C!TypeOK
    <3>2. colClosing[i] = "no" => colPhase[i] # "closing"
      BY DEF ServicesInv, ServiceOf
    <3>3. colRt[i] # "none" /\ colReopening.pc = "none" => colPhase[i] # "closed"
      BY OneAlone DEF MapInv, C!Materialized, C!TypeOK
    <3> QED BY <3>1, <3>2, <3>3 DEF C!TypeOK, C!Phases
  <2> QED BY <2>1, <2>2 DEF SweepInv, C!Materialized, C!Over
<1> QED BY <1>1, <1>2, <1>3, <1>4, <1>5, <1>6

LEMMA SweepEndsKeeps ==
  ASSUME C!CollectionAssumption, CollectionInv, C!SweepEnds
  PROVE  CollectionInv'
<1> USE C!CollectionAssumption DEF CollectionInv
<1>1. C!TypeOK'
  BY DEF C!SweepEnds, C!LastPass, C!TypeOK, C!Outs, C!Phases, C!Materialized
<1>2. CallsInv'
  BY DEF C!SweepEnds, C!LastPass, CallsInv, MateOf, C!TypeOK, C!Materialized
<1>3. ServicesInv'
  BY DEF C!SweepEnds, C!LastPass, ServicesInv, ServiceOf, C!TypeOK, C!Materialized
<1>4. ReopenInv'
  BY DEF C!SweepEnds, C!LastPass, ReopenInv, CallsInv, MateOf, ServicesInv, ServiceOf, C!TypeOK,
     C!Materialized
<1>5. MapInv'
  BY DEF C!SweepEnds, C!LastPass, MapInv, ReopenInv, CallsInv, MateOf, C!TypeOK, C!Materialized
<1>6. SweepInv'
  BY DEF C!SweepEnds, C!LastPass, SweepInv, C!Over, C!TypeOK, C!Materialized
<1> QED BY <1>1, <1>2, <1>3, <1>4, <1>5, <1>6

LEMMA DrainedKeeps ==
  ASSUME C!CollectionAssumption, CollectionInv, C!Drained
  PROVE  CollectionInv'
<1> USE C!CollectionAssumption DEF CollectionInv
<1>1. C!TypeOK'
  <2>1. colPass' \in 0..2 /\ colSweep' = "join"
    BY DEF C!Drained, SweepInv
  <2> QED BY <2>1 DEF C!Drained, C!TypeOK, C!Materialized
<1>2. CallsInv'
  BY DEF C!Drained, CallsInv, MateOf, C!TypeOK, C!Materialized
<1>3. ServicesInv'
  BY DEF C!Drained, ServicesInv, ServiceOf, C!TypeOK, C!Materialized
<1>4. ReopenInv'
  BY DEF C!Drained, ReopenInv, CallsInv, MateOf, ServicesInv, ServiceOf, C!TypeOK, C!Materialized
<1>5. MapInv'
  BY DEF C!Drained, MapInv, ReopenInv, CallsInv, MateOf, C!TypeOK, C!Materialized
<1>6. SweepInv'
  BY DEF C!Drained, SweepInv, C!Over, C!TypeOK, C!Materialized
<1> QED BY <1>1, <1>2, <1>3, <1>4, <1>5, <1>6

LEMMA FlightReadsKeeps ==
  ASSUME C!CollectionAssumption, CollectionInv, C!FlightReads
  PROVE  CollectionInv'
<1> USE C!CollectionAssumption DEF CollectionInv
<1>1. C!TypeOK'
  <2>1. /\ UNCHANGED <<colRecord, C!svcs, colEntities, colReopening, C!host>>
        /\ colFlight' \in {"none", "opening"}
    BY DEF C!FlightReads, C!FlightFails, C!Settles
  <2>2. C!Live \in 0..colBuilt
    BY DEF C!Live, C!TypeOK
  <2>3. colPc' \in [CollectionCalls -> C!Outs] /\ colTarget' \in [CollectionCalls -> 0..colBuilt]
    <3>1. CASE C!FlightFails
      BY <3>1 DEF C!FlightFails, C!TypeOK, C!Outs
    <3>2. ASSUME NEW found \in 0..colBuilt, C!Settles(found)
          PROVE  colPc' \in [CollectionCalls -> C!Outs] /\ colTarget' \in [CollectionCalls -> 0..colBuilt]
      BY <3>2 DEF C!Settles, C!TypeOK, C!Outs
    <3>3. CASE UNCHANGED C!calls
      BY <3>3 DEF C!TypeOK
    <3>4. 0 \in 0..colBuilt
      BY DEF C!TypeOK
    <3> QED BY <3>1, <3>2, <3>3, <3>4, <2>2 DEF C!FlightReads
  <2> QED BY <2>1, <2>3 DEF C!TypeOK, C!Materialized
<1>2. CallsInv'
  BY DEF C!FlightReads, C!Quiet, C!FlightFails, C!Settles, C!Waiting, C!Live, C!Retired, ReopenInv,
     MapInv, CallsInv, MateOf, C!TypeOK, C!Materialized
<1>3. ServicesInv'
  BY DEF C!FlightReads, C!Quiet, C!FlightFails, C!Settles, C!Waiting, C!Live, C!Retired, ReopenInv,
     MapInv, ServicesInv, ServiceOf, C!TypeOK, C!Materialized
<1>4. ReopenInv'
  BY DEF C!FlightReads, C!Quiet, C!FlightFails, C!Settles, C!Waiting, C!Live, C!Retired, ReopenInv,
     MapInv, CallsInv, MateOf, ServicesInv, ServiceOf, C!TypeOK, C!Materialized
<1>5. MapInv'
  BY DEF C!FlightReads, C!Quiet, C!FlightFails, C!Settles, C!Waiting, C!Live, C!Retired, ReopenInv,
     MapInv, CallsInv, MateOf, C!TypeOK, C!Materialized
<1>6. SweepInv'
  BY DEF C!FlightReads, C!Quiet, C!FlightFails, C!Settles, C!Waiting, C!Live, C!Retired, ReopenInv,
     MapInv, SweepInv, C!Over, C!TypeOK, C!Materialized
<1> QED BY <1>1, <1>2, <1>3, <1>4, <1>5, <1>6

LEMMA StartedKeeps ==
  ASSUME C!CollectionAssumption, CollectionInv, NEW i \in C!Materialized, C!Started(i)
  PROVE  CollectionInv'
<1> USE C!CollectionAssumption DEF CollectionInv
<1>1. C!TypeOK'
  BY DEF C!Started, C!Quiet, C!Starters, ReopenInv, MapInv, C!TypeOK, C!Outs, C!Phases,
     C!Materialized
<1>2. CallsInv'
  BY DEF C!Started, C!Quiet, C!Starters, ReopenInv, MapInv, CallsInv, MateOf, C!TypeOK,
     C!Materialized
<1>3. ServicesInv'
  BY DEF C!Started, C!Quiet, C!Starters, ReopenInv, MapInv, ServicesInv, ServiceOf, C!TypeOK,
     C!Materialized
<1>4. ReopenInv'
  BY DEF C!Started, C!Quiet, C!Starters, ReopenInv, MapInv, CallsInv, MateOf, ServicesInv,
     ServiceOf, C!TypeOK, C!Materialized
<1>5. MapInv'
  BY DEF C!Started, C!Quiet, C!Starters, ReopenInv, MapInv, CallsInv, MateOf, C!TypeOK,
     C!Materialized
<1>6. SweepInv'
  BY DEF C!Started, C!Quiet, C!Starters, ReopenInv, MapInv, SweepInv, C!Over, C!TypeOK,
     C!Materialized
<1> QED BY <1>1, <1>2, <1>3, <1>4, <1>5, <1>6

LEMMA EnterKeeps ==
  ASSUME C!CollectionAssumption, CollectionInv, NEW c \in CollectionCalls, C!Enter(c)
  PROVE  CollectionInv'
<1> USE C!CollectionAssumption DEF CollectionInv
<1> DEFINE i == colTarget[c]
<1>a. /\ i \in C!Materialized /\ colPc[c] = "resolved" /\ KindOf[c] \in {"send", "spawn"}
      /\ \A d \in CollectionCalls : colReopening.owner = d /\ colPc[d] = "resolved" => d = c
      /\ UNCHANGED <<colRecord, colBuilt, colPhase, colHostStop, colClosing, colFlight, colTarget, C!host>>
  BY DEF C!Enter, C!Continues, C!TypeOK, C!Materialized
<1>b. colSweep # "none" => colPass # 2
  BY <1>a DEF SweepInv, C!Over
<1>c. CASE colPhase[i] # "active" \/ colHostStop[i] # "no"
  <2>1. C!Ends({c}, FALSE) /\ UNCHANGED colRt
    BY <1>c DEF C!Enter
  <2>2. /\ \A d \in CollectionCalls : d # c => colPc'[d] = colPc[d]
        /\ colPc'[c] = IF KindOf[c] = "spawn" THEN "undoing" ELSE "threw"
        /\ colPc' \in [CollectionCalls -> C!Outs] /\ colEntities' = colEntities
        /\ colReopening.owner = c => colReopening' = C!NoReopen
        /\ colReopening.owner # c => colReopening' = colReopening
    <3>1. {c} \in SUBSET CollectionCalls
      OBVIOUS
    <3> QED BY <2>1, <3>1, EndsBadly
  <2>3. colReopening.owner = c => /\ colReopening.pc = "none" => colReopening' = colReopening
                                  /\ colReopening.pc # "none" => colReopening.pc = "built" /\ colReopening.svc = i /\ colRt[i] = "none"
    BY <1>a, <2>2 DEF ReopenInv, C!TypeOK
  <2>4. C!TypeOK'
    <3>1. C!NoReopen \in [pc : {"none", "building", "built"},
                          svc : 0..colBuilt, owner : CollectionCalls \cup {C!Nobody}]
      BY DEF C!TypeOK
    <3> QED BY <1>a, <2>1, <2>2, <3>1 DEF C!TypeOK, C!Materialized
  <2>5. CallsInv'
    BY <1>a, <1>c, <2>1, <2>2, <2>3 DEF CallsInv, MateOf
  <2>6. ServicesInv'
    BY <1>a, <2>1, <2>2, <2>3 DEF ServicesInv, ServiceOf, C!Materialized
  <2>7. ReopenInv'
    BY <1>a, <2>1, <2>2, <2>3 DEF ReopenInv
  <2>8. MapInv'
    BY <1>a, <2>1, <2>2, <2>3 DEF MapInv, ReopenInv
  <2>9. SweepInv'
    BY <1>a, <1>b, <2>1 DEF SweepInv, C!Materialized
  <2> QED BY <2>4, <2>5, <2>6, <2>7, <2>8, <2>9
<1>d. CASE ~(colPhase[i] # "active" \/ colHostStop[i] # "no")
  <2>1. UNCHANGED <<colEntities, colReopening>>
    BY <1>d DEF C!Enter
  <2>2. /\ \A d \in CollectionCalls : d # c => colPc'[d] = colPc[d]
        /\ colPc'[c] = IF colRt[i] = "up" THEN "intent" ELSE "starting"
        /\ colPc' \in [CollectionCalls -> C!Outs]
    BY <1>d DEF C!Enter, C!TypeOK, C!Outs
  <2>3. /\ colRt' \in [C!Materialized -> {"none", "starting", "stuck", "up"}]
        /\ \A j \in C!Materialized : j # i => colRt'[j] = colRt[j]
        /\ colRt[i] # "none" => colRt'[i] = colRt[i]
        /\ colRt[i] = "none" => colRt'[i] \in {"starting", "stuck"}
    BY <1>a, <1>d DEF C!Enter, C!TypeOK
  <2>4. i \in {colEntities, colReopening.svc} /\ i # 0 /\ colClosing[i] = "no"
    BY <1>a, <1>d DEF CallsInv, MateOf, ServicesInv, ServiceOf, C!Materialized, C!TypeOK
  <2>5. C!TypeOK'
    BY <1>a, <2>1, <2>2, <2>3 DEF C!TypeOK, C!Materialized
  <2>6. CallsInv'
    BY <1>a, <1>d, <2>1, <2>2, <2>3, <2>4 DEF CallsInv, MateOf, C!TypeOK, C!Materialized
  <2>7. ServicesInv'
    BY <1>a, <2>1, <2>2, <2>3, <2>4 DEF ServicesInv, ServiceOf, C!Materialized
  <2>8. ReopenInv'
    BY <1>a, <2>1, <2>2, <2>3 DEF ReopenInv
  <2>9. MapInv'
    BY <1>a, <2>1, <2>2 DEF MapInv
  <2>10. SweepInv'
    BY <1>a, <1>b DEF SweepInv, C!Materialized
  <2> QED BY <2>5, <2>6, <2>7, <2>8, <2>9, <2>10
<1> QED BY <1>c, <1>d

LEMMA CollectionStartFailsKeeps ==
  ASSUME C!CollectionAssumption, CollectionInv, NEW i \in C!Materialized, C!StartFails(i)
  PROVE  CollectionInv'
<1> USE C!CollectionAssumption DEF CollectionInv
<1>a. /\ colRt[i] = "starting" /\ \A d \in CollectionCalls : colPc[d] # "resolved"
      /\ UNCHANGED <<colRecord, colBuilt, colPhase, colHostStop, colClosing, colFlight, colTarget, C!host>>
      /\ colRt' \in [C!Materialized -> {"none", "starting", "stuck", "up"}]
      /\ \A j \in C!Materialized : colRt'[j] = IF j = i THEN "none" ELSE colRt[j]
  BY DEF C!StartFails, C!Quiet, C!TypeOK
<1>b. /\ \A d \in CollectionCalls : colPc'[d] = IF colPc[d] = "starting" /\ colTarget[d] = i
                                                THEN IF KindOf[d] = "spawn" THEN "undoing" ELSE "threw" ELSE colPc[d]
      /\ colPc' \in [CollectionCalls -> C!Outs] /\ colEntities' = colEntities
      /\ colReopening.owner \in C!Starters(i) => colReopening' = C!NoReopen
      /\ colReopening.owner \notin C!Starters(i) => colReopening' = colReopening
  <2>1. C!Starters(i) \in SUBSET CollectionCalls /\ C!Ends(C!Starters(i), FALSE)
    BY DEF C!StartFails, C!Starters
  <2> QED BY <2>1, EndsBadly DEF C!Starters
<1> USE <1>a, <1>b
<1>c. /\ \A j \in C!Materialized : colRt[j] # "none" => j = i
      /\ colReopening.pc = "none" => i = colEntities
      /\ colReopening.pc = "built" => i = colReopening.svc
      /\ colReopening.pc # "building" /\ i # 0
  BY OneAlone DEF C!Materialized
<1>d. colReopening.pc = "none" => colReopening = C!NoReopen
  BY DEF ReopenInv
<1>1. C!TypeOK'
  <2>1. C!NoReopen \in [pc : {"none", "building", "built"},
                        svc : 0..colBuilt, owner : CollectionCalls \cup {C!Nobody}]
    BY DEF C!TypeOK
  <2> QED BY <2>1 DEF C!TypeOK, C!Materialized
<1>2. CallsInv'
  BY <1>c, <1>d DEF CallsInv, MateOf, C!TypeOK, C!Materialized
<1>3. ServicesInv'
  BY <1>c, <1>d DEF ServicesInv, ServiceOf, C!Materialized
<1>4. ReopenInv'
  <2>1. CASE colReopening.owner \in C!Starters(i)
    BY <2>1 DEF ReopenInv
  <2>2. CASE colReopening.owner \notin C!Starters(i)
    BY <2>2, <1>c, <1>d DEF ReopenInv, C!Starters, C!TypeOK, C!Materialized
  <2> QED BY <2>1, <2>2
<1>5. MapInv'
  BY <1>c, <1>d DEF MapInv, ReopenInv
<1>6. SweepInv'
  BY DEF SweepInv, C!Over, C!Materialized
<1> QED BY <1>1, <1>2, <1>3, <1>4, <1>5, <1>6

LEMMA IntentKeeps ==
  ASSUME C!CollectionAssumption, ~ReopenWritesFail, CollectionInv, NEW c \in CollectionCalls, C!Intent(c)
  PROVE  CollectionInv'
<1> USE C!CollectionAssumption DEF CollectionInv
<1> DEFINE i == colTarget[c]
<1>a. /\ colPc[c] = "intent" /\ \A d \in CollectionCalls : colPc[d] # "resolved"
      /\ UNCHANGED <<colRecord, C!svcs, colFlight, colTarget, C!host>>
      /\ i \in C!Materialized /\ KindOf[c] # "close" /\ colPhase[i] # "closed"
  BY DEF C!Intent, C!Quiet, CallsInv, MateOf, C!TypeOK, C!Materialized
<1>b. colSweep # "none" => colPass # 2
  BY <1>a DEF SweepInv, C!Over
<1>c. CASE colRt[i] = "up" /\ colPc' = [colPc EXCEPT ![c] = "submitting"] /\ UNCHANGED <<colEntities, colReopening>>
  <2>1. /\ \A d \in CollectionCalls : colPc'[d] = IF d = c THEN "submitting" ELSE colPc[d]
        /\ colPc' \in [CollectionCalls -> C!Outs]
    BY <1>c DEF C!TypeOK, C!Outs
  <2>2. C!TypeOK'
    BY <1>a, <1>c, <2>1 DEF C!TypeOK, C!Materialized
  <2>3. CallsInv'
    BY <1>a, <1>c, <2>1 DEF CallsInv, MateOf
  <2>4. ServicesInv'
    BY <1>a, <1>c, <2>1 DEF ServicesInv, ServiceOf, C!Materialized
  <2>5. ReopenInv'
    BY <1>a, <1>c, <2>1 DEF ReopenInv
  <2>6. MapInv'
    BY <1>a, <1>c, <2>1 DEF MapInv
  <2>7. SweepInv'
    BY <1>a, <1>b DEF SweepInv, C!Materialized
  <2> QED BY <2>2, <2>3, <2>4, <2>5, <2>6, <2>7
<1>d. CASE (colRt[i] # "up" \/ colReopening.owner # c) /\ C!Ends({c}, FALSE)
  <2>1. /\ \A d \in CollectionCalls : d # c => colPc'[d] = colPc[d]
        /\ colPc'[c] = IF KindOf[c] = "spawn" THEN "undoing" ELSE "threw"
        /\ colPc' \in [CollectionCalls -> C!Outs] /\ colEntities' = colEntities
        /\ colReopening.owner = c => colReopening' = C!NoReopen
        /\ colReopening.owner # c => colReopening' = colReopening
    <3>1. {c} \in SUBSET CollectionCalls
      OBVIOUS
    <3> QED BY <1>d, <3>1, EndsBadly
  <2>2. colReopening.owner = c => colRt[i] = "none"
    BY <1>a, <1>d DEF CallsInv, MateOf
  <2>3. colReopening.owner = c => /\ colReopening.pc = "none" => colReopening' = colReopening
                                  /\ colReopening.pc # "none" => colReopening.pc = "built" /\ colReopening.svc = i
    BY <1>a, <2>1 DEF ReopenInv, C!TypeOK
  <2>4. C!TypeOK'
    <3>1. C!NoReopen \in [pc : {"none", "building", "built"},
                          svc : 0..colBuilt, owner : CollectionCalls \cup {C!Nobody}]
      BY DEF C!TypeOK
    <3> QED BY <1>a, <2>1, <3>1 DEF C!TypeOK, C!Materialized
  <2>5. CallsInv'
    BY <1>a, <2>1, <2>3 DEF CallsInv, MateOf, C!Materialized
  <2>6. ServicesInv'
    BY <1>a, <2>1, <2>2, <2>3 DEF ServicesInv, ServiceOf, C!Materialized
  <2>7. ReopenInv'
    BY <1>a, <2>1, <2>3 DEF ReopenInv
  <2>8. MapInv'
    BY <1>a, <2>1, <2>3 DEF MapInv, ReopenInv
  <2>9. SweepInv'
    BY <1>a, <1>b DEF SweepInv, C!Materialized
  <2> QED BY <2>4, <2>5, <2>6, <2>7, <2>8, <2>9
<1> QED BY <1>c, <1>d DEF C!Intent

LEMMA SubmittedKeeps ==
  ASSUME C!CollectionAssumption, CollectionInv, NEW c \in CollectionCalls, C!Submitted(c)
  PROVE  CollectionInv'
<1> USE C!CollectionAssumption DEF CollectionInv
<1> DEFINE i == colTarget[c]
<1>0. C!Ends({c}, TRUE)
  BY DEF C!Submitted
<1>a. /\ colPc[c] = "submitting" /\ \A d \in CollectionCalls : colPc[d] # "resolved"
      /\ UNCHANGED <<colRecord, C!svcs, colFlight, colTarget, C!host>>
      /\ i \in C!Materialized /\ colRt[i] = "up" /\ KindOf[c] # "close" /\ colPhase[i] # "closed"
  BY DEF C!Submitted, C!Quiet, CallsInv, MateOf, C!TypeOK, C!Materialized
<1>b. colSweep # "none" => colPass # 2
  BY <1>a DEF SweepInv, C!Over
<1>c. /\ \A d \in CollectionCalls : colPc'[d] = IF d = c THEN "returned" ELSE colPc[d]
      /\ colPc' \in [CollectionCalls -> C!Outs]
      /\ colReopening.owner = c => colReopening' = C!NoReopen
      /\ colReopening.owner # c => colReopening' = colReopening
      /\ KindOf[c] = "send" => colEntities' = i
      /\ KindOf[c] # "send" => colEntities' = colEntities
  <2>1. {c} \in SUBSET CollectionCalls /\ (\A d \in {c} : colTarget[d] = i) /\ ~C!Retired(i)
    BY <1>a DEF C!Retired
  <2> QED BY <1>0, <1>a, <2>1, EndsWell
<1>d. /\ \A j \in C!Materialized : colRt[j] # "none" => j = i
      /\ colReopening.pc = "none" => i = colEntities
      /\ colReopening.pc = "built" => i = colReopening.svc
      /\ colReopening.pc # "building" /\ i # 0 /\ i \in 0..colBuilt
  BY <1>a, OneAlone DEF C!Materialized, C!TypeOK
<1>e. /\ colReopening.pc \in {"none", "built"}
      /\ colReopening.pc = "none" => colReopening = C!NoReopen
      /\ colReopening.pc = "built" /\ colReopening.owner = c => KindOf[c] = "send"
  BY <1>d DEF ReopenInv, C!TypeOK
<1>1. C!TypeOK'
  <2>1. C!NoReopen \in [pc : {"none", "building", "built"},
                        svc : 0..colBuilt, owner : CollectionCalls \cup {C!Nobody}]
    BY DEF C!TypeOK
  <2> QED BY <1>a, <1>c, <1>d, <2>1 DEF C!TypeOK, C!Materialized
<1>2. CallsInv'
  BY <1>a, <1>c, <1>e DEF CallsInv, MateOf, C!Materialized
<1>3. ServicesInv'
  BY <1>a, <1>c, <1>d, <1>e DEF ServicesInv, ServiceOf, C!Materialized
<1>4. ReopenInv'
  BY <1>a, <1>c, <1>d, <1>e DEF ReopenInv, C!Materialized
<1>5. MapInv'
  <2>1. colFlight # "opening" /\ colFlight # "joining"
    BY <1>d, <1>e DEF MapInv, ReopenInv
  <2> QED BY <1>a, <1>c, <1>d, <1>e, <2>1 DEF MapInv
<1>6. SweepInv'
  BY <1>a, <1>b DEF SweepInv, C!Materialized
<1> QED BY <1>1, <1>2, <1>3, <1>4, <1>5, <1>6

LEMMA RuntimeStopsKeeps ==
  ASSUME C!CollectionAssumption, CollectionInv, NEW i \in C!Materialized, C!RuntimeStops(i)
  PROVE  CollectionInv'
<1> USE C!CollectionAssumption DEF CollectionInv
<1>a. /\ \A d \in CollectionCalls : colPc[d] # "resolved" /\ (colPc[d] = "submitting" => colTarget[d] # i)
      /\ UNCHANGED <<colRecord, colBuilt, colPhase, colFlight, colTarget, C!host>>
      /\ colClosing[i] = "stop" \/ colHostStop[i] = "stop"
  BY DEF C!RuntimeStops, C!Quiet, C!Stopping
<1>b. /\ colRt' \in [C!Materialized -> {"none", "starting", "stuck", "up"}]
      /\ \A j \in C!Materialized : colRt'[j] = IF j = i THEN "none" ELSE colRt[j]
  BY DEF C!RuntimeStops, C!TypeOK
<1>c. /\ colClosing' \in [C!Materialized -> {"no", "stop", "drain"}]
      /\ \A j \in C!Materialized : colClosing'[j] = IF j = i /\ colClosing[j] = "stop" THEN "drain" ELSE colClosing[j]
  BY DEF C!RuntimeStops, C!TypeOK
<1>d. /\ colHostStop' \in [C!Materialized -> {"no", "stop", "drain"}]
      /\ \A j \in C!Materialized : colHostStop'[j] = IF j = i /\ colHostStop[j] = "stop" THEN "drain" ELSE colHostStop[j]
  BY DEF C!RuntimeStops, C!TypeOK
<1>e. PICK ok \in BOOLEAN : C!Ends(C!Starters(i), ok) /\ (ok => colClosing[i] # "no")
  BY DEF C!RuntimeStops
<1>f. C!Starters(i) \in SUBSET CollectionCalls /\ \A d \in C!Starters(i) : colTarget[d] = i /\ colPc[d] = "starting"
  BY DEF C!Starters
<1>g. colClosing[i] # "no" => colPhase[i] = "closing"
  BY DEF ServicesInv, ServiceOf
<1>h. /\ \A d \in CollectionCalls : d \notin C!Starters(i) => colPc'[d] = colPc[d]
      /\ \A d \in C!Starters(i) : colPc'[d] \in {"returned", "threw"} \/ (colPc'[d] = "undoing" /\ KindOf[d] = "spawn")
      /\ colPc' \in [CollectionCalls -> C!Outs]
      /\ colReopening.owner \in C!Starters(i) => colReopening' = C!NoReopen
      /\ colReopening.owner \notin C!Starters(i) => colReopening' = colReopening
      /\ colEntities' = colEntities \/ (colEntities' = i /\ colPhase[i] = "closing" /\ C!Starters(i) # {})
  <2>1. CASE ok = TRUE
    <3>1. ~C!Retired(i)
      BY <1>e, <1>g, <2>1 DEF C!Retired
    <3> QED BY <1>e, <1>f, <1>g, <2>1, <3>1, EndsWell
  <2>2. CASE ok = FALSE
    BY <1>e, <1>f, <2>2, EndsBadly
  <2> QED BY <2>1, <2>2
<1>i. ASSUME C!Starters(i) # {}
      PROVE  /\ colRt[i] # "none"
             /\ \A j \in C!Materialized : colRt[j] # "none" => j = i
             /\ colReopening.pc = "none" => i = colEntities
             /\ colReopening.pc = "built" => i = colReopening.svc
             /\ colReopening.pc # "building"
  <2>1. colRt[i] # "none"
    BY <1>i, <1>f DEF CallsInv, MateOf
  <2> QED BY <2>1, OneAlone
<1>j. i # 0 /\ i \in 0..colBuilt
  BY DEF C!Materialized, C!TypeOK
<1>k. /\ colReopening.pc = "none" => colReopening = C!NoReopen
      /\ colReopening.owner \in C!Starters(i) /\ colReopening.pc # "none" => colReopening.pc = "built" /\ colReopening.svc = i
  BY <1>i DEF ReopenInv, C!TypeOK
<1>l. colEntities' # colEntities => colEntities = 0 /\ colReopening.pc = "built" /\ colReopening.svc = i
  BY <1>h, <1>i, <1>j DEF ReopenInv, C!TypeOK
<1>m. \A d \in CollectionCalls : d \notin C!Starters(i) => ~(colPc[d] = "starting" /\ colTarget[d] = i)
  BY DEF C!Starters
<1>1. C!TypeOK'
  <2>1. C!NoReopen \in [pc : {"none", "building", "built"},
                        svc : 0..colBuilt, owner : CollectionCalls \cup {C!Nobody}]
    BY DEF C!TypeOK
  <2> QED BY <1>a, <1>b, <1>c, <1>d, <1>h, <1>j, <2>1 DEF C!TypeOK, C!Materialized
<1>2. CallsInv'
  <2> SUFFICES ASSUME NEW d \in CollectionCalls
               PROVE  MateOf(d)'
    BY DEF CallsInv
  <2>1. MateOf(d) /\ colTarget'[d] = colTarget[d] /\ colPhase' = colPhase
    BY <1>a DEF CallsInv
  <2>2. CASE d \in C!Starters(i)
    BY <1>f, <1>h, <2>1, <2>2, <1>a DEF MateOf
  <2>3. CASE d \notin C!Starters(i)
    <3>1. colPc[d] = "intent" /\ colTarget[d] = i => colPhase[i] # "active" \/ colHostStop'[i] = "drain"
      BY <1>a, <1>d, <1>g
    <3>2. colPc'[d] = colPc[d] /\ (colTarget[d] = i => colPc[d] # "starting" /\ colPc[d] # "submitting")
      BY <1>a, <1>h, <1>m, <2>3
    <3>3. colTarget[d] # 0 => colTarget[d] \in C!Materialized
      BY DEF C!TypeOK, C!Materialized
    <3>4. colReopening.pc = "building" => colReopening'.pc = "building"
      BY <1>h, <1>k
    <3>5. colPc[d] # "resolved" /\ colRecord' = colRecord /\ colFlight' = colFlight
      BY <1>a
    <3> QED BY <1>b, <1>d, <2>1, <3>1, <3>2, <3>3, <3>4, <3>5 DEF MateOf
  <2> QED BY <2>2, <2>3
<1>3. ServicesInv'
  <2> SUFFICES ASSUME NEW j \in C!Materialized
               PROVE  ServiceOf(j)'
    BY <1>a DEF ServicesInv, C!Materialized
  <2>1. ServiceOf(j) /\ colPhase' = colPhase /\ colTarget' = colTarget
    BY <1>a DEF ServicesInv
  <2>2. colRt'[j] # "none" => j \in {colEntities', colReopening'.svc}
    <3>1. j # 0
      BY DEF C!Materialized, C!TypeOK
    <3>2. colReopening'.svc = colReopening.svc \/ colReopening.svc \in {0, i}
      BY <1>h, <1>k
    <3>3. colRt'[j] # "none" => j # i /\ j \in {colEntities, colReopening.svc}
      BY <1>b, <2>1 DEF ServiceOf
    <3> QED BY <1>l, <3>1, <3>2, <3>3
  <2>3. colClosing'[j] = "drain" => colRt'[j] = "none"
    BY <1>b, <1>c, <2>1 DEF ServiceOf
  <2>4. colClosing'[j] # "no" <=> colClosing[j] # "no"
    BY <1>c
  <2>5. colClosing[j] # "no" => \E d \in CollectionCalls : colPc'[d] = "closing" /\ colTarget[d] = j
    BY <1>f, <1>h, <2>1 DEF ServiceOf
  <2> QED BY <2>1, <2>2, <2>3, <2>4, <2>5 DEF ServiceOf
<1>4. ReopenInv'
  <2>1. CASE colReopening.owner \in C!Starters(i)
    BY <1>h, <2>1 DEF ReopenInv
  <2>2. CASE colReopening.owner \notin C!Starters(i)
    BY <1>a, <1>b, <1>h, <1>k, <1>l, <1>j, <2>2 DEF ReopenInv, C!TypeOK, C!Materialized
  <2> QED BY <2>1, <2>2
<1>5. MapInv'
  <2>1. colFlight = "joining" => colReopening'.pc = "building"
    BY <1>h, <1>k DEF MapInv
  <2>2. colReopening.pc = "none" => colReopening'.pc = "none"
    BY <1>h
  <2>3. colEntities' # 0 => colPhase[colEntities'] # "closed"
    BY <1>h DEF MapInv
  <2>4. colFlight = "opening" => colEntities' = 0
    BY <1>l DEF MapInv, ReopenInv
  <2>5. \A d \in CollectionCalls : colPc[d] = "waiting" => colPc'[d] = "waiting"
    BY <1>f, <1>h
  <2> QED BY <1>a, <2>1, <2>2, <2>3, <2>4, <2>5 DEF MapInv
<1>6. SweepInv'
  <2>1. \A d \in CollectionCalls : C!Over(d) => C!Over(d)'
    BY <1>f, <1>h DEF C!Over
  <2> QED BY <1>a, <1>b, <1>d, <2>1 DEF SweepInv, C!Materialized
<1> QED BY <1>1, <1>2, <1>3, <1>4, <1>5, <1>6

LEMMA FlightOpensKeeps ==
  ASSUME C!CollectionAssumption, CollectionInv, C!FlightOpens
  PROVE  CollectionInv'
<1> USE C!CollectionAssumption DEF CollectionInv
<1>a. /\ colBuilt' = colBuilt + 1 /\ colBuilt' \in 0..MaxServices
      /\ C!Materialized' = C!Materialized \cup {colBuilt + 1} /\ colBuilt + 1 \notin C!Materialized
      /\ colPhase' \in [C!Materialized' -> C!Phases]
      /\ colRt' \in [C!Materialized' -> {"none", "starting", "stuck", "up"}]
      /\ colHostStop' \in [C!Materialized' -> {"no", "stop", "drain"}]
      /\ colClosing' \in [C!Materialized' -> {"no", "stop", "drain"}]
      /\ \A i \in C!Materialized : /\ colPhase'[i] = colPhase[i] /\ colRt'[i] = colRt[i]
                                   /\ colHostStop'[i] = colHostStop[i] /\ colClosing'[i] = colClosing[i]
      /\ colPhase'[colBuilt + 1] = "active" /\ colRt'[colBuilt + 1] = "none"
      /\ colHostStop'[colBuilt + 1] = "no" /\ colClosing'[colBuilt + 1] = "no"
  BY BuildMoves DEF C!FlightOpens
<1>b. /\ colBuilt + 1 # 0 /\ \A j \in 0..colBuilt : j \in 0..colBuilt' /\ (j # 0 => j \in C!Materialized /\ j # colBuilt + 1)
      /\ colBuilt + 1 \in 0..colBuilt' /\ colBuilt \in Nat
  BY <1>a DEF C!TypeOK, C!Materialized
<1>c. /\ colEntities \in 0..colBuilt /\ colReopening.svc \in 0..colBuilt /\ colTarget \in [CollectionCalls -> 0..colBuilt]
      /\ colReopening.pc \in {"none", "building", "built"} /\ colHeld \subseteq C!Materialized
  BY DEF C!TypeOK
<1>d. \A d \in CollectionCalls : colPc[d] # "resolved"
  BY DEF C!FlightOpens, C!Quiet
<1>e. /\ colFlight = "opening" /\ colEntities = 0 /\ colRecord # "absent"
      /\ colReopening.pc = "none" /\ colReopening.svc = 0
  BY DEF C!FlightOpens, MapInv, ReopenInv
<1>f. /\ UNCHANGED <<colRecord, colReopening, C!host>> /\ colEntities' = colBuilt + 1 /\ colFlight' = "none"
      /\ \A d \in CollectionCalls : /\ colPc'[d] = IF colPc[d] = "waiting" THEN "resolved" ELSE colPc[d]
                                    /\ colTarget'[d] = IF colPc[d] = "waiting" THEN colBuilt + 1 ELSE colTarget[d]
      /\ colPc' \in [CollectionCalls -> C!Outs] /\ colTarget' \in [CollectionCalls -> 0..colBuilt']
  <2>1. /\ UNCHANGED <<colRecord, colReopening, C!host>> /\ colEntities' = colBuilt + 1 /\ colFlight' = "none"
        /\ colPc' = [d \in CollectionCalls |-> IF d \in C!Waiting THEN "resolved" ELSE colPc[d]]
        /\ colTarget' = [d \in CollectionCalls |-> IF d \in C!Waiting THEN colBuilt + 1 ELSE colTarget[d]]
    BY DEF C!FlightOpens, C!Settles
  <2>2. colPc' \in [CollectionCalls -> C!Outs]
    BY <2>1 DEF C!TypeOK, C!Outs
  <2>3. colTarget' \in [CollectionCalls -> 0..colBuilt']
    BY <2>1, <1>b, <1>c
  <2> QED BY <2>1, <2>2, <2>3 DEF C!Waiting
<1>w. \E d \in CollectionCalls : colPc[d] = "waiting"
  BY <1>e DEF MapInv
<1>1. C!TypeOK'
  <2>1. colReopening \in [pc : {"none", "building", "built"},
                          svc : 0..colBuilt', owner : CollectionCalls \cup {C!Nobody}]
    BY <1>b DEF C!TypeOK
  <2>2. colHeld \subseteq C!Materialized'
    BY <1>a, <1>c
  <2> QED BY <1>a, <1>b, <1>f, <2>1, <2>2 DEF C!TypeOK
<1>2. CallsInv'
  <2> SUFFICES ASSUME NEW d \in CollectionCalls
               PROVE  MateOf(d)'
    BY DEF CallsInv
  <2>1. MateOf(d) /\ colPc[d] # "resolved" /\ colTarget[d] \in 0..colBuilt
    BY <1>c, <1>d DEF CallsInv
  <2>2. CASE colPc[d] = "waiting"
    BY <1>a, <1>b, <1>e, <1>f, <2>1, <2>2 DEF MateOf
  <2>3. CASE colPc[d] # "waiting"
    BY <1>a, <1>b, <1>e, <1>f, <2>1, <2>3 DEF MateOf
  <2> QED BY <2>2, <2>3
<1>3. ServicesInv'
  <2> SUFFICES ASSUME NEW j \in C!Materialized'
               PROVE  ServiceOf(j)'
    BY DEF ServicesInv
  <2>1. CASE j = colBuilt + 1
    BY <1>a, <2>1 DEF ServiceOf
  <2>2. CASE j \in C!Materialized
    <3>1. ServiceOf(j) /\ colRt'[j] = colRt[j] /\ colPhase'[j] = colPhase[j] /\ colClosing'[j] = colClosing[j]
      BY <1>a, <2>2 DEF ServicesInv
    <3>2. colRt[j] = "none"
      BY <1>e, <2>2, <3>1 DEF ServiceOf, C!Materialized, C!TypeOK
    <3>3. colClosing[j] # "no" => \E d \in CollectionCalls : colPc'[d] = "closing" /\ colTarget'[d] = j
      BY <1>f, <3>1 DEF ServiceOf
    <3> QED BY <3>1, <3>2, <3>3 DEF ServiceOf
  <2> QED BY <1>a, <2>1, <2>2
<1>4. ReopenInv'
  BY <1>e, <1>f DEF ReopenInv
<1>5. MapInv'
  BY <1>a, <1>b, <1>e, <1>f DEF MapInv
<1>6. SweepInv'
  <2>1. \A d \in CollectionCalls : colPc[d] = "waiting" => ~C!Over(d)
    BY DEF C!Over
  <2>2. colSweep # "none" => colPass # 2
    BY <1>w, <2>1 DEF SweepInv
  <2> QED BY <1>f, <2>2 DEF SweepInv
<1> QED BY <1>1, <1>2, <1>3, <1>4, <1>5, <1>6

LEMMA FlightCreatesKeeps ==
  ASSUME C!CollectionAssumption, CollectionInv, C!FlightCreates
  PROVE  CollectionInv'
<1> USE C!CollectionAssumption DEF CollectionInv
<1>a. /\ colBuilt' = colBuilt + 1 /\ colBuilt' \in 0..MaxServices
      /\ C!Materialized' = C!Materialized \cup {colBuilt + 1} /\ colBuilt + 1 \notin C!Materialized
      /\ colPhase' \in [C!Materialized' -> C!Phases]
      /\ colRt' \in [C!Materialized' -> {"none", "starting", "stuck", "up"}]
      /\ colHostStop' \in [C!Materialized' -> {"no", "stop", "drain"}]
      /\ colClosing' \in [C!Materialized' -> {"no", "stop", "drain"}]
      /\ \A i \in C!Materialized : /\ colPhase'[i] = colPhase[i] /\ colRt'[i] = colRt[i]
                                   /\ colHostStop'[i] = colHostStop[i] /\ colClosing'[i] = colClosing[i]
      /\ colPhase'[colBuilt + 1] = "active" /\ colRt'[colBuilt + 1] = "none"
      /\ colHostStop'[colBuilt + 1] = "no" /\ colClosing'[colBuilt + 1] = "no"
  BY BuildMoves DEF C!FlightCreates
<1>b. /\ colBuilt + 1 # 0 /\ \A j \in 0..colBuilt : j \in 0..colBuilt' /\ (j # 0 => j \in C!Materialized /\ j # colBuilt + 1)
      /\ colBuilt + 1 \in 0..colBuilt' /\ colBuilt \in Nat
  BY <1>a DEF C!TypeOK, C!Materialized
<1>c. /\ colEntities \in 0..colBuilt /\ colReopening.svc \in 0..colBuilt /\ colTarget \in [CollectionCalls -> 0..colBuilt]
      /\ colReopening.pc \in {"none", "building", "built"} /\ colHeld \subseteq C!Materialized
  BY DEF C!TypeOK
<1>d. \A d \in CollectionCalls : colPc[d] # "resolved"
  BY DEF C!FlightCreates, C!Quiet
<1>e. /\ colFlight = "creating" /\ colEntities = 0 /\ colRecord = "absent"
      /\ colReopening.pc = "none" /\ colReopening.svc = 0
  BY <1>c DEF C!FlightCreates, MapInv, ReopenInv
<1>f. /\ UNCHANGED <<colReopening, C!host>> /\ colRecord' = "open" /\ colEntities' = colBuilt + 1 /\ colFlight' = "none"
      /\ \A d \in CollectionCalls :
           \/ /\ colPc[d] = "waiting"
              /\ \/ colPc'[d] = "threw" /\ colTarget'[d] = colTarget[d]
                 \/ colPc'[d] = "resolved" /\ colTarget'[d] = colBuilt + 1
           \/ colPc[d] # "waiting" /\ colPc'[d] = colPc[d] /\ colTarget'[d] = colTarget[d]
      /\ colPc' \in [CollectionCalls -> C!Outs] /\ colTarget' \in [CollectionCalls -> 0..colBuilt']
  <2>1. UNCHANGED <<colReopening, C!host>> /\ colRecord' = "open" /\ colEntities' = colBuilt + 1
    BY DEF C!FlightCreates
  <2>2. CASE C!SelfClose
    <3>1. /\ colFlight' = "none" /\ colTarget' = colTarget
          /\ colPc' = [d \in CollectionCalls |-> IF d \in C!Waiting THEN "threw" ELSE colPc[d]]
      BY <2>2 DEF C!FlightCreates, C!FlightFails
    <3>2. colPc' \in [CollectionCalls -> C!Outs]
      BY <3>1 DEF C!TypeOK, C!Outs
    <3>3. colTarget' \in [CollectionCalls -> 0..colBuilt']
      BY <3>1, <1>b, <1>c
    <3> QED BY <2>1, <3>1, <3>2, <3>3 DEF C!Waiting
  <2>3. CASE ~C!SelfClose
    <3>1. /\ colFlight' = "none"
          /\ colPc' = [d \in CollectionCalls |-> IF d \in C!Waiting THEN "resolved" ELSE colPc[d]]
          /\ colTarget' = [d \in CollectionCalls |-> IF d \in C!Waiting THEN colBuilt + 1 ELSE colTarget[d]]
      BY <2>3 DEF C!FlightCreates, C!Settles
    <3>2. colPc' \in [CollectionCalls -> C!Outs]
      BY <3>1 DEF C!TypeOK, C!Outs
    <3>3. colTarget' \in [CollectionCalls -> 0..colBuilt']
      BY <3>1, <1>b, <1>c
    <3> QED BY <2>1, <3>1, <3>2, <3>3 DEF C!Waiting
  <2> QED BY <2>2, <2>3
<1>w. \E d \in CollectionCalls : colPc[d] = "waiting"
  BY <1>e DEF MapInv
<1>1. C!TypeOK'
  <2>1. colReopening \in [pc : {"none", "building", "built"},
                          svc : 0..colBuilt', owner : CollectionCalls \cup {C!Nobody}]
    BY <1>b DEF C!TypeOK
  <2>2. colHeld \subseteq C!Materialized'
    BY <1>a, <1>c
  <2> QED BY <1>a, <1>b, <1>f, <2>1, <2>2 DEF C!TypeOK
<1>2. CallsInv'
  <2> SUFFICES ASSUME NEW d \in CollectionCalls
               PROVE  MateOf(d)'
    BY DEF CallsInv
  <2>1. MateOf(d) /\ colPc[d] # "resolved" /\ colTarget[d] \in 0..colBuilt
    BY <1>c, <1>d DEF CallsInv
  <2>2. CASE colPc[d] = "waiting"
    BY <1>a, <1>b, <1>e, <1>f, <2>1, <2>2 DEF MateOf
  <2>3. CASE colPc[d] # "waiting"
    BY <1>a, <1>b, <1>e, <1>f, <2>1, <2>3 DEF MateOf
  <2> QED BY <2>2, <2>3
<1>3. ServicesInv'
  <2> SUFFICES ASSUME NEW j \in C!Materialized'
               PROVE  ServiceOf(j)'
    BY DEF ServicesInv
  <2>1. CASE j = colBuilt + 1
    BY <1>a, <2>1 DEF ServiceOf
  <2>2. CASE j \in C!Materialized
    <3>1. ServiceOf(j) /\ colRt'[j] = colRt[j] /\ colPhase'[j] = colPhase[j] /\ colClosing'[j] = colClosing[j]
      BY <1>a, <2>2 DEF ServicesInv
    <3>2. colRt[j] = "none"
      BY <1>e, <2>2, <3>1 DEF ServiceOf, C!Materialized, C!TypeOK
    <3>3. colClosing[j] # "no" => \E d \in CollectionCalls : colPc'[d] = "closing" /\ colTarget'[d] = j
      BY <1>f, <3>1 DEF ServiceOf
    <3> QED BY <3>1, <3>2, <3>3 DEF ServiceOf
  <2> QED BY <1>a, <2>1, <2>2
<1>4. ReopenInv'
  BY <1>e, <1>f DEF ReopenInv
<1>5. MapInv'
  BY <1>a, <1>b, <1>e, <1>f DEF MapInv
<1>6. SweepInv'
  <2>1. \A d \in CollectionCalls : colPc[d] = "waiting" => ~C!Over(d)
    BY DEF C!Over
  <2>2. colSweep # "none" => colPass # 2
    BY <1>w, <2>1 DEF SweepInv
  <2> QED BY <1>f, <2>2 DEF SweepInv
<1> QED BY <1>1, <1>2, <1>3, <1>4, <1>5, <1>6

LEMMA ReopenBuiltKeeps ==
  ASSUME C!CollectionAssumption, CollectionInv, C!ReopenBuilt
  PROVE  CollectionInv'
<1> USE C!CollectionAssumption DEF CollectionInv
<1>a. /\ colBuilt' = colBuilt + 1 /\ colBuilt' \in 0..MaxServices
      /\ C!Materialized' = C!Materialized \cup {colBuilt + 1} /\ colBuilt + 1 \notin C!Materialized
      /\ colPhase' \in [C!Materialized' -> C!Phases]
      /\ colRt' \in [C!Materialized' -> {"none", "starting", "stuck", "up"}]
      /\ colHostStop' \in [C!Materialized' -> {"no", "stop", "drain"}]
      /\ colClosing' \in [C!Materialized' -> {"no", "stop", "drain"}]
      /\ \A i \in C!Materialized : /\ colPhase'[i] = colPhase[i] /\ colRt'[i] = colRt[i]
                                   /\ colHostStop'[i] = colHostStop[i] /\ colClosing'[i] = colClosing[i]
      /\ colPhase'[colBuilt + 1] = "active" /\ colRt'[colBuilt + 1] = "none"
      /\ colHostStop'[colBuilt + 1] = "no" /\ colClosing'[colBuilt + 1] = "no"
  BY BuildMoves DEF C!ReopenBuilt
<1>b. /\ colBuilt + 1 # 0 /\ \A j \in 0..colBuilt : j \in 0..colBuilt' /\ (j # 0 => j \in C!Materialized /\ j # colBuilt + 1)
      /\ colBuilt + 1 \in 0..colBuilt' /\ colBuilt \in Nat
  BY <1>a DEF C!TypeOK, C!Materialized
<1>c. /\ colEntities \in 0..colBuilt /\ colReopening.svc \in 0..colBuilt /\ colTarget \in [CollectionCalls -> 0..colBuilt]
      /\ colReopening.pc \in {"none", "building", "built"} /\ colHeld \subseteq C!Materialized
  BY DEF C!TypeOK
<1>d. \A d \in CollectionCalls : colPc[d] # "resolved"
  BY DEF C!ReopenBuilt, C!Quiet
<1>e. /\ colReopening.pc = "building" /\ colEntities = 0 /\ colReopening.svc = 0 /\ colRecord # "absent"
      /\ colFlight \in {"none", "joining"}
      /\ colReopening.owner \in CollectionCalls /\ colPc[colReopening.owner] = "building"
  BY DEF C!ReopenBuilt, MapInv, ReopenInv
<1>f. /\ UNCHANGED <<colRecord, colEntities, C!host>> /\ colFlight' = "none"
      /\ \A d \in CollectionCalls :
           \/ /\ d \in C!Builders
              /\ \/ colPc'[d] = "threw" /\ colTarget'[d] = colTarget[d]
                 \/ colPc'[d] = "resolved" /\ colTarget'[d] = colBuilt + 1 /\ colReopening'.pc = "built"
           \/ d \notin C!Builders /\ colPc'[d] = colPc[d] /\ colTarget'[d] = colTarget[d]
      /\ colPc' \in [CollectionCalls -> C!Outs] /\ colTarget' \in [CollectionCalls -> 0..colBuilt']
      /\ \/ colReopening' = C!NoReopen
         \/ /\ colReopening'.pc = "built" /\ colReopening'.svc = colBuilt + 1
            /\ colReopening'.owner = colReopening.owner
            /\ colTarget'[colReopening.owner] = colBuilt + 1 /\ colPc'[colReopening.owner] = "resolved"
      /\ colReopening' \in [pc : {"none", "building", "built"},
                            svc : 0..colBuilt', owner : CollectionCalls \cup {C!Nobody}]
  <2>1. UNCHANGED <<colRecord, colEntities, C!host>> /\ colFlight' = "none"
    BY <1>e DEF C!ReopenBuilt
  <2>2. CASE C!SelfClose
    <3>1. /\ colTarget' = colTarget /\ colReopening' = C!NoReopen
          /\ colPc' = [d \in CollectionCalls |-> IF d \in C!Builders THEN "threw" ELSE colPc[d]]
      BY <2>2 DEF C!ReopenBuilt
    <3>2. colPc' \in [CollectionCalls -> C!Outs]
      BY <3>1 DEF C!TypeOK, C!Outs
    <3>3. colTarget' \in [CollectionCalls -> 0..colBuilt']
      BY <3>1, <1>b, <1>c
    <3>4. colReopening' \in [pc : {"none", "building", "built"},
                             svc : 0..colBuilt', owner : CollectionCalls \cup {C!Nobody}]
      BY <3>1, <1>a DEF C!CollectionAssumption
    <3> QED BY <2>1, <3>1, <3>2, <3>3, <3>4
  <2>3. CASE ~C!SelfClose
    <3>1. /\ colReopening' = [colReopening EXCEPT !.pc = "built", !.svc = colBuilt + 1]
          /\ colPc' = [d \in CollectionCalls |-> IF d \in C!Builders THEN "resolved" ELSE colPc[d]]
          /\ colTarget' = [d \in CollectionCalls |-> IF d \in C!Builders THEN colBuilt + 1 ELSE colTarget[d]]
      BY <2>3 DEF C!ReopenBuilt
    <3>2. colPc' \in [CollectionCalls -> C!Outs]
      BY <3>1 DEF C!TypeOK, C!Outs
    <3>3. colTarget' \in [CollectionCalls -> 0..colBuilt']
      BY <3>1, <1>b, <1>c
    <3>4. /\ colReopening' \in [pc : {"none", "building", "built"},
                                svc : 0..colBuilt', owner : CollectionCalls \cup {C!Nobody}]
          /\ colReopening'.pc = "built" /\ colReopening'.svc = colBuilt + 1 /\ colReopening'.owner = colReopening.owner
      BY <3>1, <1>b DEF C!TypeOK
    <3>5. colReopening.owner \in C!Builders
      BY <1>e DEF C!Builders
    <3> QED BY <2>1, <3>1, <3>2, <3>3, <3>4, <3>5, <1>e
  <2> QED BY <2>2, <2>3
<1>w. colPc[colReopening.owner] = "building"
  BY <1>e
<1>1. C!TypeOK'
  <2>1. colHeld \subseteq C!Materialized'
    BY <1>a, <1>c
  <2> QED BY <1>a, <1>b, <1>f, <2>1 DEF C!TypeOK
<1>2. CallsInv'
  <2> SUFFICES ASSUME NEW d \in CollectionCalls
               PROVE  MateOf(d)'
    BY DEF CallsInv
  <2>1. MateOf(d) /\ colPc[d] # "resolved" /\ colTarget[d] \in 0..colBuilt
    BY <1>c, <1>d DEF CallsInv
  <2>2. CASE d \in C!Builders
    BY <1>a, <1>b, <1>e, <1>f, <2>1, <2>2 DEF MateOf, C!Builders
  <2>3. CASE d \notin C!Builders
    BY <1>a, <1>b, <1>e, <1>f, <2>1, <2>3 DEF MateOf, C!Builders
  <2> QED BY <2>2, <2>3
<1>3. ServicesInv'
  <2> SUFFICES ASSUME NEW j \in C!Materialized'
               PROVE  ServiceOf(j)'
    BY DEF ServicesInv
  <2>1. CASE j = colBuilt + 1
    BY <1>a, <2>1 DEF ServiceOf
  <2>2. CASE j \in C!Materialized
    <3>1. ServiceOf(j) /\ colRt'[j] = colRt[j] /\ colPhase'[j] = colPhase[j] /\ colClosing'[j] = colClosing[j]
      BY <1>a, <2>2 DEF ServicesInv
    <3>2. colRt[j] = "none"
      BY <1>e, <2>2, <3>1 DEF ServiceOf, C!Materialized, C!TypeOK
    <3>3. colClosing[j] # "no" => \E d \in CollectionCalls : colPc'[d] = "closing" /\ colTarget'[d] = j
      BY <1>f, <3>1 DEF ServiceOf, C!Builders
    <3> QED BY <3>1, <3>2, <3>3 DEF ServiceOf
  <2> QED BY <1>a, <2>1, <2>2
<1>4. ReopenInv'
  <2>1. CASE colReopening' = C!NoReopen
    BY <2>1 DEF ReopenInv
  <2>2. CASE colReopening' # C!NoReopen
    <3>1. KindOf[colReopening.owner] = "send"
      BY <1>e DEF CallsInv, MateOf
    <3> QED BY <1>a, <1>b, <1>e, <1>f, <2>2, <3>1 DEF ReopenInv
  <2> QED BY <2>1, <2>2
<1>5. MapInv'
  BY <1>e, <1>f DEF MapInv
<1>6. SweepInv'
  <2>1. \A d \in CollectionCalls : colPc[d] = "building" => ~C!Over(d)
    BY DEF C!Over
  <2>2. colSweep # "none" => colPass # 2
    BY <1>e, <2>1 DEF SweepInv
  <2> QED BY <1>f, <2>2 DEF SweepInv
<1> QED BY <1>1, <1>2, <1>3, <1>4, <1>5, <1>6

LEMMA CollectionIdle ==
  ASSUME CollectionInv, UNCHANGED C!vars
  PROVE  CollectionInv'
<1> USE DEF CollectionInv
<1>0. /\ colFence' = colFence /\ colRecord' = colRecord /\ colBuilt' = colBuilt /\ colPhase' = colPhase /\ colRt' = colRt
      /\ colHostStop' = colHostStop /\ colClosing' = colClosing /\ colEntities' = colEntities /\ colFlight' = colFlight
      /\ colReopening' = colReopening /\ colPc' = colPc /\ colTarget' = colTarget /\ colSweep' = colSweep
      /\ colPass' = colPass /\ colHeld' = colHeld
  BY DEF C!vars
<1>1. C!TypeOK'
  BY <1>0 DEF C!TypeOK, C!Materialized
<1>2. CallsInv'
  BY <1>0 DEF CallsInv, MateOf
<1>3. ServicesInv'
  BY <1>0 DEF ServicesInv, ServiceOf, C!Materialized
<1>4. ReopenInv' /\ MapInv'
  BY <1>0 DEF ReopenInv, MapInv
<1>5. SweepInv'
  BY <1>0 DEF SweepInv, C!Over, C!Materialized
<1> QED BY <1>1, <1>2, <1>3, <1>4, <1>5

LEMMA CollectionStep ==
  ASSUME C!CollectionAssumption, ~ReopenWritesFail, CollectionInv, [C!Next]_(C!vars)
  PROVE  CollectionInv'
<1>1. CASE C!Fence
  BY <1>1, FenceKeeps
<1>2. CASE C!FlightSteps
  BY <1>2, FlightCreatesKeeps, FlightReadsKeeps, FlightOpensKeeps, ReopenBuiltKeeps
     DEF C!FlightSteps
<1>3. CASE C!SweepSteps
  BY <1>3, SweepJoinsKeeps, SweepReopensKeeps, SweepEndsKeeps, DrainedKeeps DEF C!SweepSteps
<1>4. ASSUME NEW c \in CollectionCalls, C!Refused(c) \/ C!SpawnAllocates(c) \/ C!Resolve(c) \/ C!CallSteps(c)
      PROVE  CollectionInv'
  BY <1>4, RefusedKeeps, SpawnAllocatesKeeps, ResolveKeeps, EnterKeeps, SendReopensKeeps,
     CollectionCloseBeginsKeeps, IntentKeeps, SubmittedKeeps, SpawnRegistersKeeps DEF C!CallSteps
<1>5. ASSUME NEW i \in C!Materialized, C!SvcSteps(i)
      PROVE  CollectionInv'
  BY <1>5, StartedKeeps, CollectionStartFailsKeeps, RuntimeStopsKeeps, ClosedKeeps,
     HostStoppedKeeps,
     SweepStopsKeeps DEF C!SvcSteps
<1>6. CASE UNCHANGED C!vars
  BY <1>6, CollectionIdle
<1> QED BY <1>1, <1>2, <1>3, <1>4, <1>5, <1>6 DEF C!Next

LEMMA CollectionSafe ==
  ASSUME CollectionInv
  PROVE  C!OneRuntimePerAgent /\ C!SweptClean
<1>1. C!OneRuntimePerAgent
  BY OneAlone DEF CollectionInv, C!OneRuntimePerAgent
<1>2. C!SweptClean
  BY DEF CollectionInv, SweepInv, C!SweptClean
<1> QED BY <1>1, <1>2

HIDE DEF C!svcs, C!maps, C!calls, C!host, C!NoReopen
----------------------------------------
(* The checkouts of TeamMates: any number of names, calls and mishaps      *)
On(n, b) == chkPath[n] \in W!Trees /\ chkRegistry[n] = b

SpawnSteps == {"named", "look", "add", "add -b", "create"}
CloseSteps == {"assess", "remove", "again", "record"}
ReopenSteps == {"look", "add", "add -b", "patch", "start"}

Shapes ==
  /\ chkPath \in [Names -> {"none", "plain"} \cup W!Trees]
  /\ chkRegistry \in [Names -> {NoOwner, "detached"} \cup W!Branches]
  /\ chkHeld \in [Names -> {"no", "idle", "running", "closing"}]
  /\ chkUp \in BOOLEAN /\ chkOps \in 0..MaxOps /\ chkMishaps \in 0..MaxSurprises

\* What a call knows of its name.
SpawnOf(c) ==
  chkCall[c].op = "spawn" =>
    /\ chkCall[c].step \in SpawnSteps
    /\ chkCall[c].step = "create" /\ chkCall[c].mode = "managed" /\ chkRec[chkCall[c].name] = NoOwner
         /\ chkCall[c].name \notin chkHand => On(chkCall[c].name, chkCall[c].branch)
    /\ chkCall[c].step \in {"look", "add", "add -b"} => chkCall[c].mode = "managed"
CloseOf(c) ==
  LET n == chkCall[c].name IN
  chkCall[c].op = "close" =>
    /\ chkCall[c].step \in CloseSteps /\ chkHeld[n] = "closing" /\ chkRec[n] # NoOwner
    /\ chkCall[c].step # "record" =>
         /\ W!Managed(n) /\ chkRec[n].cleanup = "delete-on-close"
         /\ n \notin chkHand => On(n, chkRec[n].branch)
    /\ chkCall[c].step = "record" /\ n \notin chkHand =>
         /\ chkCall[c].state = "deleted" => chkPath[n] = "none" /\ chkRegistry[n] = NoOwner
         /\ chkCall[c].state # "deleted" /\ W!Managed(n) => On(n, chkRec[n].branch)
    /\ chkCall[c].step = "record" => chkCall[c].state \in W!States /\ (W!Managed(n) <=> chkCall[c].state # "not-managed")
ReopenOf(c) ==
  LET n == chkCall[c].name IN
  chkCall[c].op = "reopen" =>
    /\ chkCall[c].step \in ReopenSteps /\ chkHeld[n] = "no" /\ chkRec[n] # NoOwner /\ chkRec[n].closed
    /\ chkCall[c].branch = chkRec[n].branch
    /\ chkCall[c].step # "start" => W!Managed(n) /\ chkRec[n].state = "deleted"
    /\ chkCall[c].step = "start" => chkRec[n].state # "deleted"
    /\ chkCall[c].step = "patch" /\ n \notin chkHand => On(n, chkRec[n].branch)

CheckoutCallInv ==
  \A c \in CheckoutCalls : chkCall[c] # NoOwner => chkUp /\ SpawnOf(c) /\ CloseOf(c) /\ ReopenOf(c)
Sole ==
  \A c, d \in CheckoutCalls :
       chkCall[c] # NoOwner /\ chkCall[d] # NoOwner /\ chkCall[c].name = chkCall[d].name =>
         \/ c = d
         \/ chkCall[c].op = "spawn" /\ (chkCall[c].step = "named" \/ chkCall[d].op # "spawn")
         \/ chkCall[d].op = "spawn" /\ (chkCall[d].step = "named" \/ chkCall[c].op # "spawn")

PathOf(n) ==
  /\ n \notin chkHand => (chkPath[n] = "none" /\ chkRegistry[n] = NoOwner) \/ (chkPath[n] \in W!Trees /\ chkRegistry[n] \in W!Branches)
  /\ chkRec[n] # NoOwner =>
      /\ ~W!Managed(n) <=> chkRec[n].state = "not-managed"
      /\ ~chkRec[n].closed => chkRec[n].state # "deleted"
      /\ W!Managed(n) /\ n \notin chkHand /\ chkRec[n].state # "deleted" /\ chkHeld[n] # "closing" => On(n, chkRec[n].branch)
  /\ chkHeld[n] = "closing" /\ n \notin chkHand =>
       \E c \in CheckoutCalls : chkCall[c] # NoOwner /\ chkCall[c].op = "close" /\ chkCall[c].name = n
PathInv == \A n \in Names : PathOf(n)
CheckoutInv == W!TypeOK /\ Shapes /\ CheckoutCallInv /\ Sole /\ PathInv /\ W!BranchesAreExclusive

\* The errand of c goes on, with its name and what it was asked.
Carries(c) ==
  /\ chkCall'[c] # NoOwner /\ chkCall'[c].op = chkCall[c].op /\ chkCall'[c].name = chkCall[c].name
  /\ chkCall'[c].branch = chkCall[c].branch /\ chkCall'[c].mode = chkCall[c].mode
  /\ chkCall'[c].cleanup = chkCall[c].cleanup
Alone(c) ==
  /\ chkCall' \in [CheckoutCalls -> W!Errands \cup {NoOwner}]
  /\ \A d \in CheckoutCalls : d # c => chkCall'[d] = chkCall[d]

LEMMA GoMoves ==
  ASSUME W!CheckoutsAssumption, W!TypeOK, NEW c \in CheckoutCalls, chkCall[c] # NoOwner, NEW s \in W!Steps, W!Go(c, s)
  PROVE  /\ Alone(c) /\ Carries(c)
         /\ chkCall'[c].step = s /\ chkCall'[c].state = chkCall[c].state
<1>1. chkCall[c] \in W!Errands
  BY DEF W!TypeOK
<1>2. chkCall' = [chkCall EXCEPT ![c] = [chkCall[c] EXCEPT !.step = s]]
  BY DEF W!Go
<1>3. chkCall'[c] = [chkCall[c] EXCEPT !.step = s] /\ \A d \in CheckoutCalls : d # c => chkCall'[d] = chkCall[d]
  BY <1>2 DEF W!TypeOK
<1>4. [chkCall[c] EXCEPT !.step = s] \in W!Errands
  BY <1>1 DEF W!Errands
<1>5. chkCall' \in [CheckoutCalls -> W!Errands \cup {NoOwner}]
  BY <1>2, <1>4 DEF W!TypeOK
<1>6. chkCall'[c] # NoOwner
  BY <1>3, <1>4 DEF W!CheckoutsAssumption
<1>7. /\ chkCall'[c].op = chkCall[c].op /\ chkCall'[c].name = chkCall[c].name
      /\ chkCall'[c].branch = chkCall[c].branch /\ chkCall'[c].mode = chkCall[c].mode
      /\ chkCall'[c].cleanup = chkCall[c].cleanup /\ chkCall'[c].state = chkCall[c].state
      /\ chkCall'[c].step = s
  BY <1>1, <1>3 DEF W!Errands
<1> QED BY <1>3, <1>5, <1>6, <1>7 DEF Alone, Carries

LEMMA SettledMoves ==
  ASSUME W!CheckoutsAssumption, W!TypeOK, NEW c \in CheckoutCalls, chkCall[c] # NoOwner, NEW s \in W!States, W!Settled(c, s)
  PROVE  /\ Alone(c) /\ Carries(c)
         /\ chkCall'[c].step = "record" /\ chkCall'[c].state = s
<1>1. chkCall[c] \in W!Errands
  BY DEF W!TypeOK
<1>2. chkCall' = [chkCall EXCEPT ![c] = [chkCall[c] EXCEPT !.step = "record", !.state = s]]
  BY <1>1 DEF W!Settled, W!TypeOK, W!Errands
<1>3. /\ chkCall'[c] = [chkCall[c] EXCEPT !.step = "record", !.state = s]
      /\ \A d \in CheckoutCalls : d # c => chkCall'[d] = chkCall[d]
  BY <1>2 DEF W!TypeOK
<1>4. [chkCall[c] EXCEPT !.step = "record", !.state = s] \in W!Errands
  BY <1>1 DEF W!Errands, W!Steps
<1>5. chkCall' \in [CheckoutCalls -> W!Errands \cup {NoOwner}]
  BY <1>2, <1>4 DEF W!TypeOK
<1>6. chkCall'[c] # NoOwner
  BY <1>3, <1>4 DEF W!CheckoutsAssumption
<1>7. /\ chkCall'[c].op = chkCall[c].op /\ chkCall'[c].name = chkCall[c].name
      /\ chkCall'[c].branch = chkCall[c].branch /\ chkCall'[c].mode = chkCall[c].mode
      /\ chkCall'[c].cleanup = chkCall[c].cleanup /\ chkCall'[c].state = s
      /\ chkCall'[c].step = "record"
  BY <1>1, <1>3 DEF W!Errands
<1> QED BY <1>3, <1>5, <1>6, <1>7 DEF Alone, Carries

LEMMA OverMoves ==
  ASSUME W!TypeOK, NEW c \in CheckoutCalls, W!Over(c)
  PROVE  Alone(c) /\ chkCall'[c] = NoOwner
  BY DEF W!Over, Alone, W!TypeOK

LEMMA BeginMoves ==
  ASSUME W!CheckoutsAssumption, W!TypeOK, Shapes, NEW c \in CheckoutCalls, NEW it \in W!Errands, W!Begin(c, it)
  PROVE  /\ Alone(c) /\ chkCall'[c] = it /\ chkCall'[c] # NoOwner
         /\ chkUp /\ chkCall[c] = NoOwner /\ chkOps' \in 0..MaxOps
  BY DEF W!Begin, Alone, W!TypeOK, Shapes, W!CheckoutsAssumption

\* What is on its way to the checkouts stays alone on its way.
LEMMA SoleGoes ==
  ASSUME Sole, NEW c \in CheckoutCalls, chkCall[c] # NoOwner, Alone(c),
         chkCall'[c] = NoOwner \/ (Carries(c) /\ (chkCall[c].op = "spawn" => chkCall[c].step # "named"))
  PROVE  Sole'
  BY DEF Sole, Alone, Carries

\* A step that moves one errand, and may mark its name.
LEMMA CallMarks ==
  ASSUME W!CheckoutsAssumption, CheckoutInv, NEW c \in CheckoutCalls, chkCall[c] # NoOwner, Alone(c), Sole',
         UNCHANGED <<W!disk, chkHeld, chkUp, chkOps>>, chkMishaps' \in 0..MaxSurprises,
         chkHand \subseteq chkHand', chkHand' \subseteq Names,
         \/ chkCall'[c] = NoOwner /\ (chkCall[c].op # "close" \/ chkCall[c].name \in chkHand')
         \/ Carries(c) /\ (SpawnOf(c) /\ CloseOf(c) /\ ReopenOf(c))'
  PROVE  CheckoutInv'
<1> USE DEF CheckoutInv
<1>a. UNCHANGED <<chkRec, chkPath, chkRegistry, chkBranches, chkHeld, chkUp, chkOps>>
  BY DEF W!disk
<1>1. W!TypeOK' /\ Shapes'
  BY <1>a DEF W!TypeOK, Shapes, Alone
<1>2. CheckoutCallInv'
  <2> SUFFICES ASSUME NEW d \in CheckoutCalls, chkCall'[d] # NoOwner
               PROVE  chkUp' /\ (SpawnOf(d) /\ CloseOf(d) /\ ReopenOf(d))'
    BY DEF CheckoutCallInv
  <2>1. chkUp'
    BY <1>a DEF CheckoutCallInv
  <2>2. CASE d = c
    BY <2>1, <2>2
  <2>3. CASE d # c
    <3>1. chkCall'[d] = chkCall[d] /\ SpawnOf(d) /\ CloseOf(d) /\ ReopenOf(d)
      BY <2>3 DEF Alone, CheckoutCallInv
    <3> QED BY <1>a, <2>1, <3>1 DEF SpawnOf, CloseOf, ReopenOf, On, W!Managed
  <2> QED BY <2>2, <2>3
<1>3. PathInv'
  <2> SUFFICES ASSUME NEW n \in Names
               PROVE  PathOf(n)'
    BY DEF PathInv
  <2>1. PathOf(n)
    BY DEF PathInv
  <2>2. ASSUME NEW d \in CheckoutCalls, chkCall[d] # NoOwner, chkCall[d].op = "close", chkCall[d].name = n, n \notin chkHand'
        PROVE  \E e \in CheckoutCalls : chkCall'[e] # NoOwner /\ chkCall'[e].op = "close" /\ chkCall'[e].name = n
    BY <2>2 DEF Alone, Carries
  <2> QED BY <1>a, <2>1, <2>2 DEF PathOf, On, W!Managed
<1>4. W!BranchesAreExclusive'
  BY <1>a DEF W!BranchesAreExclusive
<1> QED BY <1>1, <1>2, <1>3, <1>4

\* A step that moves one errand only.
LEMMA CallOnly ==
  ASSUME W!CheckoutsAssumption, CheckoutInv, NEW c \in CheckoutCalls, chkCall[c] # NoOwner, Alone(c), Sole',
         UNCHANGED <<W!disk, chkHeld, chkUp, chkOps, chkMishaps, chkHand>>,
         \/ chkCall'[c] = NoOwner /\ chkCall[c].op # "close"
         \/ Carries(c) /\ (SpawnOf(c) /\ CloseOf(c) /\ ReopenOf(c))'
  PROVE  CheckoutInv'
<1>1. chkMishaps' \in 0..MaxSurprises /\ chkHand \subseteq chkHand' /\ chkHand' \subseteq Names
  BY DEF CheckoutInv, Shapes, W!TypeOK
<1> QED BY <1>1, CallMarks

LEMMA RegistersKeeps ==
  ASSUME W!CheckoutsAssumption, CheckoutInv, NEW c \in CheckoutCalls, W!Registers(c)
  PROVE  CheckoutInv'
<1> DEFINE n == chkCall[c].name
<1> USE DEF CheckoutInv
<1>1. /\ chkCall[c] # NoOwner /\ chkCall[c].step = "named" /\ chkCall[c] \in W!Errands /\ n \in Names
      /\ UNCHANGED <<W!disk, chkHeld, chkUp, chkOps, chkMishaps, chkHand>>
  BY DEF W!Registers, W!At, W!Fine, W!TypeOK, W!Errands
<1>2. chkCall[c].op = "spawn"
  BY <1>1 DEF CheckoutCallInv, SpawnOf, CloseOf, ReopenOf, SpawnSteps, CloseSteps, ReopenSteps,
     W!Errands
<1>3. CASE chkHeld[n] # "no" \/ W!Materializing(n)
  <2>1. Alone(c) /\ chkCall'[c] = NoOwner
    BY <1>3, OverMoves DEF W!Registers
  <2>2. Sole'
    BY <1>1, <2>1, SoleGoes
  <2> QED BY <1>1, <1>2, <2>1, <2>2, CallOnly
<1>4. CASE ~(chkHeld[n] # "no" \/ W!Materializing(n))
  <2> DEFINE s == IF chkCall[c].mode = "reuse" THEN "create" ELSE "look"
  <2>1. s \in W!Steps /\ W!Go(c, s)
    BY <1>4 DEF W!Registers, W!Steps
  <2>2. /\ Alone(c) /\ Carries(c)
        /\ chkCall'[c].step = s
    BY <1>1, <2>1, GoMoves
  <2>3. Sole'
    BY <1>1, <1>2, <1>4, <2>2 DEF Sole, Alone, Carries, W!Materializing
  <2>4. (SpawnOf(c) /\ CloseOf(c) /\ ReopenOf(c))'
    BY <1>1, <1>2, <2>2 DEF Carries, SpawnOf, CloseOf, ReopenOf, SpawnSteps, W!Errands, W!Modes
  <2> QED BY <1>1, <2>2, <2>3, <2>4, CallOnly
<1> QED BY <1>3, <1>4

LEMMA LooksKeeps ==
  ASSUME W!CheckoutsAssumption, CheckoutInv, NEW c \in CheckoutCalls, W!Looks(c)
  PROVE  CheckoutInv'
<1> DEFINE n == chkCall[c].name
            b == chkCall[c].branch
<1> USE DEF CheckoutInv
<1>1. /\ chkCall[c] # NoOwner /\ chkCall[c].step = "look" /\ chkCall[c] \in W!Errands /\ n \in Names
      /\ UNCHANGED <<W!disk, chkHeld, chkUp, chkOps, chkMishaps, chkHand>>
  BY DEF W!Looks, W!At, W!Fine, W!TypeOK, W!Errands
<1>2. chkCall[c].op \in {"spawn", "reopen"} /\ SpawnOf(c) /\ ReopenOf(c)
  BY <1>1 DEF CheckoutCallInv, CloseOf, CloseSteps, W!Errands
<1>3. CASE W!Over(c)
  <2>1. Alone(c) /\ chkCall'[c] = NoOwner
    BY <1>3, OverMoves
  <2>2. Sole'
    BY <1>1, <2>1, SoleGoes
  <2> QED BY <1>1, <1>2, <2>1, <2>2, CallOnly
<1>4. ASSUME NEW s \in W!Steps, W!Go(c, s),
             \/ s \in {"add", "add -b"}
             \/ chkPath[n] # "none" /\ chkRegistry[n] = b /\ s = W!Then(c)
      PROVE  CheckoutInv'
  <2>1. Alone(c) /\ Carries(c) /\ chkCall'[c].step = s
    BY <1>1, <1>4, GoMoves
  <2>2. Sole'
    BY <1>1, <2>1, SoleGoes
  <2>3. UNCHANGED <<chkRec, chkPath, chkRegistry, chkHand, chkHeld>>
    BY <1>1 DEF W!disk
  <2>4. chkPath[n] # "none" /\ n \notin chkHand => chkPath[n] \in W!Trees
    BY <1>1 DEF PathInv, PathOf
  <2>5. (SpawnOf(c) /\ CloseOf(c) /\ ReopenOf(c))'
    <3>1. CASE chkCall[c].op = "spawn"
      BY <1>1, <1>2, <1>4, <2>1, <2>3, <2>4, <3>1
         DEF Carries, SpawnOf, CloseOf, ReopenOf, SpawnSteps, W!Then, On
    <3>2. CASE chkCall[c].op = "reopen"
      BY <1>1, <1>2, <1>4, <2>1, <2>3, <2>4, <3>2
         DEF Carries, SpawnOf, CloseOf, ReopenOf, ReopenSteps, W!Then, On, W!Managed
    <3> QED BY <1>2, <3>1, <3>2
  <2> QED BY <1>1, <2>1, <2>2, <2>5, CallOnly
<1>5. W!Then(c) \in W!Steps /\ "add" \in W!Steps /\ "add -b" \in W!Steps
  BY DEF W!Then, W!Steps
<1> QED BY <1>3, <1>4, <1>5 DEF W!Looks

\* What the facts about a path say.
LEMMA AssessmentsTell ==
  ASSUME W!TypeOK, NEW n \in Names, NEW a \in W!Assessments(n)
  PROVE  /\ a \in {"deleted", "error", "eligible", "retained-dirty", "retained-unmerged"}
         /\ a = "deleted" => chkPath[n] = "none" /\ chkRegistry[n] = NoOwner
<1>1. chkPath[n] \in {"none", "plain", "clean", "dirty", "unmerged"}
  BY DEF W!TypeOK, W!Trees, W!Work
<1>2. CASE chkPath[n] = "none" /\ chkRegistry[n] = NoOwner
  BY <1>2 DEF W!Assessments
<1>3. CASE chkPath[n] = "none" /\ chkRegistry[n] # NoOwner
  BY <1>3 DEF W!Assessments
<1>4. CASE chkPath[n] \in {"plain", "clean", "dirty", "unmerged"}
  BY <1>4 DEF W!Assessments
<1> QED BY <1>1, <1>2, <1>3, <1>4

LEMMA AssessesKeeps ==
  ASSUME W!CheckoutsAssumption, CheckoutInv, NEW c \in CheckoutCalls, W!Assesses(c)
  PROVE  CheckoutInv'
<1> DEFINE n == chkCall[c].name
<1> USE DEF CheckoutInv
<1>1. /\ chkCall[c] # NoOwner /\ chkCall[c].step = "assess" /\ chkCall[c] \in W!Errands /\ n \in Names
      /\ UNCHANGED <<W!disk, chkHeld, chkUp, chkOps, chkMishaps, chkHand>>
  BY DEF W!Assesses, W!At, W!Fine, W!TypeOK, W!Errands
<1>2. chkCall[c].op = "close" /\ CloseOf(c)
  BY <1>1 DEF CheckoutCallInv, SpawnOf, ReopenOf, SpawnSteps, ReopenSteps, W!Errands
<1>3. PICK a \in W!Assessments(n) : IF a = "eligible" THEN W!Go(c, "remove")
                                  ELSE IF a = "error" THEN W!Go(c, "again") ELSE W!Settled(c, a)
  BY DEF W!Assesses
<1>4. UNCHANGED <<chkRec, chkPath, chkRegistry, chkHand, chkHeld>>
  BY <1>1 DEF W!disk
<1>5. CASE a \in {"eligible", "error"}
  <2> DEFINE s == IF a = "eligible" THEN "remove" ELSE "again"
  <2>1. s \in W!Steps /\ W!Go(c, s)
    BY <1>3, <1>5 DEF W!Steps
  <2>2. Alone(c) /\ Carries(c) /\ chkCall'[c].step = s
    BY <1>1, <2>1, GoMoves
  <2>3. Sole'
    BY <1>1, <1>2, <2>2, SoleGoes
  <2>4. (SpawnOf(c) /\ CloseOf(c) /\ ReopenOf(c))'
    BY <1>1, <1>2, <1>4, <2>2 DEF Carries, SpawnOf, CloseOf, ReopenOf, CloseSteps, On, W!Managed
  <2> QED BY <1>1, <2>2, <2>3, <2>4, CallOnly
<1>6. CASE a \notin {"eligible", "error"}
  <2>1. a \in {"deleted", "retained-dirty", "retained-unmerged"} /\ (a = "deleted" => chkPath[n] = "none" /\ chkRegistry[n] = NoOwner)
    BY <1>1, <1>3, <1>6, AssessmentsTell
  <2>2. a \in W!States /\ W!Settled(c, a)
    BY <1>3, <1>6, <2>1 DEF W!States
  <2>3. Alone(c) /\ Carries(c) /\ chkCall'[c].step = "record" /\ chkCall'[c].state = a
    BY <1>1, <2>2, SettledMoves
  <2>4. Sole'
    BY <1>1, <1>2, <2>3, SoleGoes
  <2>5. (SpawnOf(c) /\ CloseOf(c) /\ ReopenOf(c))'
    BY <1>1, <1>2, <1>4, <2>1, <2>2, <2>3 DEF Carries, SpawnOf, CloseOf, ReopenOf, CloseSteps, On,
       W!Managed
  <2> QED BY <1>1, <2>3, <2>4, <2>5, CallOnly
<1> QED BY <1>5, <1>6

LEMMA AssessesAgainKeeps ==
  ASSUME W!CheckoutsAssumption, CheckoutInv, NEW c \in CheckoutCalls, W!AssessesAgain(c)
  PROVE  CheckoutInv'
<1> DEFINE n == chkCall[c].name
<1> USE DEF CheckoutInv
<1>1. /\ chkCall[c] # NoOwner /\ chkCall[c].step = "again" /\ chkCall[c] \in W!Errands /\ n \in Names
      /\ UNCHANGED <<W!disk, chkHeld, chkUp, chkOps, chkMishaps, chkHand>>
  BY DEF W!AssessesAgain, W!At, W!Fine, W!TypeOK, W!Errands
<1>2. chkCall[c].op = "close" /\ CloseOf(c)
  BY <1>1 DEF CheckoutCallInv, SpawnOf, ReopenOf, SpawnSteps, ReopenSteps, W!Errands
<1>3. PICK a \in W!Assessments(n) : W!Settled(c, IF a \in {"eligible", "error"} THEN "retained-error" ELSE a)
  BY DEF W!AssessesAgain
<1> DEFINE s == IF a \in {"eligible", "error"} THEN "retained-error" ELSE a
<1>4. UNCHANGED <<chkRec, chkPath, chkRegistry, chkHand, chkHeld>>
  BY <1>1 DEF W!disk
<1>5. /\ s \in {"deleted", "retained-dirty", "retained-unmerged", "retained-error"}
      /\ s = "deleted" => chkPath[n] = "none" /\ chkRegistry[n] = NoOwner
  BY <1>1, AssessmentsTell
<1>6. s \in W!States
  BY <1>5 DEF W!States
<1>7. Alone(c) /\ Carries(c) /\ chkCall'[c].step = "record" /\ chkCall'[c].state = s
  BY <1>1, <1>3, <1>6, SettledMoves
<1>8. Sole'
  BY <1>1, <1>2, <1>7, SoleGoes
<1>9. (SpawnOf(c) /\ CloseOf(c) /\ ReopenOf(c))'
  BY <1>1, <1>2, <1>4, <1>5, <1>6, <1>7 DEF Carries, SpawnOf, CloseOf, ReopenOf, CloseSteps, On,
     W!Managed
<1> QED BY <1>1, <1>7, <1>8, <1>9, CallOnly

\* A spawn that begins knows nothing of its name.
LEMMA AllocatesKeeps ==
  ASSUME W!CheckoutsAssumption, CheckoutInv, NEW c \in CheckoutCalls, W!Allocates(c)
  PROVE  CheckoutInv'
<1> USE DEF CheckoutInv
<1>1. PICK n \in Names, r \in W!Asks :
        W!Begin(c, [op |-> "spawn", name |-> n, step |-> "named", branch |-> W!BranchOf(n, r),
                    mode |-> r.mode, cleanup |-> r.cleanup, state |-> NoOwner])
  BY DEF W!Allocates
<1> DEFINE it == [op |-> "spawn", name |-> n, step |-> "named", branch |-> W!BranchOf(n, r),
                  mode |-> r.mode, cleanup |-> r.cleanup, state |-> NoOwner]
<1>2. it \in W!Errands
  BY DEF W!Errands, W!Asks, W!BranchOf, W!Branches, W!Modes, W!Cleanups, W!Steps
<1>3. /\ Alone(c) /\ chkCall'[c] # NoOwner /\ chkUp /\ chkCall[c] = NoOwner /\ chkOps' \in 0..MaxOps
      /\ chkCall'[c].op = "spawn" /\ chkCall'[c].step = "named"
  BY <1>1, <1>2, BeginMoves
<1>a. UNCHANGED <<chkRec, chkPath, chkRegistry, chkBranches, chkHeld, chkUp, chkMishaps, chkHand>>
  BY DEF W!Allocates, W!disk
<1>4. W!TypeOK' /\ Shapes'
  BY <1>a, <1>3 DEF W!TypeOK, Shapes, Alone
<1>5. CheckoutCallInv'
  <2> SUFFICES ASSUME NEW d \in CheckoutCalls, chkCall'[d] # NoOwner
               PROVE  chkUp' /\ (SpawnOf(d) /\ CloseOf(d) /\ ReopenOf(d))'
    BY DEF CheckoutCallInv
  <2>1. CASE d = c
    <3>1. (SpawnOf(c) /\ CloseOf(c) /\ ReopenOf(c))'
      BY <1>3 DEF SpawnOf, CloseOf, ReopenOf, SpawnSteps
    <3> QED BY <1>a, <1>3, <2>1, <3>1
  <2>2. CASE d # c
    <3>1. chkCall'[d] = chkCall[d] /\ SpawnOf(d) /\ CloseOf(d) /\ ReopenOf(d)
      BY <1>3, <2>2 DEF Alone, CheckoutCallInv
    <3> QED BY <1>a, <1>3, <3>1 DEF SpawnOf, CloseOf, ReopenOf, On, W!Managed
  <2> QED BY <2>1, <2>2
<1>6. Sole'
  BY <1>3 DEF Sole, Alone
<1>7. PathInv'
  BY <1>a, <1>3 DEF PathInv, PathOf, Alone, On, W!Managed
<1>8. W!BranchesAreExclusive'
  BY <1>a DEF W!BranchesAreExclusive
<1> QED BY <1>4, <1>5, <1>6, <1>7, <1>8

\* A close or a reopen that begins is the only one at its name.
LEMMA ErrandBegins ==
  ASSUME W!CheckoutsAssumption, CheckoutInv, NEW c \in CheckoutCalls, NEW n \in Names, ~W!Busy(n),
         NEW it \in W!Errands, it.op \in {"close", "reopen"}, it.name = n, W!Begin(c, it),
         UNCHANGED <<W!disk, chkUp, chkMishaps, chkHand>>,
         chkHeld' \in [Names -> {"no", "idle", "running", "closing"}],
         \A m \in Names : /\ m # n => chkHeld'[m] = chkHeld[m]
                          /\ chkHeld'[m] # "no" => chkHeld[m] # "no"
                          /\ chkHeld'[m] # "closing" => chkHeld[m] # "closing" /\ chkHeld'[m] = chkHeld[m],
         it.op = "close" <=> chkHeld'[n] = "closing",
         (CloseOf(c) /\ ReopenOf(c))'
  PROVE  CheckoutInv'
<1> USE DEF CheckoutInv
<1>3. /\ Alone(c) /\ chkCall'[c] = it /\ chkCall'[c] # NoOwner /\ chkUp /\ chkCall[c] = NoOwner /\ chkOps' \in 0..MaxOps
  BY BeginMoves
<1>a. UNCHANGED <<chkRec, chkPath, chkRegistry, chkBranches, chkUp, chkMishaps, chkHand>>
  BY DEF W!disk
<1>4. W!TypeOK' /\ Shapes'
  BY <1>a, <1>3 DEF W!TypeOK, Shapes, Alone
<1>5. CheckoutCallInv'
  <2> SUFFICES ASSUME NEW d \in CheckoutCalls, chkCall'[d] # NoOwner
               PROVE  chkUp' /\ (SpawnOf(d) /\ CloseOf(d) /\ ReopenOf(d))'
    BY DEF CheckoutCallInv
  <2>1. CASE d = c
    <3>1. SpawnOf(c)'
      BY <1>3 DEF SpawnOf
    <3> QED BY <1>a, <1>3, <2>1, <3>1
  <2>2. CASE d # c
    <3>1. chkCall'[d] = chkCall[d] /\ SpawnOf(d) /\ CloseOf(d) /\ ReopenOf(d) /\ chkCall[d].name \in Names
      BY <1>3, <2>2 DEF Alone, CheckoutCallInv, W!TypeOK, W!Errands
    <3>2. chkCall[d].op # "spawn" => chkCall[d].name # n
      BY <3>1 DEF W!Busy
    <3>3. SpawnOf(d)'
      BY <1>a, <3>1 DEF SpawnOf, On
    <3>4. chkCall[d].op # "spawn" => chkHeld'[chkCall[d].name] = chkHeld[chkCall[d].name]
      BY <3>1, <3>2
    <3>5. (CloseOf(d) /\ ReopenOf(d))'
      BY <1>a, <3>1, <3>4 DEF CloseOf, ReopenOf, On, W!Managed
    <3> QED BY <1>a, <1>3, <3>3, <3>5
  <2> QED BY <2>1, <2>2
<1>6. Sole'
  BY <1>3 DEF Sole, Alone, W!Busy
<1>7. PathInv'
  <2> SUFFICES ASSUME NEW m \in Names
               PROVE  PathOf(m)'
    BY DEF PathInv
  <2>1. PathOf(m)
    BY DEF PathInv
  <2>2. ASSUME NEW d \in CheckoutCalls, chkCall[d] # NoOwner, chkCall[d].op = "close", chkCall[d].name = m
        PROVE  \E e \in CheckoutCalls : chkCall'[e] # NoOwner /\ chkCall'[e].op = "close" /\ chkCall'[e].name = m
    BY <1>3, <2>2 DEF Alone
  <2>3. m = n /\ chkHeld'[n] = "closing" => \E e \in CheckoutCalls : chkCall'[e] # NoOwner /\ chkCall'[e].op = "close" /\ chkCall'[e].name = m
    BY <1>3
  <2> QED BY <1>a, <2>1, <2>2, <2>3 DEF PathOf, On, W!Managed
<1>8. W!BranchesAreExclusive'
  BY <1>a DEF W!BranchesAreExclusive
<1> QED BY <1>4, <1>5, <1>6, <1>7, <1>8

LEMMA ClosesKeeps ==
  ASSUME W!CheckoutsAssumption, CheckoutInv, NEW c \in CheckoutCalls, W!Closes(c)
  PROVE  CheckoutInv'
<1> USE DEF CheckoutInv
<1>1. PICK n \in Names :
       /\ chkHeld[n] # "no" /\ ~W!Busy(n)
       /\ chkHeld' = [chkHeld EXCEPT ![n] = "closing"]
       /\ W!Begin(c, [op |-> "close", name |-> n, branch |-> chkRec[n].branch, mode |-> chkRec[n].mode,
                      cleanup |-> chkRec[n].cleanup, state |-> chkRec[n].state,
                      step |-> IF W!Managed(n) /\ chkRec[n].cleanup = "delete-on-close"
                               THEN "assess" ELSE "record"])
  BY DEF W!Closes
<1> DEFINE it == [op |-> "close", name |-> n, branch |-> chkRec[n].branch, mode |-> chkRec[n].mode,
                    cleanup |-> chkRec[n].cleanup, state |-> chkRec[n].state,
                    step |-> IF W!Managed(n) /\ chkRec[n].cleanup = "delete-on-close"
                             THEN "assess" ELSE "record"]
<1>2. /\ chkRec[n] # NoOwner /\ chkRec[n] \in W!Identities /\ ~chkRec[n].closed
      /\ UNCHANGED <<W!disk, chkUp, chkMishaps, chkHand>> /\ UNCHANGED <<chkRec, chkPath, chkRegistry>>
  BY <1>1 DEF W!TypeOK, W!Closes, W!disk
<1>3. /\ it \in W!Errands /\ it.op = "close" /\ it.name = n /\ it.branch = chkRec[n].branch
      /\ it.state = chkRec[n].state
      /\ it.step = IF W!Managed(n) /\ chkRec[n].cleanup = "delete-on-close" THEN "assess" ELSE "record"
  BY <1>2 DEF W!Errands, W!Identities, W!Steps
<1>4. /\ chkHeld' \in [Names -> {"no", "idle", "running", "closing"}]
      /\ \A m \in Names : chkHeld'[m] = IF m = n THEN "closing" ELSE chkHeld[m]
  BY <1>1 DEF Shapes
<1>5. chkCall'[c] = it
  BY <1>1, <1>3, BeginMoves
<1>6. PathOf(n)
  BY DEF PathInv
<1>7. n \notin chkHand => chkHeld[n] # "closing"
  BY <1>1, <1>6 DEF PathOf, W!Busy
<1>8. (CloseOf(c) /\ ReopenOf(c))'
  BY <1>2, <1>3, <1>4, <1>5, <1>6, <1>7 DEF CloseOf, ReopenOf, CloseSteps, PathOf, On, W!Managed,
     W!Identities
<1> QED BY <1>1, <1>2, <1>3, <1>4, <1>8, ErrandBegins

LEMMA ReopensKeeps ==
  ASSUME W!CheckoutsAssumption, CheckoutInv, NEW c \in CheckoutCalls, W!Reopens(c)
  PROVE  CheckoutInv'
<1> USE DEF CheckoutInv
<1>1. PICK n \in Names :
       /\ chkHeld[n] = "no" /\ ~W!Busy(n) /\ ~W!Materializing(n)
       /\ chkRec[n] # NoOwner /\ chkRec[n].readable /\ chkRec[n].closed
       /\ W!Begin(c, [op |-> "reopen", name |-> n, branch |-> chkRec[n].branch, mode |-> chkRec[n].mode,
                      cleanup |-> chkRec[n].cleanup, state |-> chkRec[n].state,
                      step |-> IF W!Reprepares(n) THEN "look" ELSE "start"])
  BY DEF W!Reopens
<1> DEFINE it == [op |-> "reopen", name |-> n, branch |-> chkRec[n].branch, mode |-> chkRec[n].mode,
                    cleanup |-> chkRec[n].cleanup, state |-> chkRec[n].state,
                    step |-> IF W!Reprepares(n) THEN "look" ELSE "start"]
<1>2. /\ chkRec[n] # NoOwner /\ chkRec[n] \in W!Identities
      /\ UNCHANGED <<W!disk, chkHeld, chkUp, chkMishaps, chkHand>> /\ UNCHANGED <<chkRec, chkPath, chkRegistry>>
  BY <1>1 DEF W!TypeOK, W!Reopens, W!disk
<1>3. /\ it \in W!Errands /\ it.op = "reopen" /\ it.name = n /\ it.branch = chkRec[n].branch
      /\ it.step = IF W!Reprepares(n) THEN "look" ELSE "start"
  BY <1>2 DEF W!Errands, W!Identities, W!Steps
<1>4. chkCall'[c] = it
  BY <1>1, <1>3, BeginMoves
<1>5. PathOf(n)
  BY DEF PathInv
<1>6. (CloseOf(c) /\ ReopenOf(c))'
  BY <1>1, <1>2, <1>3, <1>4, <1>5 DEF CloseOf, ReopenOf, ReopenSteps, PathOf, W!Managed,
     W!Reprepares
<1> QED BY <1>1, <1>2, <1>3, <1>6, ErrandBegins DEF Shapes

LEMMA MaterializesKeeps ==
  ASSUME W!CheckoutsAssumption, CheckoutInv, NEW n \in Names, W!Materializes(n) \/ W!Runs(n)
  PROVE  CheckoutInv'
<1> USE DEF CheckoutInv
<1>1. /\ UNCHANGED <<chkRec, chkPath, chkRegistry, chkBranches, chkUp, chkCall, chkOps, chkMishaps, chkHand>>
      /\ ~W!Busy(n) /\ chkUp /\ chkRec[n] # NoOwner /\ ~chkRec[n].closed /\ chkHeld[n] # "closing"
      /\ chkHeld' \in [Names -> {"no", "idle", "running", "closing"}]
      /\ \A m \in Names : m # n => chkHeld'[m] = chkHeld[m]
      /\ chkHeld'[n] \in {"idle", "running"}
  BY DEF W!Materializes, W!Runs, W!Fine, W!disk, W!TypeOK, Shapes
<1>2. W!TypeOK' /\ Shapes'
  BY <1>1 DEF W!TypeOK, Shapes
<1>3. CheckoutCallInv'
  <2> SUFFICES ASSUME NEW d \in CheckoutCalls, chkCall[d] # NoOwner
               PROVE  chkUp' /\ (SpawnOf(d) /\ CloseOf(d) /\ ReopenOf(d))'
    BY <1>1 DEF CheckoutCallInv
  <2>1. SpawnOf(d) /\ CloseOf(d) /\ ReopenOf(d) /\ chkCall[d].name \in Names
    BY DEF CheckoutCallInv, W!TypeOK, W!Errands
  <2>2. chkCall[d].op # "spawn" => chkHeld'[chkCall[d].name] = chkHeld[chkCall[d].name]
    BY <1>1, <2>1 DEF W!Busy
  <2>3. SpawnOf(d)'
    BY <1>1, <2>1 DEF SpawnOf, On
  <2>4. (CloseOf(d) /\ ReopenOf(d))'
    BY <1>1, <2>1, <2>2 DEF CloseOf, ReopenOf, On, W!Managed
  <2> QED BY <1>1, <2>3, <2>4
<1>4. Sole'
  BY <1>1 DEF Sole
<1>5. PathInv'
  BY <1>1 DEF PathInv, PathOf, On, W!Managed
<1>6. W!BranchesAreExclusive'
  BY <1>1 DEF W!BranchesAreExclusive
<1> QED BY <1>2, <1>3, <1>4, <1>5, <1>6

\* What a call does at its name is nothing to the calls at other names, and at its own there
\* is none that minds.
LEMMA OthersKeep ==
  ASSUME W!CheckoutsAssumption, CheckoutInv, NEW c \in CheckoutCalls, chkCall[c] # NoOwner, Alone(c), chkUp' = chkUp,
         NEW n \in Names, chkCall[c].name = n,
         chkCall[c].op = "spawn" => chkCall[c].step # "named",
         \A m \in Names : m # n => /\ chkRec'[m] = chkRec[m] /\ chkPath'[m] = chkPath[m]
                                   /\ chkRegistry'[m] = chkRegistry[m] /\ chkHeld'[m] = chkHeld[m]
                                   /\ (m \in chkHand' <=> m \in chkHand),
         chkRec[n] # NoOwner => chkRec'[n] # NoOwner,
         chkCall[c].op = "spawn" /\ chkRec[n] # NoOwner =>
           n \in chkHand' /\ chkRec'[n] = chkRec[n] /\ chkHeld'[n] = chkHeld[n]
  PROVE  /\ \A d \in CheckoutCalls : d # c /\ chkCall'[d] # NoOwner =>
              chkUp' /\ (SpawnOf(d) /\ CloseOf(d) /\ ReopenOf(d))'
         /\ \A m \in Names : m # n => PathOf(m)'
<1> USE DEF CheckoutInv
<1>1. ASSUME NEW d \in CheckoutCalls, d # c, chkCall'[d] # NoOwner
      PROVE  chkUp' /\ (SpawnOf(d) /\ CloseOf(d) /\ ReopenOf(d))'
  <2>1. /\ chkCall'[d] = chkCall[d] /\ chkCall[d] # NoOwner /\ chkCall[d].name \in Names /\ chkUp'
        /\ SpawnOf(d) /\ CloseOf(d) /\ ReopenOf(d) /\ chkCall[d].op \in {"spawn", "close", "reopen"}
    BY <1>1 DEF Alone, CheckoutCallInv, W!TypeOK, W!Errands
  <2>2. CASE chkCall[d].name # n
    <3>1. SpawnOf(d)'
      BY <2>1, <2>2 DEF SpawnOf, On
    <3>2. CloseOf(d)'
      BY <2>1, <2>2 DEF CloseOf, On, W!Managed
    <3>3. ReopenOf(d)'
      BY <2>1, <2>2 DEF ReopenOf, On, W!Managed
    <3> QED BY <2>1, <3>1, <3>2, <3>3
  <2>3. CASE chkCall[d].name = n
    <3>1. /\ CloseOf(c) /\ ReopenOf(c)
          /\ chkCall[c].op \in {"spawn", "close", "reopen"}
          /\ \/ chkCall[c].op = "spawn" /\ chkCall[d].op # "spawn"
             \/ chkCall[d].op = "spawn" /\ (chkCall[d].step = "named" \/ chkCall[c].op # "spawn")
      BY <1>1, <2>1, <2>3 DEF Sole, CheckoutCallInv, W!TypeOK, W!Errands
    <3>2. CASE chkRec[n] = NoOwner
      <4>1. chkCall[d].op = "spawn" /\ chkCall[c].op = "spawn"
        BY <2>1, <2>3, <3>1, <3>2 DEF CloseOf, ReopenOf
      <4> QED BY <2>1, <2>3, <3>1, <4>1 DEF SpawnOf, CloseOf, ReopenOf
    <3>3. CASE chkRec[n] # NoOwner /\ chkCall[d].op = "spawn"
      BY <2>1, <2>3, <3>3 DEF SpawnOf, CloseOf, ReopenOf
    <3>4. CASE chkRec[n] # NoOwner /\ chkCall[d].op # "spawn"
      <4>1. n \in chkHand' /\ chkRec'[n] = chkRec[n] /\ chkHeld'[n] = chkHeld[n]
        BY <3>1, <3>4
      <4>2. SpawnOf(d)'
        BY <2>1, <3>4 DEF SpawnOf
      <4>3. CloseOf(d)'
        BY <2>1, <2>3, <4>1 DEF CloseOf, W!Managed
      <4>4. ReopenOf(d)'
        BY <2>1, <2>3, <4>1 DEF ReopenOf, W!Managed
      <4> QED BY <2>1, <4>2, <4>3, <4>4
    <3> QED BY <3>2, <3>3, <3>4
  <2> QED BY <2>2, <2>3
<1>2. ASSUME NEW m \in Names, m # n
      PROVE  PathOf(m)'
  <2>1. PathOf(m)
    BY DEF PathInv
  <2>2. ASSUME NEW d \in CheckoutCalls, chkCall[d] # NoOwner, chkCall[d].op = "close", chkCall[d].name = m
        PROVE  \E e \in CheckoutCalls : chkCall'[e] # NoOwner /\ chkCall'[e].op = "close" /\ chkCall'[e].name = m
    BY <1>2, <2>2 DEF Alone
  <2> QED BY <1>2, <2>1, <2>2 DEF PathOf, On, W!Managed
<1> QED BY <1>1, <1>2

\* The parts of PathOf after a step that leaves no close at n behind.
LEMMA PathIs ==
  ASSUME NEW n \in Names, chkHeld'[n] # "closing",
         n \notin chkHand' => (chkPath'[n] = "none" /\ chkRegistry'[n] = NoOwner) \/ (chkPath'[n] \in W!Trees /\ chkRegistry'[n] \in W!Branches),
         chkRec'[n] # NoOwner => (chkRec'[n].mode # "managed" <=> chkRec'[n].state = "not-managed"),
         chkRec'[n] # NoOwner /\ ~chkRec'[n].closed => chkRec'[n].state # "deleted",
         chkRec'[n] # NoOwner /\ chkRec'[n].mode = "managed" /\ n \notin chkHand' /\ chkRec'[n].state # "deleted" =>
           chkPath'[n] \in W!Trees /\ chkRegistry'[n] = chkRec'[n].branch
  PROVE  PathOf(n)'
<1>1. (n \notin chkHand => (chkPath[n] = "none" /\ chkRegistry[n] = NoOwner) \/ (chkPath[n] \in W!Trees /\ chkRegistry[n] \in W!Branches))'
  OBVIOUS
<1>2. (chkRec[n] # NoOwner => (~W!Managed(n) <=> chkRec[n].state = "not-managed"))'
  BY DEF W!Managed
<1>3. (chkRec[n] # NoOwner /\ W!Managed(n) /\ n \notin chkHand /\ chkRec[n].state # "deleted" => On(n, chkRec[n].branch))'
  BY DEF W!Managed, On
<1> QED BY <1>1, <1>2, <1>3 DEF PathOf

LEMMA PathGathers ==
  ASSUME NEW n \in Names, PathOf(n)', \A m \in Names : m # n => PathOf(m)'
  PROVE  PathInv'
<1> SUFFICES ASSUME NEW m \in Names
             PROVE  PathOf(m)'
  BY DEF PathInv
<1>1. CASE m = n
  BY <1>1
<1>2. CASE m # n
  BY <1>2
<1> QED BY <1>1, <1>2

LEMMA AddsKeeps ==
  ASSUME W!CheckoutsAssumption, CheckoutInv, NEW c \in CheckoutCalls, W!Adds(c)
  PROVE  CheckoutInv'
<1>0. PICK n \in Names : chkCall[c].name = n
  BY DEF CheckoutInv, W!Adds, W!At, W!TypeOK, W!Errands
<1> USE <1>0
<1> DEFINE b == chkCall[c].branch
<1> USE DEF CheckoutInv
<1>1. /\ chkCall[c] # NoOwner /\ chkCall[c].step \in {"add", "add -b"} /\ chkCall[c] \in W!Errands
      /\ n \in Names /\ b \in W!Branches
      /\ UNCHANGED <<chkRec, chkHeld, chkUp, chkOps, chkMishaps>>
  BY DEF W!Adds, W!At, W!TypeOK, W!Errands
<1>2. /\ chkCall[c].op \in {"spawn", "reopen"} /\ SpawnOf(c) /\ ReopenOf(c)
  BY <1>1 DEF CheckoutCallInv, CloseOf, CloseSteps, W!Errands
<1>3. CASE ~W!Addable(n, b, chkCall[c].step)
  <2>1. W!Over(c) /\ UNCHANGED <<chkPath, chkRegistry, chkBranches, chkHand>>
    BY <1>3 DEF W!Adds
  <2>2. Alone(c) /\ chkCall'[c] = NoOwner
    BY <2>1, OverMoves
  <2>3. Sole'
    BY <1>1, <2>2, SoleGoes
  <2> QED BY <1>1, <1>2, <2>1, <2>2, <2>3, CallOnly DEF W!disk
<1>4. CASE W!Addable(n, b, chkCall[c].step)
  <2>1. /\ chkPath' = [chkPath EXCEPT ![n] = "clean"] /\ chkRegistry' = [chkRegistry EXCEPT ![n] = b]
        /\ chkBranches' = chkBranches \cup {b} /\ W!Go(c, W!Then(c))
        /\ chkHand' = IF chkRec[n] = NoOwner \/ chkCall[c].op = "reopen" THEN chkHand \ {n} ELSE chkHand \cup {n}
    BY <1>4 DEF W!Adds
  <2>2. W!Then(c) \in W!Steps /\ W!Then(c) = IF chkCall[c].op = "spawn" THEN "create" ELSE "patch"
    BY DEF W!Then, W!Steps
  <2>3. Alone(c) /\ Carries(c) /\ chkCall'[c].step = W!Then(c)
    BY <1>1, <2>1, <2>2, GoMoves
  <2>4. Sole'
    BY <1>1, <2>3, SoleGoes
  <2>5. /\ \A m \in Names : /\ chkPath'[m] = IF m = n THEN "clean" ELSE chkPath[m]
                            /\ chkRegistry'[m] = IF m = n THEN b ELSE chkRegistry[m]
        /\ chkPath' \in [Names -> {"none", "plain"} \cup W!Trees]
        /\ chkRegistry' \in [Names -> {NoOwner, "detached"} \cup W!Branches]
    BY <1>1, <2>1 DEF Shapes, W!Trees
  <2>6. \A m \in Names : m # n => (m \in chkHand' <=> m \in chkHand)
    BY <2>1
  <2>7. chkHand' \subseteq Names /\ chkBranches' \subseteq W!Branches
    BY <1>1, <2>1 DEF W!TypeOK
  <2>8. /\ \A d \in CheckoutCalls : d # c /\ chkCall'[d] # NoOwner =>
             chkUp' /\ (SpawnOf(d) /\ CloseOf(d) /\ ReopenOf(d))'
        /\ \A m \in Names : m # n => PathOf(m)'
    <3>1. chkCall[c].op = "spawn" /\ chkRec[n] # NoOwner => n \in chkHand'
      BY <2>1
    <3>2. chkUp' = chkUp /\ chkRec' = chkRec /\ chkHeld' = chkHeld /\ chkCall[c].step # "named"
      BY <1>1
    <3> QED BY <1>1, <2>3, <2>5, <2>6, <3>1, <3>2, OthersKeep
  <2>9. W!TypeOK' /\ Shapes'
    <3>1. \A m \in Names : chkPath'[m] \in {"none", "plain"} \cup W!Trees
      BY <2>5
    <3>2. \A m \in Names : chkRegistry'[m] \in {NoOwner, "detached"} \cup chkBranches'
      BY <2>1, <2>5 DEF W!TypeOK
    <3>3. /\ chkRec' \in [Names -> W!Identities \cup {NoOwner}] /\ chkCall' \in [CheckoutCalls -> W!Errands \cup {NoOwner}]
          /\ chkHeld' = chkHeld /\ chkRec' = chkRec /\ chkUp' = chkUp
      BY <1>1, <2>3 DEF W!TypeOK, Alone
    <3>4. W!TypeOK'
      BY <2>7, <3>1, <3>2, <3>3 DEF W!TypeOK
    <3> QED BY <1>1, <2>5, <3>4 DEF Shapes
  <2>10. (SpawnOf(c) /\ CloseOf(c) /\ ReopenOf(c))'
    BY <1>1, <1>2, <2>2, <2>3, <2>5
       DEF Carries, SpawnOf, CloseOf, ReopenOf, SpawnSteps, ReopenSteps, On, W!Managed, W!Trees
  <2>11. CheckoutCallInv'
    BY <1>1, <2>8, <2>10 DEF CheckoutCallInv
  <2>12. PathOf(n)'
    <3>1. n \notin chkHand' => chkRec[n] = NoOwner \/ chkCall[c].op = "reopen"
      BY <2>1
    <3>2. PathOf(n) /\ (chkHeld[n] # "no" => chkRec[n] # NoOwner)
      BY <1>1 DEF PathInv, W!TypeOK
    <3>3. /\ chkPath'[n] = "clean" /\ "clean" \in W!Trees /\ chkRegistry'[n] = b
          /\ chkRec'[n] = chkRec[n] /\ chkHeld'[n] = chkHeld[n]
      BY <1>1, <2>5 DEF W!Trees
    <3>4. chkCall[c].op = "reopen" => chkRec[n].closed /\ chkHeld[n] = "no" /\ b = chkRec[n].branch
      BY <1>2 DEF ReopenOf
    <3>5. CASE chkHeld[n] = "closing"
      <4>1. chkRec[n] # NoOwner /\ chkCall[c].op = "spawn" /\ n \in chkHand'
        BY <1>2, <3>1, <3>2, <3>4, <3>5
      <4> QED BY <3>2, <3>3, <3>5, <4>1 DEF PathOf, W!Managed
    <3>6. CASE chkHeld[n] # "closing"
      <4>1. chkRec[n] # NoOwner => (chkRec[n].mode # "managed" <=> chkRec[n].state = "not-managed")
        BY <3>2 DEF PathOf, W!Managed
      <4>2. chkRec[n] # NoOwner /\ ~chkRec[n].closed => chkRec[n].state # "deleted"
        BY <3>2 DEF PathOf
      <4>3. chkRec[n] # NoOwner /\ n \notin chkHand' => chkRegistry'[n] = chkRec[n].branch
        BY <3>1, <3>3, <3>4
      <4> HIDE DEF b
      <4> QED BY <1>1, <3>3, <3>6, <4>1, <4>2, <4>3, PathIs
    <3> QED BY <3>5, <3>6
  <2>13. PathInv'
    BY <1>1, <2>8, <2>12, PathGathers
  <2>14. W!BranchesAreExclusive'
    <3>1. \A m \in Names : chkRegistry[m] \in W!Branches => chkRegistry[m] # b
      BY <1>1, <1>4 DEF W!Addable, W!TypeOK, W!CheckoutsAssumption
    <3> QED BY <2>5, <3>1 DEF W!BranchesAreExclusive
  <2> QED BY <2>4, <2>9, <2>11, <2>13, <2>14
<1> QED BY <1>3, <1>4

LEMMA RemovesKeeps ==
  ASSUME W!CheckoutsAssumption, CheckoutInv, NEW c \in CheckoutCalls, W!Removes(c)
  PROVE  CheckoutInv'
<1>0. PICK n \in Names : chkCall[c].name = n
  BY DEF CheckoutInv, W!Removes, W!At, W!TypeOK, W!Errands
<1> USE <1>0
<1> USE DEF CheckoutInv
<1>1. /\ chkCall[c] # NoOwner /\ chkCall[c].step = "remove" /\ chkCall[c] \in W!Errands /\ n \in Names
      /\ UNCHANGED <<chkRec, chkBranches, chkHeld, chkUp, chkOps>>
  BY DEF W!Removes, W!At, W!TypeOK, W!Errands
<1>2. chkCall[c].op = "close" /\ CloseOf(c)
  BY <1>1 DEF CheckoutCallInv, SpawnOf, ReopenOf, SpawnSteps, ReopenSteps, W!Errands
<1>3. CASE /\ W!Removable(n) /\ W!Settled(c, "deleted")
           /\ chkPath' = [chkPath EXCEPT ![n] = "none"] /\ chkRegistry' = [chkRegistry EXCEPT ![n] = NoOwner] /\ W!Fine
  <2>1. UNCHANGED <<chkMishaps, chkHand>> /\ "deleted" \in W!States
    BY <1>3 DEF W!Fine, W!States
  <2>2. Alone(c) /\ Carries(c) /\ chkCall'[c].step = "record" /\ chkCall'[c].state = "deleted"
    BY <1>1, <1>3, <2>1, SettledMoves
  <2>3. Sole'
    BY <1>1, <1>2, <2>2, SoleGoes
  <2>4. /\ \A m \in Names : /\ chkPath'[m] = IF m = n THEN "none" ELSE chkPath[m]
                            /\ chkRegistry'[m] = IF m = n THEN NoOwner ELSE chkRegistry[m]
        /\ chkPath' \in [Names -> {"none", "plain"} \cup W!Trees]
        /\ chkRegistry' \in [Names -> {NoOwner, "detached"} \cup W!Branches]
    BY <1>1, <1>3 DEF Shapes
  <2>5. /\ \A d \in CheckoutCalls : d # c /\ chkCall'[d] # NoOwner =>
             chkUp' /\ (SpawnOf(d) /\ CloseOf(d) /\ ReopenOf(d))'
        /\ \A m \in Names : m # n => PathOf(m)'
    <3>1. chkUp' = chkUp /\ chkRec' = chkRec /\ chkHeld' = chkHeld /\ chkHand' = chkHand /\ chkCall[c].op # "spawn"
      BY <1>1, <1>2, <2>1
    <3> QED BY <1>1, <2>2, <2>4, <3>1, OthersKeep
  <2>6. W!TypeOK' /\ Shapes'
    BY <1>1, <2>1, <2>2, <2>4 DEF W!TypeOK, Shapes, Alone
  <2>7. (SpawnOf(c) /\ CloseOf(c) /\ ReopenOf(c))'
    BY <1>1, <1>2, <2>1, <2>2, <2>4
       DEF Carries, SpawnOf, CloseOf, ReopenOf, CloseSteps, W!Managed, W!States
  <2>8. CheckoutCallInv'
    <3>1. chkUp
      BY <1>1 DEF CheckoutCallInv
    <3> QED BY <1>1, <2>5, <2>7, <3>1 DEF CheckoutCallInv
  <2>9. PathOf(n)'
    <3>1. PathOf(n)
      BY <1>1 DEF PathInv
    <3> QED BY <1>1, <1>2, <2>1, <2>2, <2>4, <3>1 DEF PathOf, On, W!Managed, CloseOf, Carries
  <2>10. PathInv'
    BY <1>1, <2>5, <2>9, PathGathers
  <2>11. W!BranchesAreExclusive'
    BY <2>4 DEF W!BranchesAreExclusive, W!CheckoutsAssumption
  <2> QED BY <2>3, <2>6, <2>8, <2>10, <2>11
<1>4. CASE W!Go(c, "again") /\ UNCHANGED <<chkPath, chkRegistry>> /\ (W!Fine \/ W!Broke(n))
  <2>1. /\ chkMishaps' \in 0..MaxSurprises /\ chkHand \subseteq chkHand' /\ chkHand' \subseteq Names
    BY <1>1, <1>4 DEF W!Fine, W!Broke, Shapes, W!TypeOK, W!CheckoutsAssumption
  <2>2. "again" \in W!Steps
    BY DEF W!Steps
  <2>3. Alone(c) /\ Carries(c) /\ chkCall'[c].step = "again"
    BY <1>1, <1>4, <2>2, GoMoves
  <2>4. Sole'
    BY <1>1, <1>2, <2>3, SoleGoes
  <2>5. (SpawnOf(c) /\ CloseOf(c) /\ ReopenOf(c))'
    BY <1>1, <1>2, <1>4, <2>1, <2>3 DEF Carries, SpawnOf, CloseOf, ReopenOf, CloseSteps, On,
       W!Managed
  <2>6. UNCHANGED <<W!disk, chkHeld, chkUp, chkOps>>
    BY <1>1, <1>4 DEF W!disk
  <2> QED BY <1>1, <2>1, <2>3, <2>4, <2>5, <2>6, CallMarks
<1> QED BY <1>3, <1>4 DEF W!Removes

LEMMA RecordsKeeps ==
  ASSUME W!CheckoutsAssumption, CheckoutInv, NEW c \in CheckoutCalls, W!Records(c)
  PROVE  CheckoutInv'
<1>0. PICK n \in Names : chkCall[c].name = n
  BY DEF CheckoutInv, W!Records, W!At, W!TypeOK, W!Errands
<1> USE <1>0
<1> USE DEF CheckoutInv
<1>1. /\ chkCall[c] # NoOwner /\ chkCall[c].step = "record" /\ chkCall[c] \in W!Errands /\ n \in Names
      /\ UNCHANGED <<chkPath, chkRegistry, chkBranches, chkUp, chkOps>> /\ W!Over(c)
  BY DEF W!Records, W!At, W!TypeOK, W!Errands
<1>2. chkCall[c].op = "close" /\ CloseOf(c) /\ chkUp
  BY <1>1 DEF CheckoutCallInv, SpawnOf, ReopenOf, SpawnSteps, ReopenSteps, W!Errands
<1>3. Alone(c) /\ chkCall'[c] = NoOwner
  BY <1>1, OverMoves
<1>4. Sole'
  BY <1>1, <1>3, SoleGoes
<1>5. CASE W!Broke(n) /\ UNCHANGED <<chkRec, chkHeld>>
  <2>1. /\ chkMishaps' \in 0..MaxSurprises /\ chkHand \subseteq chkHand' /\ chkHand' \subseteq Names /\ n \in chkHand'
    BY <1>1, <1>5 DEF W!Broke, Shapes, W!TypeOK, W!CheckoutsAssumption
  <2>2. UNCHANGED <<W!disk, chkHeld, chkUp, chkOps>>
    BY <1>1, <1>5 DEF W!disk
  <2> QED BY <1>1, <1>3, <1>4, <2>1, <2>2, CallMarks
<1>6. CASE /\ chkRec' = [chkRec EXCEPT ![n].closed = TRUE, ![n].state = chkCall[c].state]
           /\ chkHeld' = [chkHeld EXCEPT ![n] = "no"] /\ W!Fine
  <2>1. /\ chkRec[n] # NoOwner /\ chkRec[n] \in W!Identities /\ chkCall[c].state \in W!States
        /\ UNCHANGED <<chkMishaps, chkHand>>
    BY <1>1, <1>2, <1>6 DEF CloseOf, W!TypeOK, W!Fine
  <2>2. /\ \A m \in Names : chkRec'[m] = IF m = n THEN [chkRec[n] EXCEPT !.closed = TRUE, !.state = chkCall[c].state] ELSE chkRec[m]
        /\ \A m \in Names : chkHeld'[m] = IF m = n THEN "no" ELSE chkHeld[m]
        /\ chkHeld' \in [Names -> {"no", "idle", "running", "closing"}]
    BY <1>1, <1>6, <2>1 DEF W!TypeOK, Shapes, W!Identities
  <2>3. /\ chkRec'[n] \in W!Identities /\ chkRec'[n].closed /\ chkRec'[n].state = chkCall[c].state
        /\ chkRec'[n].mode = chkRec[n].mode /\ chkRec'[n].branch = chkRec[n].branch
    <3> DEFINE r == [chkRec[n] EXCEPT !.closed = TRUE, !.state = chkCall[c].state]
    <3>1. r \in W!Identities
      BY <2>1 DEF W!Identities
    <3>2. r.closed /\ r.state = chkCall[c].state /\ r.mode = chkRec[n].mode /\ r.branch = chkRec[n].branch
      BY <2>1 DEF W!Identities
    <3> QED BY <2>2, <3>1, <3>2
  <2>4. chkRec' \in [Names -> W!Identities \cup {NoOwner}] /\ chkRec'[n] # NoOwner
    BY <1>6, <2>1, <2>2, <2>3 DEF W!TypeOK, W!CheckoutsAssumption
  <2>5. /\ \A d \in CheckoutCalls : d # c /\ chkCall'[d] # NoOwner =>
             chkUp' /\ (SpawnOf(d) /\ CloseOf(d) /\ ReopenOf(d))'
        /\ \A m \in Names : m # n => PathOf(m)'
    <3>1. chkUp' = chkUp /\ chkPath' = chkPath /\ chkRegistry' = chkRegistry /\ chkHand' = chkHand /\ chkCall[c].op # "spawn"
      BY <1>1, <1>2, <2>1
    <3> QED BY <1>1, <1>3, <2>2, <2>4, <3>1, OthersKeep
  <2>6. W!TypeOK' /\ Shapes'
    BY <1>1, <1>3, <2>1, <2>2, <2>4 DEF W!TypeOK, Shapes, Alone
  <2>7. CheckoutCallInv'
    BY <1>3, <2>5 DEF CheckoutCallInv
  <2>8. PathOf(n)'
    <3>1. PathOf(n)
      BY <1>1 DEF PathInv
    <3>2. /\ chkRec'[n] # NoOwner /\ chkRec'[n].closed /\ chkHeld'[n] = "no" /\ chkRec'[n].state = chkCall[c].state
          /\ chkRec'[n].mode = chkRec[n].mode /\ chkRec'[n].branch = chkRec[n].branch
          /\ chkPath'[n] = chkPath[n] /\ chkRegistry'[n] = chkRegistry[n] /\ chkHand' = chkHand
      BY <1>1, <2>1, <2>2, <2>3, <2>4
    <3>3. n \notin chkHand => (chkPath[n] = "none" /\ chkRegistry[n] = NoOwner) \/ (chkPath[n] \in W!Trees /\ chkRegistry[n] \in W!Branches)
      BY <3>1 DEF PathOf
    <3>4. /\ chkRec[n].mode # "managed" <=> chkCall[c].state = "not-managed"
          /\ chkRec[n].mode = "managed" /\ n \notin chkHand /\ chkCall[c].state # "deleted" =>
               chkPath[n] \in W!Trees /\ chkRegistry[n] = chkRec[n].branch
      BY <1>1, <1>2 DEF CloseOf, W!Managed, On
    <3> QED BY <1>1, <3>2, <3>3, <3>4, PathIs
  <2>9. PathInv'
    BY <1>1, <2>5, <2>8, PathGathers
  <2>10. W!BranchesAreExclusive'
    BY <1>1 DEF W!BranchesAreExclusive
  <2> QED BY <1>4, <2>6, <2>7, <2>9, <2>10
<1> QED BY <1>5, <1>6 DEF W!Records

LEMMA RecordIsMadeKeeps ==
  ASSUME W!CheckoutsAssumption, CheckoutInv, NEW c \in CheckoutCalls, W!RecordIsMade(c)
  PROVE  CheckoutInv'
<1>0. PICK n \in Names : chkCall[c].name = n
  BY DEF CheckoutInv, W!RecordIsMade, W!At, W!TypeOK, W!Errands
<1> USE <1>0
<1> USE DEF CheckoutInv
<1>1. /\ chkCall[c] # NoOwner /\ chkCall[c].step = "create" /\ chkCall[c] \in W!Errands /\ n \in Names
      /\ UNCHANGED <<chkPath, chkRegistry, chkBranches, chkUp, chkOps, chkMishaps, chkHand>> /\ W!Over(c)
  BY DEF W!RecordIsMade, W!At, W!Fine, W!TypeOK, W!Errands
<1>2. chkCall[c].op = "spawn" /\ SpawnOf(c) /\ chkUp
  BY <1>1 DEF CheckoutCallInv, CloseOf, ReopenOf, CloseSteps, ReopenSteps, W!Errands
<1>3. Alone(c) /\ chkCall'[c] = NoOwner
  BY <1>1, OverMoves
<1>4. Sole'
  BY <1>1, <1>3, SoleGoes
<1>5. CASE ~W!Creatable(n)
  <2>1. UNCHANGED <<chkRec, chkHeld>>
    BY <1>5 DEF W!RecordIsMade
  <2> QED BY <1>1, <1>2, <1>3, <1>4, <2>1, CallOnly DEF W!disk
<1>6. CASE W!Creatable(n)
  <2> DEFINE r == [mode |-> chkCall[c].mode, branch |-> chkCall[c].branch, cleanup |-> chkCall[c].cleanup,
                   state |-> IF chkCall[c].mode = "managed" THEN "managed-active" ELSE "not-managed",
                   closed |-> FALSE, readable |-> TRUE, life |-> chkOps]
  <2>1. chkRec[n] = NoOwner /\ chkRec' = [chkRec EXCEPT ![n] = r] /\ chkHeld' = [chkHeld EXCEPT ![n] = "idle"]
    BY <1>6 DEF W!RecordIsMade, W!Creatable
  <2>2. r \in W!Identities
    BY <1>1 DEF W!Identities, W!Errands, W!States, Shapes
  <2>3. /\ \A m \in Names : chkRec'[m] = IF m = n THEN r ELSE chkRec[m]
        /\ \A m \in Names : chkHeld'[m] = IF m = n THEN "idle" ELSE chkHeld[m]
        /\ chkHeld' \in [Names -> {"no", "idle", "running", "closing"}]
        /\ chkRec' \in [Names -> W!Identities \cup {NoOwner}]
    BY <1>1, <2>1, <2>2 DEF W!TypeOK, Shapes
  <2>4. chkRec'[n] # NoOwner /\ ~chkRec'[n].closed
    <3>1. r # NoOwner
      <4> HIDE DEF r
      <4> QED BY <2>2 DEF W!CheckoutsAssumption
    <3> QED BY <1>1, <2>3, <3>1
  <2>5. /\ \A d \in CheckoutCalls : d # c /\ chkCall'[d] # NoOwner =>
             chkUp' /\ (SpawnOf(d) /\ CloseOf(d) /\ ReopenOf(d))'
        /\ \A m \in Names : m # n => PathOf(m)'
    <3>1. chkUp' = chkUp /\ chkPath' = chkPath /\ chkRegistry' = chkRegistry /\ chkHand' = chkHand /\ chkCall[c].step # "named"
      BY <1>1, <1>2
    <3> QED BY <1>1, <1>3, <2>1, <2>3, <2>4, <3>1, OthersKeep
  <2>6. W!TypeOK' /\ Shapes'
    BY <1>1, <1>2, <1>3, <2>3, <2>4 DEF W!TypeOK, Shapes, Alone
  <2>7. CheckoutCallInv'
    BY <1>3, <2>5 DEF CheckoutCallInv
  <2>8. PathOf(n)'
    <3>1. PathOf(n) /\ chkRec'[n] = r /\ chkHeld'[n] = "idle"
      BY <1>1, <2>3 DEF PathInv
    <3>2. r.mode = "managed" /\ n \notin chkHand => On(n, r.branch)
      BY <1>1, <1>2, <2>1 DEF SpawnOf
    <3>3. r.mode = "managed" <=> r.state # "not-managed"
      OBVIOUS
    <3>4. r.state # "deleted"
      OBVIOUS
    <3> HIDE DEF r
    <3>5. n \notin chkHand => (chkPath[n] = "none" /\ chkRegistry[n] = NoOwner) \/ (chkPath[n] \in W!Trees /\ chkRegistry[n] \in W!Branches)
      BY <3>1 DEF PathOf
    <3>6. r.mode = "managed" /\ n \notin chkHand => chkPath[n] \in W!Trees /\ chkRegistry[n] = r.branch
      BY <3>2 DEF On
    <3>7. chkPath'[n] = chkPath[n] /\ chkRegistry'[n] = chkRegistry[n] /\ chkHand' = chkHand
      BY <1>1
    <3> QED BY <1>1, <3>1, <3>3, <3>4, <3>5, <3>6, <3>7, PathIs
  <2>9. PathInv'
    BY <1>1, <2>5, <2>8, PathGathers
  <2>10. W!BranchesAreExclusive'
    BY <1>1 DEF W!BranchesAreExclusive
  <2> QED BY <1>4, <2>6, <2>7, <2>9, <2>10
<1> QED BY <1>5, <1>6

LEMMA PatchesKeeps ==
  ASSUME W!CheckoutsAssumption, CheckoutInv, NEW c \in CheckoutCalls, W!Patches(c)
  PROVE  CheckoutInv'
<1>0. PICK n \in Names : chkCall[c].name = n
  BY DEF CheckoutInv, W!Patches, W!At, W!TypeOK, W!Errands
<1> USE <1>0
<1> USE DEF CheckoutInv
<1>1. /\ chkCall[c] # NoOwner /\ chkCall[c].step = "patch" /\ chkCall[c] \in W!Errands /\ n \in Names
      /\ UNCHANGED <<chkPath, chkRegistry, chkBranches, chkHeld, chkUp, chkOps, chkMishaps, chkHand>>
      /\ W!Go(c, "start") /\ chkRec' = [chkRec EXCEPT ![n].state = "managed-active"]
  BY DEF W!Patches, W!At, W!Fine, W!TypeOK, W!Errands
<1>2. chkCall[c].op = "reopen" /\ ReopenOf(c) /\ chkUp
  BY <1>1 DEF CheckoutCallInv, CloseOf, SpawnOf, CloseSteps, SpawnSteps, W!Errands
<1>3. Alone(c) /\ Carries(c) /\ chkCall'[c].step = "start"
  <2>1. "start" \in W!Steps
    BY DEF W!Steps
  <2> QED BY <1>1, <2>1, GoMoves
<1>4. Sole'
  BY <1>1, <1>2, <1>3, SoleGoes
<1>5. chkRec[n] # NoOwner /\ chkRec[n] \in W!Identities /\ chkHeld[n] = "no"
  BY <1>1, <1>2 DEF ReopenOf, W!TypeOK
<1>6. \A m \in Names : chkRec'[m] = IF m = n THEN [chkRec[n] EXCEPT !.state = "managed-active"] ELSE chkRec[m]
  BY <1>1, <1>5 DEF W!TypeOK
<1>7. /\ chkRec'[n] \in W!Identities /\ chkRec'[n].closed = chkRec[n].closed /\ chkRec'[n].state = "managed-active"
      /\ chkRec'[n].mode = chkRec[n].mode /\ chkRec'[n].branch = chkRec[n].branch
  BY <1>1, <1>5, <1>6 DEF W!Identities, W!States
<1>8. chkRec' \in [Names -> W!Identities \cup {NoOwner}] /\ chkRec'[n] # NoOwner
  BY <1>1, <1>5, <1>6, <1>7 DEF W!TypeOK, W!CheckoutsAssumption
<1>9. /\ \A d \in CheckoutCalls : d # c /\ chkCall'[d] # NoOwner =>
           chkUp' /\ (SpawnOf(d) /\ CloseOf(d) /\ ReopenOf(d))'
      /\ \A m \in Names : m # n => PathOf(m)'
  <2>1. chkCall[c].op # "spawn" /\ UNCHANGED <<chkPath, chkRegistry, chkHeld, chkUp, chkHand>>
    BY <1>1, <1>2
  <2> QED BY <1>1, <1>3, <1>6, <1>8, <2>1, OthersKeep
<1>10. W!TypeOK' /\ Shapes'
  BY <1>1, <1>3, <1>5, <1>6, <1>8 DEF W!TypeOK, Shapes, Alone
<1>11. (SpawnOf(c) /\ CloseOf(c) /\ ReopenOf(c))'
  BY <1>1, <1>2, <1>3, <1>5, <1>7, <1>8 DEF Carries, SpawnOf, CloseOf, ReopenOf, ReopenSteps
<1>12. CheckoutCallInv'
  BY <1>1, <1>2, <1>9, <1>11 DEF CheckoutCallInv
<1>13. PathOf(n)'
  <2>1. PathOf(n)
    BY <1>1 DEF PathInv
  <2>2. /\ chkRec'[n] # NoOwner /\ chkHeld'[n] = "no" /\ chkRec'[n].state = "managed-active"
        /\ chkRec'[n].mode = "managed" /\ chkRec'[n].branch = chkRec[n].branch
        /\ chkPath'[n] = chkPath[n] /\ chkRegistry'[n] = chkRegistry[n] /\ chkHand' = chkHand
    BY <1>1, <1>2, <1>5, <1>7, <1>8 DEF ReopenOf, W!Managed
  <2>3. n \notin chkHand => (chkPath[n] = "none" /\ chkRegistry[n] = NoOwner) \/ (chkPath[n] \in W!Trees /\ chkRegistry[n] \in W!Branches)
    BY <2>1 DEF PathOf
  <2>4. n \notin chkHand => chkPath[n] \in W!Trees /\ chkRegistry[n] = chkRec[n].branch
    BY <1>1, <1>2 DEF ReopenOf, On
  <2> QED BY <1>1, <2>2, <2>3, <2>4, PathIs
<1>14. PathInv'
  BY <1>1, <1>9, <1>13, PathGathers
<1>15. W!BranchesAreExclusive'
  BY <1>1 DEF W!BranchesAreExclusive
<1> QED BY <1>4, <1>10, <1>12, <1>14, <1>15

LEMMA ReopenedKeeps ==
  ASSUME W!CheckoutsAssumption, CheckoutInv, NEW c \in CheckoutCalls, W!Reopened(c)
  PROVE  CheckoutInv'
<1>0. PICK n \in Names : chkCall[c].name = n
  BY DEF CheckoutInv, W!Reopened, W!At, W!TypeOK, W!Errands
<1> USE <1>0
<1> USE DEF CheckoutInv
<1>1. /\ chkCall[c] # NoOwner /\ chkCall[c].step = "start" /\ chkCall[c] \in W!Errands /\ n \in Names
      /\ UNCHANGED <<chkPath, chkRegistry, chkBranches, chkUp, chkOps, chkMishaps, chkHand>> /\ W!Over(c)
      /\ chkRec' = [chkRec EXCEPT ![n].closed = FALSE] /\ chkHeld' = [chkHeld EXCEPT ![n] = "idle"]
  BY DEF W!Reopened, W!At, W!Fine, W!TypeOK, W!Errands
<1>2. chkCall[c].op = "reopen" /\ ReopenOf(c) /\ chkUp
  BY <1>1 DEF CheckoutCallInv, CloseOf, SpawnOf, CloseSteps, SpawnSteps, W!Errands
<1>3. Alone(c) /\ chkCall'[c] = NoOwner
  BY <1>1, OverMoves
<1>4. Sole'
  BY <1>1, <1>2, <1>3, SoleGoes
<1>5. chkRec[n] # NoOwner /\ chkRec[n] \in W!Identities /\ chkHeld[n] = "no"
  BY <1>1, <1>2 DEF ReopenOf, W!TypeOK
<1>6. /\ \A m \in Names : chkRec'[m] = IF m = n THEN [chkRec[n] EXCEPT !.closed = FALSE] ELSE chkRec[m]
      /\ \A m \in Names : chkHeld'[m] = IF m = n THEN "idle" ELSE chkHeld[m]
      /\ chkHeld' \in [Names -> {"no", "idle", "running", "closing"}]
  BY <1>1, <1>5 DEF W!TypeOK, Shapes
<1>7. /\ chkRec'[n] \in W!Identities /\ ~chkRec'[n].closed /\ chkRec'[n].state = chkRec[n].state
      /\ chkRec'[n].mode = chkRec[n].mode /\ chkRec'[n].branch = chkRec[n].branch
  <2>1. chkRec'[n] = [chkRec[n] EXCEPT !.closed = FALSE]
    BY <1>1, <1>6
  <2>2. [chkRec[n] EXCEPT !.closed = FALSE] \in W!Identities
    BY <1>5 DEF W!Identities
  <2>3. /\ [chkRec[n] EXCEPT !.closed = FALSE].closed = FALSE
        /\ [chkRec[n] EXCEPT !.closed = FALSE].state = chkRec[n].state
        /\ [chkRec[n] EXCEPT !.closed = FALSE].mode = chkRec[n].mode
        /\ [chkRec[n] EXCEPT !.closed = FALSE].branch = chkRec[n].branch
    BY <1>5 DEF W!Identities
  <2> QED BY <2>1, <2>2, <2>3
<1>8. chkRec' \in [Names -> W!Identities \cup {NoOwner}] /\ chkRec'[n] # NoOwner
  BY <1>1, <1>5, <1>6, <1>7 DEF W!TypeOK, W!CheckoutsAssumption
<1>9. /\ \A d \in CheckoutCalls : d # c /\ chkCall'[d] # NoOwner =>
           chkUp' /\ (SpawnOf(d) /\ CloseOf(d) /\ ReopenOf(d))'
      /\ \A m \in Names : m # n => PathOf(m)'
  <2>1. chkCall[c].op # "spawn" /\ UNCHANGED <<chkPath, chkRegistry, chkUp, chkHand>>
    BY <1>1, <1>2
  <2> QED BY <1>1, <1>3, <1>6, <1>8, <2>1, OthersKeep
<1>10. W!TypeOK' /\ Shapes'
  BY <1>1, <1>2, <1>3, <1>5, <1>6, <1>7, <1>8 DEF W!TypeOK, Shapes, Alone
<1>11. CheckoutCallInv'
  BY <1>3, <1>9 DEF CheckoutCallInv
<1>12. PathOf(n)'
  <2>1. PathOf(n)
    BY <1>1 DEF PathInv
  <2>2. /\ chkRec'[n] # NoOwner /\ chkHeld'[n] = "idle" /\ chkRec'[n].state = chkRec[n].state
        /\ chkRec'[n].mode = chkRec[n].mode /\ chkRec'[n].branch = chkRec[n].branch
        /\ chkPath'[n] = chkPath[n] /\ chkRegistry'[n] = chkRegistry[n] /\ chkHand' = chkHand
    BY <1>1, <1>6, <1>7, <1>8
  <2>3. n \notin chkHand => (chkPath[n] = "none" /\ chkRegistry[n] = NoOwner) \/ (chkPath[n] \in W!Trees /\ chkRegistry[n] \in W!Branches)
    BY <2>1 DEF PathOf
  <2>4. /\ chkRec[n].state # "deleted"
        /\ chkRec[n].mode # "managed" <=> chkRec[n].state = "not-managed"
        /\ chkRec[n].mode = "managed" /\ n \notin chkHand => chkPath[n] \in W!Trees /\ chkRegistry[n] = chkRec[n].branch
    BY <1>1, <1>2, <1>5, <2>1 DEF PathOf, ReopenOf, W!Managed, On
  <2> QED BY <1>1, <2>2, <2>3, <2>4, PathIs
<1>13. PathInv'
  BY <1>1, <1>9, <1>12, PathGathers
<1>14. W!BranchesAreExclusive'
  BY <1>1 DEF W!BranchesAreExclusive
<1> QED BY <1>4, <1>10, <1>11, <1>13, <1>14

LEMMA EditsKeeps ==
  ASSUME W!CheckoutsAssumption, CheckoutInv, NEW n \in Names, W!Edits(n)
  PROVE  CheckoutInv'
<1> USE DEF CheckoutInv
<1>1. /\ chkPath[n] \in W!Trees /\ chkPath'[n] \in W!Trees /\ chkPath' \in [Names -> {"none", "plain"} \cup W!Trees]
      /\ \A m \in Names : m # n => chkPath'[m] = chkPath[m]
      /\ UNCHANGED <<chkRec, chkRegistry, chkBranches, chkHeld, chkUp, chkCall, chkOps, chkMishaps, chkHand>>
  BY DEF W!Edits, W!Fine, Shapes, W!Trees
<1>2. \A m \in Names : (chkPath'[m] \in W!Trees <=> chkPath[m] \in W!Trees) /\ (chkPath'[m] = "none" <=> chkPath[m] = "none")
  BY <1>1 DEF W!Trees, W!Work
<1>3. W!TypeOK' /\ Shapes'
  BY <1>1 DEF W!TypeOK, Shapes
<1>4. CheckoutCallInv'
  <2> SUFFICES ASSUME NEW d \in CheckoutCalls, chkCall[d] # NoOwner
               PROVE  chkUp' /\ (SpawnOf(d) /\ CloseOf(d) /\ ReopenOf(d))'
    BY <1>1 DEF CheckoutCallInv
  <2>1. chkUp /\ SpawnOf(d) /\ CloseOf(d) /\ ReopenOf(d) /\ chkCall[d].name \in Names
    BY DEF CheckoutCallInv, W!TypeOK, W!Errands
  <2>2. SpawnOf(d)'
    BY <1>1, <1>2, <2>1 DEF SpawnOf, On
  <2>3. CloseOf(d)'
    BY <1>1, <1>2, <2>1 DEF CloseOf, On, W!Managed
  <2>4. ReopenOf(d)'
    BY <1>1, <1>2, <2>1 DEF ReopenOf, On, W!Managed
  <2> QED BY <1>1, <2>1, <2>2, <2>3, <2>4
<1>5. PathInv'
  BY <1>1, <1>2 DEF PathInv, PathOf, On, W!Managed
<1>6. Sole' /\ W!BranchesAreExclusive'
  BY <1>1 DEF Sole, W!BranchesAreExclusive
<1> QED BY <1>3, <1>4, <1>5, <1>6

LEMMA MeddlesKeeps ==
  ASSUME W!CheckoutsAssumption, CheckoutInv, NEW n \in Names, W!Meddles(n)
  PROVE  CheckoutInv'
<1> USE DEF CheckoutInv
<1>1. /\ UNCHANGED <<chkRec, chkBranches, chkHeld, chkUp, chkCall, chkOps>> /\ chkHand' = chkHand \cup {n}
      /\ chkMishaps' \in 0..MaxSurprises
  BY DEF W!Meddles, W!Broke, Shapes, W!CheckoutsAssumption
<1>2. /\ chkPath' \in [Names -> {"none", "plain"} \cup W!Trees]
      /\ \A m \in Names : m # n => chkPath'[m] = chkPath[m]
  BY DEF W!Meddles, Shapes
<1>3. /\ chkRegistry' \in [Names -> {NoOwner, "detached"} \cup W!Branches]
      /\ \A m \in Names : m # n => chkRegistry'[m] = chkRegistry[m]
      /\ chkRegistry'[n] \in {chkRegistry[n], NoOwner, "detached"}
  BY DEF W!Meddles, Shapes
<1>4. W!TypeOK' /\ Shapes'
  BY <1>1, <1>2, <1>3 DEF W!TypeOK, Shapes
<1>5. CheckoutCallInv'
  <2> SUFFICES ASSUME NEW d \in CheckoutCalls, chkCall[d] # NoOwner
               PROVE  chkUp' /\ (SpawnOf(d) /\ CloseOf(d) /\ ReopenOf(d))'
    BY <1>1 DEF CheckoutCallInv
  <2>1. chkUp /\ SpawnOf(d) /\ CloseOf(d) /\ ReopenOf(d) /\ chkCall[d].name \in Names
    BY DEF CheckoutCallInv, W!TypeOK, W!Errands
  <2>2. SpawnOf(d)'
    BY <1>1, <1>2, <1>3, <2>1 DEF SpawnOf, On
  <2>3. CloseOf(d)'
    BY <1>1, <1>2, <1>3, <2>1 DEF CloseOf, On, W!Managed
  <2>4. ReopenOf(d)'
    BY <1>1, <1>2, <1>3, <2>1 DEF ReopenOf, On, W!Managed
  <2> QED BY <1>1, <2>1, <2>2, <2>3, <2>4
<1>6. PathInv'
  BY <1>1, <1>2, <1>3 DEF PathInv, PathOf, On, W!Managed
<1>7. Sole'
  BY <1>1 DEF Sole
<1>8. W!BranchesAreExclusive'
  BY <1>3 DEF W!BranchesAreExclusive, W!CheckoutsAssumption
<1> QED BY <1>4, <1>5, <1>6, <1>7, <1>8

LEMMA CrashesKeeps ==
  ASSUME W!CheckoutsAssumption, CheckoutInv, W!Crashes
  PROVE  CheckoutInv'
<1> USE DEF CheckoutInv
<1>1. /\ UNCHANGED <<chkRec, chkPath, chkRegistry, chkBranches, chkOps>> /\ chkHand' = chkHand \cup W!Cut
      /\ chkMishaps' \in 0..MaxSurprises /\ chkUp' = FALSE
  BY DEF W!Crashes, W!disk, Shapes, W!CheckoutsAssumption
<1>2. /\ chkHeld' \in [Names -> {"no", "idle", "running", "closing"}]
      /\ \A m \in Names : chkHeld'[m] = "no"
      /\ chkCall' \in [CheckoutCalls -> W!Errands \cup {NoOwner}]
      /\ \A d \in CheckoutCalls : chkCall'[d] = NoOwner
  BY DEF W!Crashes
<1>3. chkHand' \subseteq Names
  BY <1>1 DEF W!Cut, W!TypeOK
<1>4. W!TypeOK' /\ Shapes'
  BY <1>1, <1>2, <1>3 DEF W!TypeOK, Shapes
<1>5. CheckoutCallInv' /\ Sole'
  BY <1>2 DEF CheckoutCallInv, Sole
<1>6. PathInv'
  <2> SUFFICES ASSUME NEW n \in Names
               PROVE  PathOf(n)'
    BY DEF PathInv
  <2>1. PathOf(n)
    BY DEF PathInv
  <2>2. ASSUME n \notin chkHand', chkHeld[n] = "closing", chkRec[n] # NoOwner
        PROVE  On(n, chkRec[n].branch)
    <3>1. PICK c \in CheckoutCalls : chkCall[c] # NoOwner /\ chkCall[c].op = "close" /\ chkCall[c].name = n
      BY <1>1, <2>1, <2>2 DEF PathOf
    <3>2. chkCall[c].step # "record"
      BY <1>1, <2>2, <3>1 DEF W!Cut, W!At
    <3>3. CloseOf(c)
      BY <3>1 DEF CheckoutCallInv
    <3> QED BY <1>1, <2>2, <3>1, <3>2, <3>3 DEF CloseOf
  <2> QED BY <1>1, <1>2, <2>1, <2>2 DEF PathOf, On, W!Managed
<1>7. W!BranchesAreExclusive'
  BY <1>1 DEF W!BranchesAreExclusive
<1> QED BY <1>4, <1>5, <1>6, <1>7

LEMMA RestartsKeeps ==
  ASSUME W!CheckoutsAssumption, CheckoutInv, W!Restarts
  PROVE  CheckoutInv'
<1> USE DEF CheckoutInv
<1>1. /\ UNCHANGED <<chkPath, chkRegistry, chkBranches, chkHeld, chkCall, chkOps, chkMishaps, chkHand>> /\ chkUp' = TRUE
      /\ \A n \in Names : chkHeld[n] = "no"
      /\ \A d \in CheckoutCalls : chkCall[d] = NoOwner
  BY DEF W!Restarts, W!Fine, W!TypeOK, CheckoutCallInv
<1>2. /\ chkRec' \in [Names -> W!Identities \cup {NoOwner}]
      /\ \A n \in Names : chkRec[n] # NoOwner =>
           /\ chkRec'[n] # NoOwner /\ chkRec'[n].closed = chkRec[n].closed /\ chkRec'[n].state = chkRec[n].state
           /\ chkRec'[n].mode = chkRec[n].mode /\ chkRec'[n].branch = chkRec[n].branch
      /\ \A n \in Names : chkRec[n] = NoOwner => chkRec'[n] = NoOwner
  <2>1. CASE UNCHANGED chkRec
    BY <2>1 DEF W!TypeOK
  <2>2. ASSUME NEW k \in Names, chkRec[k] # NoOwner, chkRec' = [chkRec EXCEPT ![k].readable = FALSE]
        PROVE  <1>2
    <3>1. chkRec[k] \in W!Identities
      BY <2>2 DEF W!TypeOK
    <3>2. \A n \in Names : chkRec'[n] = IF n = k THEN [chkRec[k] EXCEPT !.readable = FALSE] ELSE chkRec[n]
      BY <2>2, <3>1 DEF W!TypeOK
    <3>3. [chkRec[k] EXCEPT !.readable = FALSE] \in W!Identities
      BY <3>1 DEF W!Identities
    <3>4. /\ [chkRec[k] EXCEPT !.readable = FALSE].closed = chkRec[k].closed
          /\ [chkRec[k] EXCEPT !.readable = FALSE].state = chkRec[k].state
          /\ [chkRec[k] EXCEPT !.readable = FALSE].mode = chkRec[k].mode
          /\ [chkRec[k] EXCEPT !.readable = FALSE].branch = chkRec[k].branch
      BY <3>1 DEF W!Identities
    <3>5. chkRec' \in [Names -> W!Identities \cup {NoOwner}]
      BY <2>2, <3>1, <3>3 DEF W!TypeOK
    <3> QED BY <2>2, <3>2, <3>3, <3>4, <3>5 DEF W!CheckoutsAssumption
  <2> QED BY <2>1, <2>2 DEF W!Restarts
<1>3. W!TypeOK' /\ Shapes'
  BY <1>1, <1>2 DEF W!TypeOK, Shapes
<1>4. CheckoutCallInv' /\ Sole'
  BY <1>1 DEF CheckoutCallInv, Sole
<1>5. PathInv'
  BY <1>1, <1>2 DEF PathInv, PathOf, On, W!Managed
<1>6. W!BranchesAreExclusive'
  BY <1>1 DEF W!BranchesAreExclusive
<1> QED BY <1>3, <1>4, <1>5, <1>6

LEMMA CheckoutRests ==
  ASSUME CheckoutInv, UNCHANGED W!vars
  PROVE  CheckoutInv'
<1>1. UNCHANGED <<chkRec, chkPath, chkRegistry, chkBranches, chkHeld, chkUp, chkCall, chkOps, chkMishaps, chkHand>>
  BY DEF W!vars
<1>2. W!TypeOK' /\ Shapes' /\ Sole' /\ W!BranchesAreExclusive'
  BY <1>1 DEF CheckoutInv, W!TypeOK, Shapes, Sole, W!BranchesAreExclusive
<1>3. CheckoutCallInv'
  <2> SUFFICES ASSUME NEW d \in CheckoutCalls, chkCall'[d] # NoOwner
               PROVE  chkUp' /\ (SpawnOf(d) /\ CloseOf(d) /\ ReopenOf(d))'
    BY DEF CheckoutCallInv
  <2>1. chkCall[d] # NoOwner /\ chkUp /\ SpawnOf(d) /\ CloseOf(d) /\ ReopenOf(d)
    BY <1>1 DEF CheckoutInv, CheckoutCallInv
  <2>2. SpawnOf(d)' /\ CloseOf(d)'
    BY <1>1, <2>1 DEF SpawnOf, CloseOf, On, W!Managed
  <2>3. ReopenOf(d)'
    BY <1>1, <2>1 DEF ReopenOf, On, W!Managed
  <2> QED BY <1>1, <2>1, <2>2, <2>3
<1>4. PathInv'
  BY <1>1 DEF CheckoutInv, PathInv, PathOf, On, W!Managed
<1> QED BY <1>2, <1>3, <1>4 DEF CheckoutInv

LEMMA CheckoutStep ==
  ASSUME W!CheckoutsAssumption, CheckoutInv, [W!Next]_(W!vars)
  PROVE  CheckoutInv'
<1>1. ASSUME NEW c \in CheckoutCalls,
             \/ W!Allocates(c) \/ W!Registers(c) \/ W!Looks(c) \/ W!Adds(c) \/ W!RecordIsMade(c)
             \/ W!Closes(c) \/ W!Assesses(c) \/ W!Removes(c) \/ W!AssessesAgain(c) \/ W!Records(c)
             \/ W!Reopens(c) \/ W!Patches(c) \/ W!Reopened(c)
      PROVE  CheckoutInv'
  BY <1>1, AllocatesKeeps, RegistersKeeps, LooksKeeps, AddsKeeps, RecordIsMadeKeeps, ClosesKeeps,
     AssessesKeeps, RemovesKeeps, AssessesAgainKeeps, RecordsKeeps, ReopensKeeps, PatchesKeeps,
     ReopenedKeeps
<1>2. ASSUME NEW n \in Names, W!Materializes(n) \/ W!Runs(n) \/ W!Edits(n) \/ W!Meddles(n)
      PROVE  CheckoutInv'
  BY <1>2, MaterializesKeeps, EditsKeeps, MeddlesKeeps
<1>3. CASE W!Crashes \/ W!Restarts
  BY <1>3, CrashesKeeps, RestartsKeeps
<1>4. CASE UNCHANGED W!vars
  BY <1>4, CheckoutRests
<1> QED BY <1>1, <1>2, <1>3, <1>4 DEF W!Next

LEMMA CheckoutStarts ==
  ASSUME W!CheckoutsAssumption, W!Init
  PROVE  CheckoutInv
<1>1. W!TypeOK
  BY DEF W!Init, W!TypeOK
<1>2. Shapes
  BY DEF W!Init, Shapes, W!CheckoutsAssumption
<1>3. CheckoutCallInv /\ Sole
  BY DEF W!Init, CheckoutCallInv, Sole
<1>4. PathInv
  BY DEF W!Init, PathInv, PathOf
<1>5. W!BranchesAreExclusive
  BY DEF W!Init, W!BranchesAreExclusive, W!CheckoutsAssumption
<1> QED BY <1>1, <1>2, <1>3, <1>4, <1>5 DEF CheckoutInv

\* What the close of a name says of it while its checkout is on its way out.
LEMMA ClosingTells ==
  ASSUME CheckoutInv, NEW c \in CheckoutCalls, W!At(c, "remove")
  PROVE  /\ chkCall[c].name \in Names /\ chkHeld[chkCall[c].name] = "closing"
         /\ W!Managed(chkCall[c].name) /\ chkRec[chkCall[c].name].cleanup = "delete-on-close"
<1>1. chkCall[c] # NoOwner /\ chkCall[c].step = "remove" /\ chkCall[c] \in W!Errands
  BY DEF W!At, CheckoutInv, W!TypeOK
<1>2. chkCall[c].op = "close" /\ CloseOf(c)
  BY <1>1 DEF CheckoutInv, CheckoutCallInv, SpawnOf, ReopenOf, SpawnSteps, ReopenSteps, W!Errands
<1> QED BY <1>1, <1>2 DEF CloseOf, W!Errands

\* Paths change under a call by an add or a removal, and by hand.
LEMMA PathSteps ==
  ASSUME W!CheckoutsAssumption, CheckoutInv, [W!Next]_(W!vars), chkCall' # chkCall, NEW n \in Names, chkPath'[n] # chkPath[n]
  PROVE  \/ chkPath[n] = "none" /\ chkPath'[n] = "clean"
         \/ /\ chkPath[n] = "clean" /\ chkHeld[n] = "closing"
            /\ W!Managed(n) /\ chkRec[n].cleanup = "delete-on-close"
<1>1. ASSUME NEW c \in CheckoutCalls, W!Adds(c)
      PROVE  chkPath[n] = "none" /\ chkPath'[n] = "clean"
  <2>1. W!Addable(chkCall[c].name, chkCall[c].branch, chkCall[c].step) /\ chkPath' = [chkPath EXCEPT ![chkCall[c].name] = "clean"]
    BY <1>1 DEF W!Adds
  <2> QED BY <2>1 DEF W!Addable, CheckoutInv, Shapes
<1>2. ASSUME NEW c \in CheckoutCalls, W!Removes(c)
      PROVE  /\ chkPath[n] = "clean" /\ chkHeld[n] = "closing"
             /\ W!Managed(n) /\ chkRec[n].cleanup = "delete-on-close"
  <2>1. W!Removable(chkCall[c].name) /\ chkPath' = [chkPath EXCEPT ![chkCall[c].name] = "none"]
    BY <1>2 DEF W!Removes
  <2>2. n = chkCall[c].name
    BY <2>1 DEF CheckoutInv, Shapes
  <2> QED BY <1>2, <2>1, <2>2, ClosingTells DEF W!Removable, W!Removes
<1>3. ASSUME NEW c \in CheckoutCalls,
             \/ W!Allocates(c) \/ W!Registers(c) \/ W!Looks(c) \/ W!RecordIsMade(c)
             \/ W!Closes(c) \/ W!Assesses(c) \/ W!AssessesAgain(c) \/ W!Records(c)
             \/ W!Reopens(c) \/ W!Patches(c) \/ W!Reopened(c)
      PROVE  chkPath' = chkPath
  BY <1>3 DEF W!Allocates, W!Registers, W!Looks, W!RecordIsMade, W!Closes, W!Assesses,
     W!AssessesAgain, W!Records,
              W!Reopens, W!Patches, W!Reopened, W!disk
<1>4. ASSUME NEW m \in Names, W!Materializes(m) \/ W!Runs(m) \/ W!Edits(m) \/ W!Meddles(m)
      PROVE  chkCall' = chkCall
  BY <1>4 DEF W!Materializes, W!Runs, W!Edits, W!Meddles
<1>5. CASE W!Crashes \/ W!Restarts \/ UNCHANGED W!vars
  BY <1>5 DEF W!Crashes, W!Restarts, W!vars, W!disk
<1> QED BY <1>1, <1>2, <1>3, <1>4, <1>5 DEF W!Next

\* A record that is there stays, with the life it was given.
LEMMA RecordSteps ==
  ASSUME W!CheckoutsAssumption, CheckoutInv, [W!Next]_(W!vars), NEW n \in Names, chkRec[n] # NoOwner
  PROVE  chkRec'[n] # NoOwner /\ chkRec'[n].life = chkRec[n].life
<1>1. chkRec[n] \in W!Identities /\ NoOwner \notin W!Identities
  BY DEF CheckoutInv, W!TypeOK, W!CheckoutsAssumption
<1>2. ASSUME NEW c \in CheckoutCalls, W!RecordIsMade(c)
      PROVE  chkRec'[n] = chkRec[n]
  BY <1>2 DEF W!RecordIsMade, W!Creatable, CheckoutInv, W!TypeOK
<1>3. ASSUME NEW c \in CheckoutCalls, W!Records(c)
      PROVE  chkRec'[n] # NoOwner /\ chkRec'[n].life = chkRec[n].life
  <2>1. \/ chkRec' = chkRec
        \/ chkRec' = [chkRec EXCEPT ![chkCall[c].name].closed = TRUE, ![chkCall[c].name].state = chkCall[c].state]
    BY <1>3 DEF W!Records
  <2>2. CASE chkCall[c].name # n \/ chkRec' = chkRec
    BY <1>1, <2>1, <2>2 DEF CheckoutInv, W!TypeOK
  <2>3. CASE chkCall[c].name = n /\ chkRec' # chkRec
    <3>1. chkCall[c].step = "record" /\ chkCall[c] # NoOwner /\ chkCall[c] \in W!Errands
      BY <1>3 DEF W!Records, W!At, CheckoutInv, W!TypeOK
    <3>2. chkCall[c].state \in W!States
      BY <3>1 DEF CheckoutInv, CheckoutCallInv, SpawnOf, ReopenOf, CloseOf, SpawnSteps,
         ReopenSteps, W!Errands
    <3> DEFINE r == [chkRec[n] EXCEPT !.closed = TRUE, !.state = chkCall[c].state]
    <3>3. chkRec'[n] = r
      BY <1>1, <2>1, <2>3 DEF CheckoutInv, W!TypeOK, W!Identities
    <3>4. r \in W!Identities /\ r.life = chkRec[n].life
      BY <1>1, <3>2 DEF W!Identities
    <3> QED BY <1>1, <3>3, <3>4
  <2> QED BY <2>2, <2>3
<1>4. ASSUME NEW m \in Names, NEW v, chkRec' = [chkRec EXCEPT ![m] = v], v \in W!Identities, v.life = chkRec[m].life
      PROVE  chkRec'[n] # NoOwner /\ chkRec'[n].life = chkRec[n].life
  BY <1>1, <1>4 DEF CheckoutInv, W!TypeOK
<1>5. ASSUME NEW c \in CheckoutCalls, W!Patches(c) \/ W!Reopened(c)
      PROVE  chkRec'[n] # NoOwner /\ chkRec'[n].life = chkRec[n].life
  <2>1. PICK m \in Names : m = chkCall[c].name
    BY <1>5 DEF W!Patches, W!Reopened, W!At, CheckoutInv, W!TypeOK, W!Errands
  <2>2. CASE m # n
    BY <1>1, <1>5, <2>1, <2>2 DEF W!Patches, W!Reopened, CheckoutInv, W!TypeOK
  <2>3. CASE m = n
    <3>1. /\ [chkRec[n] EXCEPT !.state = "managed-active"] \in W!Identities
          /\ [chkRec[n] EXCEPT !.state = "managed-active"].life = chkRec[n].life
          /\ [chkRec[n] EXCEPT !.closed = FALSE] \in W!Identities
          /\ [chkRec[n] EXCEPT !.closed = FALSE].life = chkRec[n].life
      BY <1>1 DEF W!Identities, W!States
    <3>2. \/ chkRec' = [chkRec EXCEPT ![n] = [chkRec[n] EXCEPT !.state = "managed-active"]]
          \/ chkRec' = [chkRec EXCEPT ![n] = [chkRec[n] EXCEPT !.closed = FALSE]]
      BY <1>5, <2>1, <2>3 DEF W!Patches, W!Reopened
    <3> QED BY <1>4, <3>1, <3>2
  <2> QED BY <2>2, <2>3
<1>6. ASSUME NEW c \in CheckoutCalls,
             \/ W!Allocates(c) \/ W!Registers(c) \/ W!Looks(c) \/ W!Adds(c) \/ W!Closes(c) \/ W!Assesses(c)
             \/ W!Removes(c) \/ W!AssessesAgain(c) \/ W!Reopens(c)
      PROVE  chkRec' = chkRec
  BY <1>6 DEF W!Allocates, W!Registers, W!Looks, W!Adds, W!Closes, W!Assesses, W!Removes,
     W!AssessesAgain, W!Reopens, W!disk
<1>7. ASSUME NEW m \in Names, W!Materializes(m) \/ W!Runs(m) \/ W!Edits(m) \/ W!Meddles(m)
      PROVE  chkRec' = chkRec
  BY <1>7 DEF W!Materializes, W!Runs, W!Edits, W!Meddles, W!disk
<1>8. CASE W!Crashes \/ UNCHANGED W!vars
  BY <1>8 DEF W!Crashes, W!vars, W!disk
<1>9. CASE W!Restarts
  <2>1. \/ chkRec' = chkRec
        \/ \E m \in Names : chkRec[m] # NoOwner /\ chkRec' = [chkRec EXCEPT ![m] = [chkRec[m] EXCEPT !.readable = FALSE]]
    BY <1>9 DEF W!Restarts
  <2>2. ASSUME NEW m \in Names, chkRec[m] # NoOwner, chkRec' = [chkRec EXCEPT ![m] = [chkRec[m] EXCEPT !.readable = FALSE]]
        PROVE  chkRec'[n] # NoOwner /\ chkRec'[n].life = chkRec[n].life
    <3>1. chkRec[m] \in W!Identities
      BY <2>2 DEF CheckoutInv, W!TypeOK
    <3>2. /\ [chkRec[m] EXCEPT !.readable = FALSE] \in W!Identities
          /\ [chkRec[m] EXCEPT !.readable = FALSE].life = chkRec[m].life
      BY <3>1 DEF W!Identities
    <3> QED BY <1>4, <2>2, <3>2
  <2> QED BY <2>1, <2>2
<1> QED BY <1>2, <1>3, <1>5, <1>6, <1>7, <1>8, <1>9 DEF W!Next

\* A record is closed by the last step of a close.
LEMMA RecordCloses ==
  ASSUME W!CheckoutsAssumption, CheckoutInv, [W!Next]_(W!vars), NEW n \in Names, chkRec[n] # NoOwner,
         ~chkRec[n].closed, chkRec'[n].closed, chkRec'[n].state = "deleted", n \notin chkHand
  PROVE  chkPath[n] = "none" /\ chkRegistry[n] = NoOwner
<1>1. chkRec[n] \in W!Identities
  BY DEF CheckoutInv, W!TypeOK
<1>2. ASSUME NEW c \in CheckoutCalls, W!Records(c)
      PROVE  chkPath[n] = "none" /\ chkRegistry[n] = NoOwner
  <2>1. chkRec' = [chkRec EXCEPT ![chkCall[c].name].closed = TRUE, ![chkCall[c].name].state = chkCall[c].state]
    BY <1>2 DEF W!Records
  <2>2. n = chkCall[c].name
    BY <1>1, <2>1 DEF CheckoutInv, W!TypeOK
  <2>3. chkRec'[n].state = chkCall[c].state
    BY <1>1, <2>1, <2>2 DEF CheckoutInv, W!TypeOK, W!Identities
  <2>4. chkCall[c].step = "record" /\ chkCall[c] # NoOwner /\ chkCall[c] \in W!Errands
    BY <1>2 DEF W!Records, W!At, CheckoutInv, W!TypeOK
  <2>5. chkCall[c].op = "close" /\ CloseOf(c)
    BY <2>4 DEF CheckoutInv, CheckoutCallInv, SpawnOf, ReopenOf, SpawnSteps, ReopenSteps,
       W!Errands
  <2> QED BY <2>2, <2>3, <2>4, <2>5 DEF CloseOf
<1>3. ASSUME NEW c \in CheckoutCalls, W!RecordIsMade(c) \/ W!Patches(c) \/ W!Reopened(c)
      PROVE  ~chkRec'[n].closed
  <2>1. \/ chkRec' = chkRec \/ chkRec'[n] = chkRec[n]
        \/ chkRec'[n] = [chkRec[n] EXCEPT !.state = "managed-active"]
        \/ chkRec'[n] = [chkRec[n] EXCEPT !.closed = FALSE]
    BY <1>1, <1>3 DEF W!RecordIsMade, W!Creatable, W!Patches, W!Reopened, CheckoutInv, W!TypeOK
  <2>2. /\ [chkRec[n] EXCEPT !.state = "managed-active"].closed = chkRec[n].closed
        /\ [chkRec[n] EXCEPT !.closed = FALSE].closed = FALSE
    BY <1>1 DEF W!Identities
  <2> QED BY <2>1, <2>2
<1>4. ASSUME NEW c \in CheckoutCalls,
             \/ W!Allocates(c) \/ W!Registers(c) \/ W!Looks(c) \/ W!Adds(c) \/ W!Closes(c) \/ W!Assesses(c)
             \/ W!Removes(c) \/ W!AssessesAgain(c) \/ W!Reopens(c)
      PROVE  chkRec' = chkRec
  BY <1>4 DEF W!Allocates, W!Registers, W!Looks, W!Adds, W!Closes, W!Assesses, W!Removes,
     W!AssessesAgain, W!Reopens, W!disk
<1>5. ASSUME NEW m \in Names, W!Materializes(m) \/ W!Runs(m) \/ W!Edits(m) \/ W!Meddles(m)
      PROVE  chkRec' = chkRec
  BY <1>5 DEF W!Materializes, W!Runs, W!Edits, W!Meddles, W!disk
<1>6. CASE W!Crashes \/ UNCHANGED W!vars
  BY <1>6 DEF W!Crashes, W!vars, W!disk
<1>7. CASE W!Restarts
  <2>1. \/ chkRec' = chkRec
        \/ \E m \in Names : chkRec' = [chkRec EXCEPT ![m] = [chkRec[m] EXCEPT !.readable = FALSE]]
    BY <1>7 DEF W!Restarts
  <2>2. [chkRec[n] EXCEPT !.readable = FALSE].closed = chkRec[n].closed
    BY <1>1 DEF W!Identities
  <2>3. chkRec'[n] = chkRec[n] \/ chkRec'[n] = [chkRec[n] EXCEPT !.readable = FALSE]
    BY <1>1, <2>1 DEF CheckoutInv, W!TypeOK
  <2> QED BY <2>2, <2>3
<1> QED BY <1>2, <1>3, <1>4, <1>5, <1>6, <1>7 DEF W!Next

LEMMA RunsThere ==
  ASSUME CheckoutInv
  PROVE  W!RunsInItsCheckout
<1> SUFFICES ASSUME NEW n \in Names, chkHeld[n] = "running", W!Managed(n), n \notin chkHand
             PROVE  chkPath[n] \in W!Trees /\ chkRegistry[n] = chkRec[n].branch
  BY DEF W!RunsInItsCheckout
<1>1. chkRec[n] # NoOwner /\ ~chkRec[n].closed
  BY DEF CheckoutInv, W!TypeOK
<1> QED BY <1>1 DEF CheckoutInv, PathInv, PathOf, On

\* What the steps may never do.
WorkStays ==
  chkCall' # chkCall =>
    \A n \in Names :
      chkPath'[n] # chkPath[n] =>
        \/ chkPath[n] = "none" /\ chkPath'[n] = "clean"
        \/ /\ chkPath[n] = "clean" /\ chkHeld[n] = "closing"
           /\ W!Managed(n) /\ chkRec[n].cleanup = "delete-on-close"
RecordStays ==
  \A n \in Names : chkRec[n] # NoOwner => chkRec'[n] # NoOwner /\ chkRec'[n].life = chkRec[n].life
GoneWhenSaid ==
  \A n \in Names :
    /\ chkRec[n] # NoOwner /\ ~chkRec[n].closed /\ chkRec'[n].closed
    /\ chkRec'[n].state = "deleted" /\ n \notin chkHand
    => chkPath[n] = "none" /\ chkRegistry[n] = NoOwner

LEMMA CheckoutsAreSafe ==
  ASSUME W!CheckoutsAssumption, CheckoutInv, [W!Next]_(W!vars)
  PROVE  WorkStays /\ RecordStays /\ GoneWhenSaid
BY PathSteps, RecordSteps, RecordCloses DEF WorkStays, RecordStays, GoneWhenSaid

----------------------------------------
(* Tool calls                                                              *)

\* The stages of the server, as a set.
StageSet ==
  {"serving", "refusing", "closing", "sweeping", "draining", "again", "settling", "unbinding", "over"}

\* They are the elements of Stages.
LEMMA StagesAreThese == {A!Stages[k] : k \in DOMAIN A!Stages} = StageSet
<1>1. DOMAIN A!Stages = 1..9
  BY DEF A!Stages
<1>2. \A k \in 1..9 : k = 1 \/ k = 2 \/ k = 3 \/ k = 4 \/ k = 5 \/ k = 6 \/ k = 7 \/ k = 8 \/ k = 9
  OBVIOUS
<1>3. /\ A!Stages[1] = "serving" /\ A!Stages[2] = "refusing" /\ A!Stages[3] = "closing"
      /\ A!Stages[4] = "sweeping" /\ A!Stages[5] = "draining" /\ A!Stages[6] = "again"
      /\ A!Stages[7] = "settling" /\ A!Stages[8] = "unbinding" /\ A!Stages[9] = "over"
  BY DEF A!Stages
<1> QED BY <1>1, <1>2, <1>3 DEF StageSet

\* What is asked of a stop is one of the three things it can be.
LEMMA AskedType ==
  ASSUME tolStop \in {"none", "asked", "joined"}
  PROVE  /\ A!Asked \in {"none", "asked", "joined"}
         /\ tolAgent \notin {"down"} => A!Asked # "none"
         /\ tolStop # "none" => A!Asked # "none"
  BY DEF A!Asked

\* The runtime's steps keep the types.
LEMMA AgentTypes ==
  ASSUME A!ToolsAssumption, A!TypeOK,
         \/ A!WorkEnters \/ A!WorkEnds \/ A!StartBegins \/ A!Created \/ A!Started
         \/ A!StopAsked \/ A!StopBegins \/ A!NativeStops \/ A!NothingToStop \/ A!ShimStarts
  PROVE  A!TypeOK'
<1> USE DEF A!TypeOK, A!agentVars, A!callVars, A!AgentStates
<1>1. CASE A!WorkEnters \/ A!WorkEnds
  BY <1>1 DEF A!WorkEnters, A!WorkEnds
<1>2. CASE A!StartBegins
  <2>1. tolGen' \in 1..MaxGens /\ tolGen' \in 0..MaxGens
    BY <1>2 DEF A!StartBegins, A!ToolsAssumption
  <2>2. 0 \in 0..MaxGens
    BY DEF A!ToolsAssumption
  <2> QED BY <1>2, <2>1, <2>2 DEF A!StartBegins
<1>3. CASE A!Created \/ A!Started
  <2>1. 0 \in 0..MaxGens
    BY DEF A!ToolsAssumption
  <2>2. tolAgent' \in A!AgentStates /\ tolCurrent' \in 0..MaxGens /\ tolTokens' \subseteq 1..MaxGens
    BY <1>3, <2>1 DEF A!Created, A!Started
  <2> QED BY <1>3, <2>2 DEF A!Created, A!Started
<1>4. CASE A!StopAsked
  BY <1>4, AskedType DEF A!StopAsked
<1>5. CASE A!StopBegins
  BY <1>5 DEF A!StopBegins, A!TokensReleased
<1>6. CASE A!NativeStops \/ A!NothingToStop
  <2>1. 0 \in 0..MaxGens
    BY DEF A!ToolsAssumption
  <2>2. tolAgent' \in A!AgentStates /\ tolCurrent' \in 0..MaxGens /\ tolTokens' \subseteq 1..MaxGens
    BY <1>6, <2>1 DEF A!NativeStops, A!NothingToStop
  <2> QED BY <1>6, <2>2 DEF A!NativeStops, A!NothingToStop
<1>7. CASE A!ShimStarts
  BY <1>7 DEF A!ShimStarts
<1> QED BY <1>1, <1>2, <1>3, <1>4, <1>5, <1>6, <1>7

\* So do those of a call.
LEMMA ToolCallTypes ==
  ASSUME A!ToolsAssumption, A!TypeOK, NEW c \in ToolCallers,
         \/ A!Invoke(c) \/ A!Arrive(c) \/ A!LookUp(c) \/ A!Operate(c) \/ A!LeaderRefused(c)
         \/ A!Admit(c) \/ A!Publish(c) \/ A!Ends(c) \/ A!Hear(c) \/ A!Timeout(c)
  PROVE  A!TypeOK'
<1> USE DEF A!TypeOK, A!agentVars, A!Answers
<1>1. CASE A!Invoke(c)
  <2> PICK g \in tolShims, t \in Tools :
        /\ tolCall' = [tolCall EXCEPT ![c] = [gen |-> g, tool |-> t]]
        /\ IF tolStage = "unbinding"
           THEN tolPc' = [tolPc EXCEPT ![c] = "over"] /\ tolHeard' = [tolHeard EXCEPT ![c] = "lost"]
           ELSE tolPc' = [tolPc EXCEPT ![c] = "sent"] /\ UNCHANGED tolHeard
    BY <1>1 DEF A!Invoke
  <2>2. g \in 0..MaxGens
    <3>1. g \in 1..MaxGens
      OBVIOUS
    <3>2. MaxGens \in Nat
      BY DEF A!ToolsAssumption
    <3> QED BY ONLY <3>1, <3>2
  <2>1. [gen |-> g, tool |-> t] \in [gen : 0..MaxGens, tool : Tools]
    BY <2>2
  <2> QED BY <1>1, <2>1 DEF A!Invoke
<1>2. CASE A!Arrive(c)
  BY <1>2 DEF A!Arrive, A!Answer, A!Goes
<1>3. CASE A!LookUp(c) \/ A!LeaderRefused(c)
  BY <1>3 DEF A!LookUp, A!LeaderRefused, A!Answer, A!Goes
<1>4. CASE A!Operate(c)
  BY <1>4 DEF A!Operate, A!Answer, A!Goes, A!Dissolve
<1>5. CASE A!Admit(c)
  BY <1>5 DEF A!Admit, A!Answer, A!Goes
<1>6. CASE A!Publish(c)
  BY <1>6 DEF A!Publish, A!Answer, A!Goes
<1>7. CASE A!Ends(c)
  BY <1>7 DEF A!Ends, A!Answer
<1>8. CASE A!Hear(c) \/ A!Timeout(c)
  BY <1>8 DEF A!Hear, A!Timeout
<1> QED BY <1>1, <1>2, <1>3, <1>4, <1>5, <1>6, <1>7, <1>8

\* So do a dissolve and the shutdown.
LEMMA ToolHostTypes ==
  ASSUME A!TypeOK, A!DissolveAsked \/ A!ClosedWritten \/ A!Dismantle \/ A!Shutdown
  PROVE  A!TypeOK'
<1> USE DEF A!TypeOK, A!agentVars, A!callVars
<1>1. CASE A!DissolveAsked \/ A!ClosedWritten
  BY <1>1 DEF A!DissolveAsked, A!ClosedWritten
<1>2. CASE A!Dismantle
  BY <1>2, AskedType DEF A!Dismantle
<1>3. CASE A!Shutdown
  BY <1>3, AskedType, StagesAreThese DEF A!Shutdown, A!Step, StageSet
<1> QED BY <1>1, <1>2, <1>3

\* Every variable has its type at first, and every step keeps it.
LEMMA ToolTypesStart == ASSUME A!ToolsAssumption, A!Init PROVE A!TypeOK
<1>1. (CHOOSE t \in Tools : TRUE) \in Tools
  BY DEF A!ToolsAssumption
<1>2. 0 \in 0..MaxGens
  BY DEF A!ToolsAssumption
<1> QED BY <1>1, <1>2, StagesAreThese DEF A!Init, A!TypeOK, A!AgentStates, StageSet, A!Answers

LEMMA ToolTypesKept == ASSUME A!ToolsAssumption, A!TypeOK, [A!Next]_(A!vars) PROVE A!TypeOK'
<1>1. CASE UNCHANGED A!vars
  BY <1>1 DEF A!TypeOK, A!vars
<1> QED BY <1>1, AgentTypes, ToolCallTypes, ToolHostTypes DEF A!Next

----------------------------------------
(* Tokens                                                                  *)

\* The tokens are those of the last generation, and only while its state lease holds; no
\* shim and no call is of a later one.
TokenInv ==
  /\ tolTokens \subseteq {tolGen}
  /\ tolTokens # {} => tolCurrent = tolGen
  /\ \A g \in tolShims : g <= tolGen
  /\ \A c \in ToolCallers : tolCall[c].gen <= tolGen
  /\ \A c \in ToolCallers : tolPc[c] = "none" => tolAnswer[c] = "none"
  /\ A!RevokedBeforeTeardown
  /\ A!RevokedForGood

\* The runtime's steps: a token is minted with a generation that nobody has called for.
LEMMA AgentTokens ==
  ASSUME A!ToolsAssumption, A!TypeOK, TokenInv,
         \/ A!WorkEnters \/ A!WorkEnds \/ A!StartBegins \/ A!Created \/ A!Started
         \/ A!StopAsked \/ A!StopBegins \/ A!NativeStops \/ A!NothingToStop \/ A!ShimStarts
  PROVE  TokenInv'
<1> USE DEF TokenInv, A!RevokedBeforeTeardown, A!RevokedForGood, A!callVars
<1>0. tolGen \in Nat /\ \A c \in ToolCallers : tolCall[c].gen \in Nat
  BY DEF A!TypeOK, A!ToolsAssumption
<1>1. CASE A!WorkEnters \/ A!WorkEnds \/ A!StopAsked
  BY <1>1 DEF A!WorkEnters, A!WorkEnds, A!StopAsked
<1>2. CASE A!StartBegins
  <2>1. /\ tolGen' = tolGen + 1 /\ UNCHANGED <<tolShims, tolCall, tolPc, tolAnswer>>
        /\ \/ tolAgent' = "creating" /\ tolCurrent' = tolGen' /\ tolTokens' = {tolGen'}
           \/ tolAgent' = "down" /\ tolTokens' = {}
    BY <1>2 DEF A!StartBegins
  <2>2. \A g \in tolShims : g \in Nat
    <3>1. tolShims \subseteq 1..MaxGens
      BY DEF A!TypeOK
    <3> QED BY ONLY <3>1
  <2>3. \A c \in ToolCallers : tolCall[c].gen # tolGen'
    BY <1>0, <2>1
  <2> QED BY <1>0, <2>1, <2>2, <2>3
<1>3. CASE A!Created \/ A!Started
  BY <1>3 DEF A!Created, A!Started
<1>4. CASE A!StopBegins
  BY <1>4 DEF A!StopBegins, A!TokensReleased
<1>5. CASE A!NativeStops \/ A!NothingToStop
  BY <1>5 DEF A!NativeStops, A!NothingToStop
<1>6. CASE A!ShimStarts
  BY <1>0, <1>6 DEF A!ShimStarts
<1> QED BY <1>1, <1>2, <1>3, <1>4, <1>5, <1>6

\* A call that is refused as revoked is of a generation that has no token: one that has is the
\* last, whose lease holds.
LEMMA CallTokens ==
  ASSUME A!ToolsAssumption, A!TypeOK, TokenInv, NEW c \in ToolCallers,
         \/ A!Invoke(c) \/ A!Arrive(c) \/ A!LookUp(c) \/ A!Operate(c) \/ A!LeaderRefused(c)
         \/ A!Admit(c) \/ A!Publish(c) \/ A!Ends(c) \/ A!Hear(c) \/ A!Timeout(c)
  PROVE  TokenInv'
<1>1. UNCHANGED <<tolGen, tolTokens, tolCurrent, tolShims, tolAgent>>
  BY DEF A!Invoke, A!Arrive, A!LookUp, A!Operate, A!LeaderRefused, A!Admit, A!Publish, A!Ends, A!Hear, A!Timeout, A!agentVars
<1>2. A!RevokedBeforeTeardown'
  BY <1>1 DEF TokenInv, A!RevokedBeforeTeardown
<1>3. CASE A!Invoke(c)
  <2> PICK g \in tolShims, t \in Tools :
        /\ tolCall' = [tolCall EXCEPT ![c] = [gen |-> g, tool |-> t]]
        /\ tolPc' \in {[tolPc EXCEPT ![c] = "over"], [tolPc EXCEPT ![c] = "sent"]}
    BY <1>3 DEF A!Invoke
  <2>1. tolAnswer' = tolAnswer /\ tolPc[c] = "none"
    BY <1>3 DEF A!Invoke
  <2>2. tolCall'[c].gen = g /\ \A d \in ToolCallers : d # c => tolCall'[d] = tolCall[d]
    BY DEF A!TypeOK
  <2>3. tolPc'[c] # "none" /\ \A d \in ToolCallers : d # c => tolPc'[d] = tolPc[d]
    BY DEF A!TypeOK
  <2> QED BY <1>1, <1>2, <2>1, <2>2, <2>3 DEF TokenInv, A!RevokedForGood
<1>4. CASE A!Hear(c) \/ A!Timeout(c)
  BY <1>1, <1>2, <1>4 DEF A!Hear, A!Timeout, TokenInv, A!RevokedForGood
<1>5. CASE /\ tolCall' = tolCall /\ tolPc[c] # "none"
           /\ \E to \in {"entered", "found", "making", "running"} : A!Goes(c, to)
  <2>1. UNCHANGED <<tolCall, tolAnswer>> /\ \A d \in ToolCallers : tolPc'[d] = "none" => tolPc[d] = "none"
    BY <1>5 DEF A!Goes, A!TypeOK
  <2> QED BY <1>1, <1>2, <2>1 DEF TokenInv, A!RevokedForGood
<1>6. CASE /\ tolCall' = tolCall
           /\ \E what \in A!Answers : A!Answer(c, what) /\ (what = "revoked" => ~A!Authorized(c))
  <2> PICK what \in A!Answers : A!Answer(c, what) /\ (what = "revoked" => ~A!Authorized(c))
    BY <1>6
  <2>1. \A d \in ToolCallers : tolPc'[d] = "none" => tolPc[d] = "none" /\ d # c
    BY DEF A!Answer, A!TypeOK
  <2>2. tolAnswer'[c] = what /\ \A d \in ToolCallers : d # c => tolAnswer'[d] = tolAnswer[d]
    BY DEF A!Answer, A!TypeOK
  <2>3. what = "revoked" => tolCall[c].gen \notin tolTokens
    BY DEF A!Authorized, TokenInv
  <2> QED BY <1>1, <1>2, <1>6, <2>1, <2>2, <2>3 DEF TokenInv, A!RevokedForGood
<1>7. CASE A!Arrive(c)
  BY <1>5, <1>6, <1>7 DEF A!Arrive, A!Answers
<1>8. CASE A!LookUp(c) \/ A!LeaderRefused(c)
  BY <1>5, <1>6, <1>8 DEF A!LookUp, A!LeaderRefused, A!Answers
<1>9. CASE A!Operate(c)
  BY <1>5, <1>6, <1>9 DEF A!Operate, A!Answers
<1>10. CASE A!Admit(c) \/ A!Publish(c)
  BY <1>5, <1>6, <1>10 DEF A!Admit, A!Publish, A!Answers
<1>11. CASE A!Ends(c)
  BY <1>6, <1>11 DEF A!Ends, A!Answers
<1> QED BY <1>3, <1>4, <1>7, <1>8, <1>9, <1>10, <1>11

\* Every step keeps what is said of tokens.
LEMMA TokenKept == ASSUME A!ToolsAssumption, A!TypeOK, TokenInv, [A!Next]_(A!vars) PROVE TokenInv'
<1>1. CASE UNCHANGED A!vars
  BY <1>1 DEF A!vars, TokenInv, A!RevokedBeforeTeardown, A!RevokedForGood
<1>2. CASE A!DissolveAsked \/ A!ClosedWritten \/ A!Dismantle \/ A!Shutdown
  <2>1. UNCHANGED <<tolGen, tolTokens, tolCurrent, tolShims, tolAgent, tolCall, tolPc, tolAnswer>>
    BY <1>2 DEF A!DissolveAsked, A!ClosedWritten, A!Dismantle, A!Shutdown, A!Step, A!agentVars, A!callVars
  <2> QED BY <2>1 DEF TokenInv, A!RevokedBeforeTeardown, A!RevokedForGood
<1> QED BY <1>1, <1>2, AgentTokens, CallTokens DEF A!Next

----------------------------------------
(* The shutdown                                                            *)

\* The drain has passed, and the second sweep.
ToolsDrained == tolStage \in {"again", "settling", "unbinding", "over"}
ToolsSwept == tolStage \in {"settling", "unbinding", "over"}

\* Nothing works behind the drain, so that no start is under way and none begins; the second
\* sweep stops what runs, and behind it only a dissolve stops anything.
ShutInv ==
  /\ tolAgent \in {"creating", "starting", "rollback"} => tolWork
  /\ tolAgent = "stopping" => tolStop # "none"
  /\ ToolsDrained => tolFenced = {} /\ ~tolWork
  /\ tolStage = "again" /\ tolAgent = "running" => tolStop # "none"
  /\ ToolsSwept => /\ tolAgent \in {"down", "unproven"} \/ (tolAgent = "stopping" /\ tolTeam = "dismantled")
                   /\ tolStop # "none" => tolTeam = "dismantled"
  /\ tolStage \in {"unbinding", "over"} => \A c \in ToolCallers : tolPc[c] \in {"none", "sent", "over"}

\* The runtime's steps.
LEMMA AgentShut ==
  ASSUME A!TypeOK, ShutInv,
         \/ A!WorkEnters \/ A!WorkEnds \/ A!StartBegins \/ A!Created \/ A!Started
         \/ A!StopAsked \/ A!StopBegins \/ A!NativeStops \/ A!NothingToStop \/ A!ShimStarts
  PROVE  ShutInv'
<1> USE DEF ShutInv, ToolsDrained, ToolsSwept, A!callVars
<1>1. CASE A!WorkEnters \/ A!WorkEnds \/ A!ShimStarts
  BY <1>1 DEF A!WorkEnters, A!WorkEnds, A!ShimStarts, A!FenceOpen
<1>2. CASE A!StartBegins
  BY <1>2 DEF A!StartBegins
<1>3. CASE A!Created \/ A!Started
  BY <1>3 DEF A!Created, A!Started
<1>4. CASE A!StopAsked
  BY <1>4, AskedType DEF A!StopAsked, A!FenceOpen, A!TypeOK
<1>5. CASE A!StopBegins
  BY <1>5 DEF A!StopBegins
<1>6. CASE A!NativeStops \/ A!NothingToStop
  BY <1>6 DEF A!NativeStops, A!NothingToStop
<1> QED BY <1>1, <1>2, <1>3, <1>4, <1>5, <1>6

\* The steps of a call: none enters the fence once it has closed, nor moves once the calls have
\* settled.
LEMMA CallShut ==
  ASSUME A!TypeOK, ShutInv, NEW c \in ToolCallers,
         \/ A!Invoke(c) \/ A!Arrive(c) \/ A!LookUp(c) \/ A!Operate(c) \/ A!LeaderRefused(c)
         \/ A!Admit(c) \/ A!Publish(c) \/ A!Ends(c) \/ A!Hear(c) \/ A!Timeout(c)
  PROVE  ShutInv'
<1>1. UNCHANGED <<tolAgent, tolWork, tolStop, tolStage>>
  BY DEF A!Invoke, A!Arrive, A!LookUp, A!Operate, A!LeaderRefused, A!Admit, A!Publish, A!Ends, A!Hear, A!Timeout, A!agentVars
<1>2. tolTeam = "dismantled" => tolTeam' = "dismantled"
  BY DEF A!Invoke, A!Arrive, A!LookUp, A!Operate, A!LeaderRefused, A!Admit, A!Publish, A!Ends, A!Hear, A!Timeout, A!Dissolve
<1>3. ToolsDrained /\ tolFenced = {} => tolFenced' = {}
  BY DEF ToolsDrained, A!Invoke, A!Arrive, A!LookUp, A!Operate, A!LeaderRefused, A!Admit, A!Publish, A!Ends, A!Hear, A!Timeout,
         A!Answer, A!FenceOpen, A!Accepting
<1>4. ASSUME tolStage \in {"unbinding", "over"}, \A d \in ToolCallers : tolPc[d] \in {"none", "sent", "over"}
      PROVE  \A d \in ToolCallers : tolPc'[d] \in {"none", "sent", "over"}
  <2>1. tolPc' = tolPc \/ (\E to \in {"sent", "over"} : tolPc' = [tolPc EXCEPT ![c] = to])
    <3>1. tolPc[c] \in {"none", "sent", "over"}
      BY <1>4
    <3> QED
      BY <1>4, <3>1 DEF A!Invoke, A!Arrive, A!LookUp, A!Operate, A!LeaderRefused, A!Admit, A!Publish, A!Ends, A!Hear,
                        A!Timeout, A!Answer, A!Accepting
  <2> QED BY <1>4, <2>1 DEF A!TypeOK
<1> QED BY <1>1, <1>2, <1>3, <1>4 DEF ShutInv, ToolsDrained, ToolsSwept

\* The steps of a dissolve and of the shutdown.
LEMMA HostShut ==
  ASSUME A!TypeOK, ShutInv, A!DissolveAsked \/ A!ClosedWritten \/ A!Dismantle \/ A!Shutdown
  PROVE  ShutInv'
<1> USE DEF ShutInv, ToolsDrained, ToolsSwept, A!callVars, A!agentVars
<1>1. CASE A!DissolveAsked \/ A!ClosedWritten
  BY <1>1 DEF A!DissolveAsked, A!ClosedWritten
<1>2. CASE A!Dismantle
  BY <1>2, AskedType DEF A!Dismantle, A!TypeOK
<1>3. CASE A!Shutdown
  <2>1. CASE tolStage \in {"serving", "refusing", "closing"}
    BY <1>3, <2>1, AskedType DEF A!Shutdown, A!Step, A!TypeOK
  <2>2. CASE tolStage \in {"sweeping", "draining"}
    BY <1>3, <2>2, AskedType DEF A!Shutdown, A!Step, A!TypeOK
  <2>3. CASE tolStage \in {"again", "settling", "unbinding"}
    BY <1>3, <2>3 DEF A!Shutdown, A!Step, A!TypeOK, A!AgentStates
  <2> QED BY <1>3, <2>1, <2>2, <2>3 DEF A!Shutdown, A!Step
<1> QED BY <1>1, <1>2, <1>3

\* Every step keeps what is said of the shutdown.
LEMMA ShutKept == ASSUME A!TypeOK, ShutInv, [A!Next]_(A!vars) PROVE ShutInv'
<1>1. CASE UNCHANGED A!vars
  BY <1>1 DEF A!vars, ShutInv, ToolsDrained, ToolsSwept
<1> QED BY <1>1, AgentShut, CallShut, HostShut DEF A!Next

----------------------------------------
(* The theorems                                                            *)

ToolsInv == A!TypeOK /\ TokenInv /\ ShutInv

\* The invariant is inductive, so it always holds.
LEMMA AlwaysToolsInv ==
  ASSUME A!ToolsAssumption
  PROVE  A!Spec => []ToolsInv
<1>1. A!Init => ToolsInv
  <2> SUFFICES ASSUME A!Init PROVE ToolsInv
    OBVIOUS
  <2>1. A!TypeOK
    BY ToolTypesStart
  <2>2. TokenInv
    BY <2>1 DEF A!Init, TokenInv, A!RevokedBeforeTeardown, A!RevokedForGood, A!TypeOK
  <2>3. ShutInv
    BY DEF A!Init, ShutInv, ToolsDrained, ToolsSwept
  <2> QED BY <2>1, <2>2, <2>3 DEF ToolsInv
<1>2. ToolsInv /\ [A!Next]_(A!vars) => ToolsInv'
  BY ToolTypesKept, TokenKept, ShutKept DEF ToolsInv
<1> QED BY <1>1, <1>2, PTL DEF A!Spec

\* No tool has its effect in a Team whose closed record was written, wherever the call stood
\* when it was (Team.admitLeaderTools).
LEMMA ToolsRefusedWhenClosed == A!Spec => A!ClosedTeamStartsNothing
<1>1. ASSUME [A!Next]_(A!vars), NEW c \in ToolCallers, c \in tolStarted' \ tolStarted
      PROVE  tolTeam \notin {"closed", "dismantled"}
  <2>1. CASE \E d \in ToolCallers : A!Operate(d) \/ A!Admit(d) \/ A!Publish(d)
    BY <1>1, <2>1 DEF A!Operate, A!Admit, A!Publish, A!OwnerClosing
  <2>2. CASE tolStarted' = tolStarted
    BY <1>1, <2>2
  <2>3. \/ tolStarted' = tolStarted
        \/ \E d \in ToolCallers : A!Operate(d) \/ A!Admit(d) \/ A!Publish(d)
    BY <1>1 DEF A!Next, A!vars, A!WorkEnters, A!WorkEnds, A!StartBegins, A!Created, A!Started, A!StopAsked, A!StopBegins,
       A!NativeStops, A!NothingToStop, A!ShimStarts, A!Invoke, A!Arrive, A!LookUp, A!LeaderRefused, A!Ends, A!Hear,
       A!Timeout, A!DissolveAsked, A!ClosedWritten, A!Dismantle, A!Shutdown, A!Step, A!callVars
  <2> QED BY <2>1, <2>2, <2>3
<1>2. [A!Next]_(A!vars) => [\A c \in ToolCallers : c \in tolStarted' \ tolStarted => tolTeam \notin {"closed", "dismantled"}]_(A!vars)
  BY <1>1
<1> QED BY <1>2, PTL DEF A!Spec, A!ClosedTeamStartsNothing

----------------------------------------
(* The start and the close of a dispatcher                                 *)

\* The stages of a start behind the publication of the sessions, as far as they run in order.
Initialize == {"initializing"}
Behind == {"agent", "recovering", "activating", "opening", "workflows", "scheduler", "teams", "ready"}

CycleEarly == {"idle", "workspace", "building"}

\* Before the sessions are published nothing is minted, and nobody closes what is being built.
EarlyInv ==
  /\ cycStart \in {"workspace", "building"} => ~cycFence
  /\ cycClose # "none" => cycFence
  /\ cycStart \in CycleEarly =>
       /\ cycEntries = {} /\ \A c \in Channels : cycLease[c] = "none" /\ cycSession[c] \in {"none", "built"}
  /\ cycStart \in {"idle", "workspace"} => \A c \in Channels : cycSession[c] = "none"
  /\ cycStart = "building" => \A c \in Channels : c < cycAt => cycSession[c] = "built"

\* The sessions the service can reach, and the ports that are open.
ReachInv ==
  /\ cycStart # "building" => \A c \in Channels : c \notin cycEntries => cycSession[c] \in {"none", "closed"}
  /\ cycStart \in Initialize \cup Behind => \A c \in Channels : cycSession[c] # "none"
  /\ cycStart \in {"initializing", "opening"} => cycAt \in Channels
  /\ cycStart = "initializing" => \A c \in Channels : c <= cycAt => cycLease[c] # "none"
  /\ cycStart \in Behind => \A c \in Channels : cycLease[c] # "none"
  /\ cycStart = "initializing" /\ ~cycFence => cycEntries = Channels
  /\ \A c \in Channels : cycLease[c] = "open" => ~cycFence /\ c \in cycEntries

\* What each stage of the release has behind it.
ReleaseInv ==
  /\ cycClose \in {D!AfterDrain, "close all", "channels", "done"} => cycWork = 0
  /\ cycClose \in {"close all", "channels"} /\ ~cycFailed => cycAgent \in {"none", "idle"}
  /\ cycClose = "channels" => cycTodo \subseteq cycEntries
  /\ cycClose = "channels" /\ ~cycFailed => cycEntries \subseteq cycTodo
  /\ cycClose = "done" => cycAgent \in {"none", "idle"} /\ cycEntries = {}

CycleInv == D!TypeOK /\ EarlyInv /\ ReachInv /\ ReleaseInv

\* Its sets are counted as everywhere.
LEMMA CycleCounts ==
  ASSUME NEW S
  PROVE  D!Cardinality(S) = Cardinality(S) /\ D!IsFiniteSet(S) = IsFiniteSet(S)
<1>1. D!Cardinality(S) = Cardinality(S)
  BY DEF D!Cardinality, Cardinality
<1>2. D!IsFiniteSet(S) = IsFiniteSet(S)
  BY DEF D!IsFiniteSet, IsFiniteSet
<1> QED BY <1>1, <1>2

\* What a loop over the channels needs to know of their numbers.
LEMMA ChannelFacts ==
  ASSUME D!LifecycleAssumption
  PROVE  /\ 1 \in Channels /\ 1 \in 1..D!Cardinality(Channels) + 1
         /\ \A c \in Channels : c \in Int /\ 1 <= c /\ c + 1 \in 1..D!Cardinality(Channels) + 1
         /\ \A k \in 1..D!Cardinality(Channels) + 1 : k \in Int /\ (k \in Channels \/ \A c \in Channels : c < k)
         /\ \A c \in Channels : c + 1 \in Channels \/ \A d \in Channels : d <= c
<1>1. D!Cardinality(Channels) \in Nat
  BY FS_CardinalityType, CycleCounts DEF D!LifecycleAssumption
<1>2. Channels = 1..D!Cardinality(Channels) /\ Channels # {}
  BY DEF D!LifecycleAssumption
<1>3. PICK n \in Nat : n = D!Cardinality(Channels)
  BY <1>1
<1>4. n >= 1
  BY <1>2, <1>3
<1> HIDE <1>1
<1> QED BY <1>2, <1>3, <1>4

LEMMA ChannelOrder ==
  ASSUME D!LifecycleAssumption, NEW k \in Channels
  PROVE  /\ \A c \in Channels : c < k + 1 => c = k \/ c < k
         /\ \A c \in Channels : c <= k + 1 => c = k + 1 \/ c <= k
         /\ \A c \in Channels : ~(c < 1) /\ (c <= 1 => c = 1)
         /\ k <= k
<1>1. k \in Int /\ \A c \in Channels : c \in Int /\ 1 <= c
  BY ChannelFacts
<1> QED BY <1>1

\* The doors, one by one.
LEMMA DoorFacts ==
  ASSUME NEW i \in 1..3
  PROVE  /\ D!Doors[i] \in {"workflows", "scheduler", "teams"}
         /\ (IF i = 3 THEN "ready" ELSE D!Doors[i + 1]) \in {"scheduler", "teams", "ready"}
<1>1. i = 1 \/ i = 2 \/ i = 3
  OBVIOUS
<1>2. D!Doors[1] = "workflows" /\ D!Doors[2] = "scheduler" /\ D!Doors[3] = "teams"
  BY DEF D!Doors
<1> QED BY <1>1, <1>2

\* The counters stay within their bounds.
LEMMA CounterFacts ==
  ASSUME D!LifecycleAssumption, cycWork \in 0..MaxWork, cycFailures \in 0..MaxFailures
  PROVE  /\ D!Arrives => cycWork' \in 0..MaxWork
         /\ D!WorkEnds => cycWork' \in 0..MaxWork
         /\ D!Broke => cycFailures' \in 0..MaxFailures
         /\ cycWork > 0 => cycWork # 0
<1>1. MaxWork \in Nat /\ MaxFailures \in Nat
  BY DEF D!LifecycleAssumption
<1>2. D!Arrives => cycWork' \in 0..MaxWork
  BY <1>1 DEF D!Arrives
<1>3. D!WorkEnds => cycWork' \in 0..MaxWork
  BY <1>1 DEF D!WorkEnds
<1>4. D!Broke => cycFailures' \in 0..MaxFailures
  BY <1>1 DEF D!Broke
<1> QED BY <1>1, <1>2, <1>3, <1>4

LEMMA CycleStarts == ASSUME D!LifecycleAssumption, D!Init PROVE CycleInv
<1>1. 0 \in 0..MaxWork /\ 0 \in 0..MaxFailures
  BY DEF D!LifecycleAssumption
<1>2. cycAt \in 1..D!Cardinality(Channels) + 1
  BY ChannelFacts DEF D!Init
<1>4. D!TypeOK
  BY <1>1, <1>2 DEF D!Init, D!TypeOK, D!StartStates
<1>3. EarlyInv /\ ReachInv /\ ReleaseInv
  BY DEF D!Init, EarlyInv, ReachInv, ReleaseInv, CycleEarly, Initialize, Behind, D!AfterDrain
<1> QED BY <1>4, <1>3 DEF CycleInv

LEMMA StartKeeps ==
  ASSUME D!LifecycleAssumption, CycleInv,
         D!Starts \/ D!WorkspaceEnsured \/ D!BuildsSession \/ D!BuildFails
  PROVE  CycleInv'
<1> USE ChannelFacts DEF CycleInv, D!TypeOK, D!StartStates
<1>1. CASE D!Starts
  <2>1. D!TypeOK'
    BY <1>1 DEF D!Starts, D!channels, D!closing
  <2>2. EarlyInv' /\ ReleaseInv'
    BY <1>1 DEF D!Starts, D!channels, D!closing, EarlyInv, ReleaseInv, CycleEarly
  <2>3. ReachInv'
    BY <1>1 DEF D!Starts, D!channels, D!closing, EarlyInv, ReachInv, CycleEarly, Initialize, Behind
  <2> QED BY <2>1, <2>2, <2>3
<1>2. CASE D!WorkspaceEnsured
  <2>1. D!TypeOK'
    BY <1>2 DEF D!WorkspaceEnsured, D!Fails, D!channels, D!closing
  <2>2. EarlyInv' /\ ReleaseInv'
    <3>1. cycStart' = "building" => \A c \in Channels : ~(c < cycAt')
      <4>1. cycStart' = "building" => cycAt' = 1
        BY <1>2 DEF D!WorkspaceEnsured, D!Fails
      <4>2. \A c \in Channels : ~(c < 1)
        BY ChannelFacts, ChannelOrder
      <4> QED BY <4>1, <4>2
    <3> QED BY <1>2, <3>1 DEF D!WorkspaceEnsured, D!Fails, D!channels, D!closing, EarlyInv, ReleaseInv, CycleEarly
  <2>3. ReachInv'
    BY <1>2 DEF D!WorkspaceEnsured, D!Fails, D!channels, D!closing, EarlyInv, ReachInv, CycleEarly, Initialize, Behind
  <2> QED BY <2>1, <2>2, <2>3
<1>3. CASE D!BuildsSession
  <2>0. /\ cycStart = "building" /\ cycStart' = cycStart /\ cycAt \in Channels /\ cycAt' = cycAt + 1
        /\ cycSession' \in [Channels -> {"none", "built", "initialized", "live", "closed"}]
        /\ \A c \in Channels : cycSession'[c] = IF c = cycAt THEN "built" ELSE cycSession[c]
        /\ cycAt + 1 \in 1..D!Cardinality(Channels) + 1
    BY <1>3 DEF D!BuildsSession
  <2>1. D!TypeOK'
    BY <1>3, <2>0 DEF D!BuildsSession, D!closing
  <2>5. \A c \in Channels : c < cycAt' => cycSession'[c] = "built"
    <3>1. \A c \in Channels : c < cycAt + 1 => c = cycAt \/ c < cycAt
      BY <2>0, ChannelOrder
    <3> QED BY <2>0, <3>1 DEF EarlyInv
  <2>2. EarlyInv' /\ ReleaseInv'
    BY <1>3, <2>0, <2>5 DEF D!BuildsSession, D!closing, EarlyInv, ReleaseInv, CycleEarly
  <2>3. ReachInv'
    BY <1>3, <2>0 DEF D!BuildsSession, D!closing, EarlyInv, ReachInv, CycleEarly, Initialize, Behind
  <2> QED BY <2>1, <2>2, <2>3
<1>4. CASE D!BuildFails
  <2>0. /\ cycStart = "building" /\ cycStart' = "failing" /\ cycAt' = cycAt
        /\ \A c \in Channels : cycSession'[c] = IF cycSession[c] = "built" THEN "closed" ELSE cycSession[c]
        /\ cycSession' \in [Channels -> {"none", "built", "initialized", "live", "closed"}]
    BY <1>4 DEF D!BuildFails, D!Fails
  <2>1. D!TypeOK'
    BY <1>4, <2>0 DEF D!BuildFails, D!closing
  <2>2. EarlyInv' /\ ReleaseInv'
    BY <1>4, <2>0 DEF D!BuildFails, D!closing, EarlyInv, ReleaseInv, CycleEarly
  <2>3. ReachInv'
    BY <1>4, <2>0 DEF D!BuildFails, D!closing, EarlyInv, ReachInv, CycleEarly, Initialize, Behind
  <2> QED BY <2>1, <2>2, <2>3
<1> QED BY <1>1, <1>2, <1>3, <1>4

\* A port is minted for one session.
LEMMA MintedFacts ==
  ASSUME D!TypeOK, NEW c \in Channels, D!Minted(c)
  PROVE  /\ cycLease' \in [Channels -> {"none", "open", "fenced"}]
         /\ \A d \in Channels : cycLease'[d] = IF d = c THEN "open" ELSE cycLease[d]
  BY DEF D!TypeOK, D!Minted

\* A step of its own never brings a closed session back.
LEMMA BecomesFacts ==
  ASSUME D!TypeOK, NEW c \in Channels, NEW state \in {"initialized", "live"}, cycSession' = D!Becomes(c, state)
  PROVE  /\ cycSession' \in [Channels -> {"none", "built", "initialized", "live", "closed"}]
         /\ \A d \in Channels : cycSession'[d] = IF d = c /\ cycSession[d] # "closed" THEN state ELSE cycSession[d]
  BY DEF D!TypeOK, D!Becomes

LEMMA PublishKeeps ==
  ASSUME D!LifecycleAssumption, CycleInv, D!Publishes
  PROVE  CycleInv'
<1> USE ChannelFacts DEF CycleInv, D!TypeOK, D!StartStates
<1>1. /\ cycLease' \in [Channels -> {"none", "open", "fenced"}]
      /\ \A d \in Channels : cycLease'[d] = IF d = 1 THEN "open" ELSE cycLease[d]
  BY MintedFacts DEF D!Publishes
<1>2. /\ cycStart = "building" /\ cycStart' = "initializing" /\ cycAt' = 1 /\ cycEntries' = Channels
      /\ ~cycFence /\ cycFence' = cycFence /\ cycSession' = cycSession
      /\ \A c \in Channels : c < cycAt
  BY ChannelFacts DEF D!Publishes, EarlyInv
<1>3. \A c \in Channels : cycSession[c] = "built"
  BY <1>2 DEF EarlyInv
<1>4. D!TypeOK'
  BY <1>1, <1>2, <1>3 DEF D!Publishes, D!closing
<1>5. EarlyInv'
  BY <1>2 DEF D!Publishes, D!closing, EarlyInv, CycleEarly
<1>6. ReleaseInv'
  BY <1>2 DEF D!Publishes, D!closing, EarlyInv, ReleaseInv, D!AfterDrain
<1>7. ReachInv'
  <2>1. \A c \in Channels : c <= cycAt' => cycLease'[c] # "none"
    BY <1>1, <1>2, ChannelOrder
  <2>2. \A c \in Channels : cycLease'[c] = "open" => ~cycFence' /\ c \in cycEntries'
    BY <1>1, <1>2
  <2> QED BY <1>2, <1>3, <2>1, <2>2 DEF ReachInv, Behind
<1> QED BY <1>4, <1>5, <1>6, <1>7

LEMMA InitializedKeeps ==
  ASSUME D!LifecycleAssumption, CycleInv, D!Initialized
  PROVE  CycleInv'
<1> USE ChannelFacts DEF CycleInv, D!TypeOK, D!StartStates
<1>0. /\ cycStart = "initializing" /\ cycAt \in Channels
      /\ UNCHANGED <<cycFence, cycWork, cycEntries, cycAgent, cycAdmissions, D!closing>>
  BY DEF D!Initialized, ReachInv
<1>m. cycLease[cycAt] # "none" /\ cycAt + 1 \in 1..D!Cardinality(Channels) + 1
  BY <1>0, ChannelOrder DEF ReachInv
<1>1. CASE D!Fails("initializing") /\ UNCHANGED <<cycSession, cycLease>>
  <2>1. cycStart' = "failing" /\ cycAt' = cycAt
    BY <1>1 DEF D!Fails
  <2>2. D!TypeOK'
    BY <1>0, <1>1, <2>1 DEF D!closing
  <2>3. EarlyInv' /\ ReleaseInv'
    BY <1>0, <1>1, <2>1 DEF D!closing, EarlyInv, ReleaseInv, CycleEarly
  <2>4. ReachInv'
    BY <1>0, <1>1, <2>1 DEF ReachInv, Initialize, Behind
  <2> QED BY <2>2, <2>3, <2>4
<1>2. CASE /\ cycSession' = D!Becomes(cycAt, "initialized")
           /\ D!NextSession("agent")
           /\ IF ~cycFence /\ cycAt + 1 \in Channels THEN D!Minted(cycAt + 1) ELSE UNCHANGED cycLease
  <2>1. /\ cycSession' \in [Channels -> {"none", "built", "initialized", "live", "closed"}]
        /\ \A d \in Channels : cycSession'[d] = IF d = cycAt /\ cycSession[d] # "closed" THEN "initialized" ELSE cycSession[d]
    BY <1>0, <1>2, BecomesFacts
  <2>2. CASE cycFence
    <3>1. cycStart' = "failing" /\ cycAt' = cycAt /\ cycLease' = cycLease
      BY <1>2, <2>2 DEF D!NextSession
    <3>2. D!TypeOK'
      BY <1>0, <1>m, <2>1, <3>1 DEF D!closing
    <3>3. EarlyInv' /\ ReleaseInv'
      BY <1>0, <3>1 DEF D!closing, EarlyInv, ReleaseInv, CycleEarly
    <3>4. ReachInv'
      BY <1>0, <2>1, <3>1 DEF ReachInv, Initialize, Behind
    <3> QED BY <3>2, <3>3, <3>4
  <2>3. CASE ~cycFence /\ cycAt + 1 \in Channels
    <3>1. cycStart' = "initializing" /\ cycAt' = cycAt + 1
      BY <1>0, <1>2, <2>3 DEF D!NextSession
    <3>2. /\ cycLease' \in [Channels -> {"none", "open", "fenced"}]
          /\ \A d \in Channels : cycLease'[d] = IF d = cycAt + 1 THEN "open" ELSE cycLease[d]
      BY <1>2, <2>3, MintedFacts
    <3>3. D!TypeOK'
      BY <1>0, <1>m, <2>1, <3>1, <3>2 DEF D!closing
    <3>4. EarlyInv' /\ ReleaseInv'
      BY <1>0, <3>1 DEF D!closing, EarlyInv, ReleaseInv, CycleEarly
    <3>5. ReachInv'
      <4>1. \A c \in Channels : c <= cycAt + 1 => c = cycAt + 1 \/ c <= cycAt
        BY <1>0, ChannelOrder
      <4>2. \A c \in Channels : c <= cycAt' => cycLease'[c] # "none"
        BY <1>0, <3>1, <3>2, <4>1 DEF ReachInv
      <4>3. \A c \in Channels : cycLease'[c] = "open" => ~cycFence' /\ c \in cycEntries'
        BY <1>0, <3>2, <2>3 DEF ReachInv
      <4>4. /\ \A c \in Channels : c \notin cycEntries' => cycSession'[c] \in {"none", "closed"}
            /\ \A c \in Channels : cycSession'[c] # "none"
        BY <1>0, <2>1, <2>3 DEF ReachInv, Initialize
      <4> QED BY <1>0, <3>1, <2>3, <4>2, <4>3, <4>4 DEF ReachInv, Behind
    <3> QED BY <3>3, <3>4, <3>5
  <2>4. CASE ~cycFence /\ cycAt + 1 \notin Channels
    <3>1. cycStart' = "agent" /\ cycAt' = 1 /\ cycLease' = cycLease /\ \A d \in Channels : d <= cycAt
      BY <1>0, <1>2, <2>4 DEF D!NextSession
    <3>3. D!TypeOK'
      BY <1>0, <2>1, <3>1 DEF D!closing, ReachInv
    <3>4. EarlyInv' /\ ReleaseInv'
      BY <1>0, <3>1 DEF D!closing, EarlyInv, ReleaseInv, CycleEarly
    <3>5. ReachInv'
      BY <1>0, <2>1, <3>1, <2>4 DEF ReachInv, Initialize, Behind
    <3> QED BY <3>3, <3>4, <3>5
  <2> QED BY <2>2, <2>3, <2>4
<1> QED BY <1>1, <1>2 DEF D!Initialized

\* The steps of a start behind the sessions: they touch the Agent, the doors and one session.
LEMMA BehindKeeps ==
  ASSUME D!LifecycleAssumption, CycleInv,
         D!AgentBuilt \/ D!Recovered \/ D!Activated \/ D!DoorOpens
  PROVE  CycleInv'
<1> USE ChannelFacts DEF CycleInv, D!TypeOK, D!StartStates
<1>1. CASE D!AgentBuilt
  <2>1. D!TypeOK'
    BY <1>1 DEF D!AgentBuilt, D!Goes, D!Fails, D!channels, D!closing
  <2>2. EarlyInv' /\ ReleaseInv'
    BY <1>1 DEF D!AgentBuilt, D!Goes, D!Fails, D!channels, D!closing, EarlyInv, ReleaseInv, CycleEarly
  <2>3. ReachInv'
    BY <1>1 DEF D!AgentBuilt, D!Goes, D!Fails, D!channels, ReachInv, Initialize, Behind
  <2> QED BY <2>1, <2>2, <2>3
<1>2. CASE D!Recovered
  <2>1. D!TypeOK'
    BY <1>2 DEF D!Recovered, D!Goes, D!Fails, D!channels, D!closing
  <2>2. EarlyInv' /\ ReleaseInv'
    BY <1>2 DEF D!Recovered, D!Goes, D!Fails, D!channels, D!closing, EarlyInv, ReleaseInv, CycleEarly
  <2>3. ReachInv'
    BY <1>2 DEF D!Recovered, D!Goes, D!Fails, D!channels, ReachInv, Initialize, Behind
  <2> QED BY <2>1, <2>2, <2>3
<1>3. CASE D!Activated
  <2>1. D!TypeOK'
    BY <1>3 DEF D!Activated, D!Goes, D!Fails, D!channels, D!closing
  <2>2. EarlyInv' /\ ReleaseInv'
    BY <1>3 DEF D!Activated, D!Goes, D!Fails, D!channels, D!closing, EarlyInv, ReleaseInv, CycleEarly
  <2>3. ReachInv'
    BY <1>3 DEF D!Activated, D!Goes, D!Fails, D!channels, ReachInv, Initialize, Behind
  <2> QED BY <2>1, <2>2, <2>3
<1>4. CASE D!DoorOpens
  <2>0. \E d \in {"workflows", "scheduler", "teams"} :
          /\ cycStart = d /\ cycStart' \in {"failing", "scheduler", "teams", "ready"} /\ cycAt' \in {1, cycAt}
          /\ cycAdmissions' \subseteq {"workflows", "scheduler", "teams"}
    <3> PICK i \in 1..3 :
          /\ cycStart = D!Doors[i]
          /\ \/ /\ cycAdmissions' = cycAdmissions \cup {D!Doors[i]}
                /\ D!Goes(IF i = 3 THEN "ready" ELSE D!Doors[i + 1])
             \/ D!Fails(D!Doors[i]) /\ UNCHANGED cycAdmissions
      BY <1>4 DEF D!DoorOpens
    <3> QED BY DoorFacts DEF D!Goes, D!Fails
  <2>1. UNCHANGED <<cycFence, cycWork, D!channels, cycAgent, D!closing>>
    BY <1>4 DEF D!DoorOpens
  <2>2. D!TypeOK'
    BY <2>0, <2>1 DEF D!channels, D!closing
  <2>3. EarlyInv' /\ ReleaseInv'
    BY <2>0, <2>1 DEF D!channels, D!closing, EarlyInv, ReleaseInv, CycleEarly
  <2>4. ReachInv'
    BY <2>0, <2>1 DEF D!channels, ReachInv, Initialize, Behind
  <2> QED BY <2>2, <2>3, <2>4
<1> QED BY <1>1, <1>2, <1>3, <1>4

LEMMA SessionStartedKeeps ==
  ASSUME D!LifecycleAssumption, CycleInv, D!SessionStarted
  PROVE  CycleInv'
<1> USE ChannelFacts DEF CycleInv, D!TypeOK, D!StartStates
<1>0. /\ cycStart = "opening" /\ cycAt \in Channels
      /\ UNCHANGED <<cycFence, cycWork, cycEntries, cycLease, cycAgent, cycAdmissions, D!closing>>
      /\ cycStart' \in {"opening", "workflows", "failing"} /\ cycAt' \in 1..D!Cardinality(Channels) + 1
      /\ cycStart' = "opening" => cycAt' \in Channels
  BY DEF D!SessionStarted, ReachInv, D!NextSession, D!Fails
<1>1. /\ cycSession' \in [Channels -> {"none", "built", "initialized", "live", "closed"}]
      /\ \A d \in Channels : cycSession'[d] = cycSession[d] \/ (cycSession'[d] = "live" /\ cycSession[d] # "closed")
  BY <1>0, BecomesFacts DEF D!SessionStarted
<1>2. D!TypeOK'
  BY <1>0, <1>1 DEF D!closing, ReachInv, Behind
<1>3. EarlyInv' /\ ReleaseInv'
  BY <1>0 DEF D!closing, EarlyInv, ReleaseInv, CycleEarly
<1>4. ReachInv'
  BY <1>0, <1>1 DEF ReachInv, Initialize, Behind
<1> QED BY <1>2, <1>3, <1>4

LEMMA WorkKeeps ==
  ASSUME D!LifecycleAssumption, CycleInv, D!Arrives \/ D!WakesAgent \/ D!WorkEnds
  PROVE  CycleInv'
<1> USE DEF CycleInv, D!TypeOK, D!StartStates
<1>w. /\ D!Arrives => cycWork' \in 0..MaxWork
      /\ D!WorkEnds => cycWork' \in 0..MaxWork
  BY CounterFacts
<1>0. /\ cycWork' \in 0..MaxWork /\ cycAgent' \in {"none", "idle", "starting", "up"}
      /\ UNCHANGED <<cycFence, D!starting, D!channels, cycAdmissions, D!closing>>
  BY <1>w DEF D!Arrives, D!WakesAgent, D!WorkEnds
<1>1. D!TypeOK'
  BY <1>0 DEF D!starting, D!channels, D!closing
<1>2. EarlyInv'
  BY <1>0 DEF D!starting, D!channels, D!closing, EarlyInv
<1>3. ReachInv'
  BY <1>0 DEF D!starting, D!channels, D!closing, ReachInv
<1>4. ReleaseInv'
  <2>1. CASE D!Arrives
    BY <2>1 DEF D!Arrives, D!closing, EarlyInv, ReleaseInv, D!AfterDrain
  <2>2. CASE D!WakesAgent
    <3>1. cycWork # 0
      BY <2>2, CounterFacts DEF D!WakesAgent
    <3> QED BY <2>2, <3>1 DEF D!WakesAgent, D!channels, D!closing, ReleaseInv, D!AfterDrain
  <2>3. CASE D!WorkEnds
    <3>1. cycWork # 0
      BY <2>3, CounterFacts DEF D!WorkEnds
    <3> QED BY <2>3, <3>1 DEF D!WorkEnds, D!channels, D!closing, ReleaseInv, D!AfterDrain
  <2> QED BY <2>1, <2>2, <2>3
<1> QED BY <1>1, <1>2, <1>3, <1>4

\* The fence takes every open port with it.
LEMMA FencedFacts ==
  ASSUME D!TypeOK, ReachInv, cycLease' = D!Fenced(cycLease)
  PROVE  /\ cycLease' \in [Channels -> {"none", "open", "fenced"}]
         /\ \A c \in Channels : cycLease'[c] # "open" /\ (cycLease'[c] = "none" <=> cycLease[c] = "none")
  BY DEF D!TypeOK, ReachInv, D!Fenced

LEMMA CloseBeginsKeeps ==
  ASSUME D!LifecycleAssumption, CycleInv, D!BeginsClose,
         cycStart' = cycStart \/ (cycStart = "failing" /\ cycStart' = "closing"), cycAt' = cycAt,
         cycStart \notin {"workspace", "building"}
  PROVE  CycleInv'
<1> USE DEF CycleInv, D!TypeOK, D!StartStates
<1>1. /\ cycLease' \in [Channels -> {"none", "open", "fenced"}]
      /\ \A c \in Channels : cycLease'[c] # "open" /\ (cycLease'[c] = "none" <=> cycLease[c] = "none")
  BY FencedFacts DEF D!BeginsClose, ReachInv
<1>2. D!TypeOK'
  BY <1>1 DEF D!BeginsClose
<1>3. EarlyInv'
  BY <1>1 DEF D!BeginsClose, EarlyInv, CycleEarly
<1>4. ReleaseInv'
  BY DEF D!BeginsClose, ReleaseInv, D!AfterDrain
<1>5. ReachInv'
  BY <1>1 DEF D!BeginsClose, ReachInv, Initialize, Behind
<1> QED BY <1>2, <1>3, <1>4, <1>5

LEMMA StartFailsKeeps ==
  ASSUME D!LifecycleAssumption, CycleInv, D!Closes \/ D!FailedStartCloses \/ D!StartFailed
  PROVE  CycleInv'
<1>1. CASE D!Closes
  <2>1. cycStart \notin {"workspace", "building"}
    BY <1>1 DEF D!Closes
  <2>2. D!BeginsClose /\ UNCHANGED D!starting
    BY <1>1 DEF D!Closes
  <2>3. cycStart' = cycStart /\ cycAt' = cycAt
    BY <2>2 DEF D!starting
  <2> QED BY <2>1, <2>2, <2>3, CloseBeginsKeeps
<1>2. CASE D!FailedStartCloses /\ D!BeginsClose
  BY <1>2, CloseBeginsKeeps DEF D!FailedStartCloses
<1>3. CASE /\ cycStart \in {"failing", "closing"} /\ cycStart' \in {"closing", "failed"} /\ cycAt' = cycAt
           /\ UNCHANGED <<cycFence, cycWork, D!channels, cycAgent, cycAdmissions, D!closing>>
  <2> USE DEF CycleInv, D!TypeOK, D!StartStates
  <2>1. D!TypeOK'
    BY <1>3 DEF D!channels, D!closing
  <2>2. EarlyInv' /\ ReleaseInv'
    BY <1>3 DEF D!channels, D!closing, EarlyInv, ReleaseInv, CycleEarly
  <2>3. ReachInv'
    BY <1>3 DEF D!channels, ReachInv, Initialize, Behind
  <2> QED BY <2>1, <2>2, <2>3
<1> QED BY <1>1, <1>2, <1>3 DEF D!FailedStartCloses, D!StartFailed

LEMMA ReleaseKeeps ==
  ASSUME D!LifecycleAssumption, CycleInv, D!CloseSteps
  PROVE  CycleInv'
<1> USE DEF CycleInv, D!TypeOK, D!StartStates
<1>0. cycFence
  BY DEF D!CloseSteps, D!SweepsAgent, D!Drains, D!BeginsCloseAll, D!CloseSettles, D!ClosesSession, EarlyInv
<1>1. CASE D!SweepsAgent
  <2>0. cycFailures' \in 0..MaxFailures /\ cycFailed' \in BOOLEAN
    <3>1. D!Broke => cycFailures' \in 0..MaxFailures /\ cycFailed' \in BOOLEAN
      BY CounterFacts DEF D!Broke
    <3> QED BY <1>1, <3>1 DEF D!SweepsAgent
  <2>1. D!TypeOK'
    BY <1>1, <2>0 DEF D!SweepsAgent, D!starting, D!channels
  <2>2. EarlyInv' /\ ReachInv'
    BY <1>1, <1>0 DEF D!SweepsAgent, D!starting, D!channels, EarlyInv, ReachInv
  <2>3. ReleaseInv'
    BY <1>1 DEF D!SweepsAgent, D!Broke, D!channels, ReleaseInv, D!AfterDrain
  <2> QED BY <2>1, <2>2, <2>3
<1>2. CASE D!Drains
  <2>1. D!TypeOK'
    BY <1>2 DEF D!Drains, D!starting, D!channels, D!AfterDrain
  <2>2. EarlyInv' /\ ReachInv'
    BY <1>2, <1>0 DEF D!Drains, D!starting, D!channels, EarlyInv, ReachInv
  <2>3. ReleaseInv'
    BY <1>2 DEF D!Drains, D!channels, ReleaseInv, D!AfterDrain, D!NothingAdmitted
  <2> QED BY <2>1, <2>2, <2>3
<1>3. CASE D!BeginsCloseAll
  <2>0. /\ cycLease' \in [Channels -> {"none", "open", "fenced"}]
        /\ \A c \in Channels : cycLease'[c] # "open" /\ (cycLease'[c] = "none" <=> cycLease[c] = "none")
    BY <1>3, FencedFacts DEF D!BeginsCloseAll
  <2>1. D!TypeOK'
    BY <1>3, <2>0 DEF D!BeginsCloseAll, D!starting
  <2>2. EarlyInv'
    BY <1>3, <1>0, <2>0 DEF D!BeginsCloseAll, D!starting, EarlyInv, CycleEarly
  <2>3. ReleaseInv'
    BY <1>3 DEF D!BeginsCloseAll, ReleaseInv, D!AfterDrain
  <2>4. ReachInv'
    BY <1>3, <1>0, <2>0 DEF D!BeginsCloseAll, D!starting, ReachInv
  <2> QED BY <2>1, <2>2, <2>3, <2>4
<1>4. CASE D!CloseSettles
  <2>1. D!TypeOK'
    BY <1>4 DEF D!CloseSettles, D!starting, D!channels, D!AfterRelease
  <2>2. EarlyInv' /\ ReachInv'
    BY <1>4, <1>0 DEF D!CloseSettles, D!starting, D!channels, EarlyInv, ReachInv
  <2>3. ReleaseInv'
    BY <1>4 DEF D!CloseSettles, D!channels, ReleaseInv, D!AfterDrain, D!AfterRelease
  <2> QED BY <2>1, <2>2, <2>3
<1>5. ASSUME NEW c \in Channels, D!ClosesSession(c) PROVE CycleInv'
  <2>0. /\ cycSession' \in [Channels -> {"none", "built", "initialized", "live", "closed"}]
        /\ \A d \in Channels : cycSession'[d] = cycSession[d] \/ (d = c /\ cycSession'[d] = "closed")
        /\ \/ cycSession'[c] = "closed" /\ cycEntries' = cycEntries \ {c} /\ cycFailed' = cycFailed /\ cycFailures' = cycFailures
           \/ cycSession' = cycSession /\ cycEntries' = cycEntries /\ cycFailed' = TRUE /\ cycFailures' \in 0..MaxFailures
    BY <1>5 DEF D!ClosesSession, D!Broke, D!Remains, D!LifecycleAssumption
  <2>1. /\ cycClose = "channels" /\ c \in cycTodo /\ cycTodo' = cycTodo \ {c}
        /\ UNCHANGED <<cycFence, cycWork, cycStart, cycAt, cycLease, cycAgent, cycAdmissions, cycClose>>
    BY <1>5 DEF D!ClosesSession, D!starting
  <2>2. D!TypeOK'
    BY <2>0, <2>1
  <2>3. cycStart \notin CycleEarly
    BY <2>1 DEF EarlyInv, ReleaseInv
  <2>4. EarlyInv'
    BY <1>0, <2>1, <2>3 DEF EarlyInv, CycleEarly
  <2>5. ReleaseInv'
    BY <2>0, <2>1 DEF ReleaseInv, D!AfterDrain
  <2>6. ReachInv'
    BY <1>0, <2>0, <2>1 DEF ReachInv, Initialize, Behind
  <2> QED BY <2>2, <2>4, <2>5, <2>6
<1> QED BY <1>1, <1>2, <1>3, <1>4, <1>5 DEF D!CloseSteps

LEMMA CycleKeeps ==
  ASSUME D!LifecycleAssumption, CycleInv, [D!Next]_(D!vars)
  PROVE  CycleInv'
<1>1. CASE UNCHANGED D!vars
  <2> USE <1>1 DEF D!vars, D!starting, D!channels, D!closing
  <2>1. D!TypeOK'
    BY DEF CycleInv, D!TypeOK
  <2>2. EarlyInv'
    BY DEF CycleInv, EarlyInv
  <2>3. ReachInv'
    BY DEF CycleInv, ReachInv
  <2>4. ReleaseInv'
    BY DEF CycleInv, ReleaseInv
  <2> QED BY <2>1, <2>2, <2>3, <2>4 DEF CycleInv
<1>2. CASE D!Next
  BY <1>2, StartKeeps, PublishKeeps, InitializedKeeps, BehindKeeps, SessionStartedKeeps, WorkKeeps,
     StartFailsKeeps, ReleaseKeeps DEF D!Next, D!StartSteps
<1> QED BY <1>1, <1>2

LEMMA CycleMeans == CycleInv => D!ClosedHoldsNothing
  BY DEF CycleInv, D!TypeOK, ReachInv, ReleaseInv, D!ClosedHoldsNothing, D!ClosedHoldsNoSession, D!ClosedRunsNothing, D!Settled, EarlyInv

----------------------------------------
(* The dispatcher                                                          *)

\* Beside the other parts a Team behaves as it does alone.
LEMMA TeamAlone == DispatcherSpec => Spec
<1>1. DispatcherInit => Init
  BY DEF DispatcherInit
<1>2. [DispatcherNext]_dispatcherVars => [Next]_vars
  BY DEF DispatcherNext, dispatcherVars, vars, TeamSteps, CollectionSteps, LifecycleSteps,
         ToolSteps, CheckoutSteps
<1> QED BY <1>1, <1>2, PTL DEF DispatcherSpec, Spec

LEMMA ToolsAlone == DispatcherSpec => A!Spec
<1>1. DispatcherInit => A!Init
  BY DEF DispatcherInit
<1>2. [DispatcherNext]_dispatcherVars => [A!Next]_(A!vars)
  BY DEF DispatcherNext, dispatcherVars, tolVars, A!vars, TeamSteps, CollectionSteps,
         LifecycleSteps, ToolSteps, CheckoutSteps
<1> QED BY <1>1, <1>2, PTL DEF DispatcherSpec, A!Spec

LEMMA CollectionAlone == DispatcherSpec => C!Init /\ [][C!Next]_(C!vars)
<1>1. DispatcherInit => C!Init
  BY DEF DispatcherInit
<1>2. [DispatcherNext]_dispatcherVars => [C!Next]_(C!vars)
  BY DEF DispatcherNext, dispatcherVars, colVars, C!vars, C!svcs, C!maps, C!calls, C!host,
         TeamSteps, CollectionSteps, LifecycleSteps, ToolSteps, CheckoutSteps
<1> QED BY <1>1, <1>2, PTL DEF DispatcherSpec

LEMMA CheckoutsAlone == DispatcherSpec => W!Init /\ [][W!Next]_(W!vars)
<1>1. DispatcherInit => W!Init
  BY DEF DispatcherInit
<1>2. [DispatcherNext]_dispatcherVars => [W!Next]_(W!vars)
  BY DEF DispatcherNext, dispatcherVars, chkVars, W!vars,
         TeamSteps, CollectionSteps, LifecycleSteps, ToolSteps, CheckoutSteps
<1> QED BY <1>1, <1>2, PTL DEF DispatcherSpec

LEMMA LifecycleAlone == DispatcherSpec => D!Init /\ [][D!Next]_(D!vars)
<1>1. DispatcherInit => D!Init
  BY DEF DispatcherInit
<1>2. [DispatcherNext]_dispatcherVars => [D!Next]_(D!vars)
  BY DEF DispatcherNext, dispatcherVars, cycVars, D!vars, D!starting, D!channels, D!closing, TeamSteps, CollectionSteps,
         LifecycleSteps, ToolSteps, CheckoutSteps
<1> QED BY <1>1, <1>2, PTL DEF DispatcherSpec

\* One Team carries a request id, and one object at a time speaks for it, whatever else goes on.
THEOREM OneTeamOneOwnerAlways == DispatcherSpec => []OneTeamOneOwner
<1> QED BY TeamAlone, OneOwnerOfATeam, PTL

\* A token has lost its authority when the teardown of its generation begins, and a call that
\* was refused as revoked would be refused ever after (service/mcp/leases.ts).
THEOREM RevokedIsGone == DispatcherSpec => []RevokedToolsAreGone
<1>1. ToolsInv => A!RevokedToolsAreGone
  BY DEF ToolsInv, TokenInv, A!RevokedToolsAreGone
<1> QED BY <1>1, ToolsAlone, AlwaysToolsInv, PartsAssumption, PTL DEF RevokedToolsAreGone

\* A closed Team stays closed, whatever write was queued before its record said so, and no tool
\* has its effect in it, wherever the call stood when it was closed (Team.admitLeaderTools).
THEOREM ClosedForGood == DispatcherSpec => ClosedStaysClosed
<1> QED BY TeamAlone, TeamStaysClosed, ToolsAlone, ToolsRefusedWhenClosed, PTL DEF ClosedStaysClosed

\* The types of a tool call and of what it meets: for any calls, tools, generations and shims
\* (mcp/leases.ts, mcp/server.ts).
THEOREM ToolsTypeCorrect == DispatcherSpec => []A!TypeOK
<1>1. ToolsInv => A!TypeOK
  BY DEF ToolsInv
<1> QED BY <1>1, ToolsAlone, AlwaysToolsInv, PartsAssumption, PTL

\* A server that is down runs no call and holds no token, and no runtime but one it could not
\* stop or that a dissolve is stopping (server.ts, lifecycle.ts).
THEOREM OverStaysQuiet == DispatcherSpec => []A!OverIsQuiet
<1>1. ToolsInv => A!OverIsQuiet
  BY DEF ToolsInv, TokenInv, A!RevokedBeforeTeardown, ShutInv, ToolsDrained, ToolsSwept, A!OverIsQuiet
<1> QED BY <1>1, ToolsAlone, AlwaysToolsInv, PartsAssumption, PTL

\* The start and the close of a dispatcher keep CycleInv, for any number of channels and pieces
\* of work, and wherever a close meets a start: what is closed holds nothing (lifecycle.ts).
LEMMA LifecycleHoldsNothing == DispatcherSpec => []D!ClosedHoldsNothing
<1>a. D!LifecycleAssumption
  BY PartsAssumption
<1>1. D!Init => CycleInv
  BY <1>a, CycleStarts
<1>2. CycleInv /\ [D!Next]_(D!vars) => CycleInv'
  BY <1>a, CycleKeeps
<1>3. CycleInv => D!ClosedHoldsNothing
  BY CycleMeans
<1> QED BY <1>1, <1>2, <1>3, LifecycleAlone, PTL

\* A dispatcher that is closed runs nothing: no session, no lease and no runtime of its agent is
\* left (lifecycle.ts), no tool call and no token (server.ts), and no Team leader but one that a
\* dissolve is closing (service/team/index.ts).
THEOREM ClosedHostIsQuiet == DispatcherSpec => []ClosedHostRunsNothing
<1>1. D!ClosedHoldsNothing /\ ClosedHostRunsNoTeam /\ A!OverIsQuiet => ClosedHostRunsNothing
  BY DEF ClosedHostRunsNothing
<1> QED BY <1>1, LifecycleHoldsNothing, TeamAlone, TeamClosesQuiet, OverStaysQuiet, PTL

\* However many services are built for the name of a TeamMate, and however the calls, the
\* reopening, the stops and the sweeps of the close interleave, one of them at most has a runtime,
\* and the second sweep leaves none (service/agent/index.ts): provided the intent of a send that
\* reopens is written.  Where that write fails, the service is in neither map and keeps its
\* runtime (index.ts:282, 322-325), which no sweep finds.  CollectionInv is inductive: a
\* runtime is always that of the service in one of the two maps, and once the admitted work is
\* over nothing but the map of live services can hold one, which the last sweep then finds.
THEOREM RuntimesAreAlwaysSwept ==
  ASSUME ~ReopenWritesFail
  PROVE  DispatcherSpec => []RuntimesAreSwept
<1>a. C!CollectionAssumption
  BY PartsAssumption
<1>1. C!Init => CollectionInv
  BY <1>a, CollectionInit
<1>2. CollectionInv /\ [C!Next]_(C!vars) => CollectionInv'
  BY <1>a, CollectionStep
<1>3. CollectionInv => RuntimesAreSwept
  BY CollectionSafe DEF RuntimesAreSwept
<1> QED BY <1>1, <1>2, <1>3, CollectionAlone, PTL

\* No call removes work from a checkout, no spawn takes a record over, a TeamMate runs in the
\* checkout its record names, what is recorded as deleted is gone (worktree/manager.ts,
\* worktree/workspaces.ts, agent/store.ts), and the checkout of a Team outlives everyone who
\* works in it (service/team/service.ts): for any names and calls, and whatever interferes with a
\* path or dies.  CheckoutInv says what a spawn, a close and a reopen under way know of their
\* name, that no other call at it may make that untrue, and what a record says of its path.
THEOREM WorkIsAlwaysSafe == DispatcherSpec => WorkIsSafe
<1>a. W!CheckoutsAssumption
  BY PartsAssumption
<1>1. W!Init => CheckoutInv
  BY <1>a, CheckoutStarts
<1>2. CheckoutInv /\ [W!Next]_(W!vars) => CheckoutInv'
  BY <1>a, CheckoutStep
<1>3. CheckoutInv => W!TypeOK /\ W!BranchesAreExclusive /\ W!RunsInItsCheckout
  BY RunsThere DEF CheckoutInv
<1>4. CheckoutInv /\ [W!Next]_(W!vars) =>
        /\ [WorkStays]_(W!vars) /\ [RecordStays]_(W!vars) /\ [GoneWhenSaid]_(W!vars)
  BY <1>a, CheckoutsAreSafe
<1>5. W!Init /\ [][W!Next]_(W!vars) =>
        /\ [](W!TypeOK /\ W!BranchesAreExclusive /\ W!RunsInItsCheckout)
        /\ [][WorkStays]_(W!vars) /\ [][RecordStays]_(W!vars) /\ [][GoneWhenSaid]_(W!vars)
  BY <1>1, <1>2, <1>3, <1>4, PTL
<1>6. /\ [][WorkStays]_(W!vars) => W!WorkIsNeverRemoved
      /\ [][RecordStays]_(W!vars) => W!RecordsAreNeverTaken
      /\ [][GoneWhenSaid]_(W!vars) => W!DeletedIsGone
  BY PTL DEF WorkStays, RecordStays, GoneWhenSaid, W!WorkIsNeverRemoved,
             W!RecordsAreNeverTaken, W!DeletedIsGone
<1> QED BY <1>5, <1>6, CheckoutsAlone, TeamAlone, CheckoutOutlives, PTL DEF WorkIsSafe
========================================
