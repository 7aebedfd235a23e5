------------------------------- MODULE MCTeam -------------------------------
(* The parts of a dispatcher, one at a time: since they share no state, a    *)
(* behaviour is one of a single part, the others resting where they began.   *)
EXTENDS Dispatcher, TLC

CONSTANTS q1, q2, c1, c2, c3, c4, n1, n2

VARIABLE part

hostVars == <<part, dispatcherVars>>

\* A create and its repeat, or two different creates.
RepeatedOrNot == {[c \in Creates |-> q1], [c \in Creates |-> IF c = 1 THEN q1 ELSE q2]}

\* Tools that enter in each of the ways there are.
Called == [server : {"teammate"}, name : {"spawn", "send"}]
          \cup [server : {"team"}, name : {"status", "dissolve"}]

\* A spawn, two sends and a close at one name.
Mixed == (c1 :> "spawn") @@ (c2 :> "send") @@ (c3 :> "send") @@ (c4 :> "close")

HostInit ==
  /\ DispatcherInit
  /\ part \in {"team", "collection", "lifecycle", "tools", "checkouts"}
  /\ part # "team" => asking = [c \in Creates |-> q1]
  /\ part # "tools" => tolRole = "leader"

\* Bounds: a second generation of a runtime, not of a member's, only beside the server of the
\* first and behind a call it passed on; a second name only for a checkout on the shared
\* branch, in which nobody works.
Bounded ==
  /\ tolGen' = 2 => tolRole # "member" /\ 1 \in tolShims /\ tolPc'[1] # "none"
  /\ chkPath'[n2] \in {"none", "clean"} /\ n2 \notin chkHand'
  /\ \A c \in CheckoutCalls : chkCall'[c] # NoOwner /\ chkCall'[c].name = n2 =>
       chkCall'[c].branch = Shared /\ chkCall'[c].cleanup = "delete-on-close"

HostNext ==
  /\ UNCHANGED part
  /\ \/ part = "team" /\ TeamSteps
     \/ part = "collection" /\ CollectionSteps
     \/ part = "lifecycle" /\ LifecycleSteps
     \/ part = "tools" /\ ToolSteps
     \/ part = "checkouts" /\ CheckoutSteps

HostSpec == HostInit /\ [][HostNext /\ Bounded]_hostVars /\ WF_vars(part = "team" /\ Owed)
========================================
