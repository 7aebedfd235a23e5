------------------------------- MODULE Checkouts -------------------------------
(* The managed checkouts of a dispatcher's TeamMates (worktree/manager.ts,     *)
(* worktree/workspaces.ts), the records that tell who owns one                 *)
(* (agent/store.ts) and the names both are found by (AgentNameRegistry).       *)
(*                                                                            *)
(* One repository, and so one path for each name.  Git is external: it lists   *)
(* the worktrees of the repository, refuses a branch that another one has      *)
(* checked out, and refuses to remove a worktree with work in it.  People and  *)
(* agents change a checkout at any moment.                                    *)
EXTENDS Naturals, FiniteSets

CONSTANTS
  Names,      \* the names an allocation may draw
  Calls,      \* what runs at a time
  Shared,     \* a branch a caller asks for by name
  None,
  MaxOps,     \* calls begun
  MaxMishaps  \* crashes, failures and hands laid on a path

VARIABLES
  rec,        \* name -> its entity directory: None or the record in it
  path,       \* name -> what is at its worktree path
  registry,   \* name -> the branch git has checked out at that path
  branches,   \* of the repository
  held,       \* name -> the entity in this process
  up,
  call,
  ops, mishaps,
  hand        \* names whose path, or whose last close, something else interfered with

disk == <<rec, path, registry, branches>>
vars == <<rec, path, registry, branches, held, up, call, ops, mishaps, hand>>

Work == {"dirty", "unmerged"}
Trees == {"clean"} \cup Work
Branches == Names \cup {Shared}

\* A spawn borrows a directory, or asks for a checkout on its own branch or on a named one.
Asks ==
  {[mode |-> "reuse", branch |-> "own", cleanup |-> "keep"]}
  \cup [mode : {"managed"}, branch : {"own", "shared"}, cleanup : {"delete-on-close", "keep"}]
Modes == {"managed", "reuse"}
Cleanups == {"delete-on-close", "keep"}
States == {"not-managed", "managed-active", "deleted",
           "retained-dirty", "retained-unmerged", "retained-error"}

\* An identity record, as far as its checkout goes, and a call on its way.
Identities ==
  [mode : Modes, branch : Branches, cleanup : Cleanups, state : States,
   closed : BOOLEAN, readable : BOOLEAN, life : 0..MaxOps]
Steps ==
  {"named", "look", "add", "add -b", "create", "assess", "remove", "again", "record", "patch",
   "start"}
Errands ==
  [op : {"spawn", "close", "reopen"}, name : Names, branch : Branches, mode : Modes,
   cleanup : Cleanups, state : States \cup {None}, step : Steps]

CheckoutsAssumption ==
  /\ Shared \notin Names /\ {None, "detached"} \cap Branches = {}
  /\ None \notin Identities \cup Errands
  /\ MaxOps \in Nat /\ MaxMishaps \in Nat

BranchOf(n, request) == IF request.branch = "own" THEN n ELSE Shared

Init ==
  /\ rec = [n \in Names |-> None] /\ path = [n \in Names |-> "none"]
  /\ registry = [n \in Names |-> None] /\ branches = {}
  /\ held = [n \in Names |-> "no"] /\ up = TRUE
  /\ call = [c \in Calls |-> None] /\ ops = 0 /\ mishaps = 0 /\ hand = {}
----------------------------------------
Managed(n) == rec[n].mode = "managed"
\* A name has one materialization, and one reopen or close.
Materializing(n) ==
  \E c \in Calls : call[c] # None /\ call[c].name = n /\ call[c].op = "spawn" /\ call[c].step # "named"
Busy(n) == \E c \in Calls : call[c] # None /\ call[c].name = n /\ call[c].op # "spawn"

Begin(c, it) ==
  /\ up /\ call[c] = None /\ ops < MaxOps
  /\ ops' = ops + 1 /\ call' = [call EXCEPT ![c] = it]
Go(c, step) == call' = [call EXCEPT ![c].step = step]
Over(c) == call' = [call EXCEPT ![c] = None]
At(c, step) == call[c] # None /\ call[c].step = step
Broke(n) == mishaps < MaxMishaps /\ mishaps' = mishaps + 1 /\ hand' = hand \cup {n}
Fine == UNCHANGED <<mishaps, hand>>

\* The directory is the occupancy, whatever is in it.
Occupied == {n \in Names : rec[n] # None}

Allocates(c) ==
  /\ \E n \in Names \ Occupied, r \in Asks :
       Begin(c, [op |-> "spawn", name |-> n, step |-> "named", branch |-> BranchOf(n, r),
                 mode |-> r.mode, cleanup |-> r.cleanup, state |-> None])
  /\ UNCHANGED <<disk, held, up, mishaps, hand>>

\* createFreshEntity, once the disk has been read: what is live or materializing is refused.
Registers(c) ==
  /\ At(c, "named")
  /\ LET n == call[c].name
     IN IF held[n] # "no" \/ Materializing(n) THEN Over(c)
        ELSE Go(c, IF call[c].mode = "reuse" THEN "create" ELSE "look")
  /\ UNCHANGED <<disk, held, up, ops>> /\ Fine

Then(c) == IF call[c].op = "spawn" THEN "create" ELSE "patch"

\* prepare(): the workspace may be unusable; a path that is there must be the branch's worktree.
Looks(c) ==
  /\ At(c, "look")
  /\ LET n == call[c].name b == call[c].branch
     IN \/ Over(c)
        \/ path[n] = "none"
           /\ Go(c, IF b \in branches THEN "add" ELSE "add -b")
        \/ path[n] # "none" /\ registry[n] = b /\ Go(c, Then(c))
  /\ UNCHANGED <<disk, held, up, ops>> /\ Fine

\* git worktree add, by what was found before it.  A spawn that drew a name which has a
\* record by now does to that record's path what a stranger would do.
Addable(n, b, step) ==
  /\ path[n] = "none" /\ registry[n] = None
  /\ IF step = "add" THEN \A m \in Names : registry[m] # b ELSE b \notin branches

Adds(c) ==
  /\ At(c, "add") \/ At(c, "add -b")
  /\ LET n == call[c].name b == call[c].branch
     IN IF Addable(n, b, call[c].step)
        THEN /\ path' = [path EXCEPT ![n] = "clean"] /\ registry' = [registry EXCEPT ![n] = b]
             /\ branches' = branches \cup {b} /\ Go(c, Then(c))
             /\ hand' = IF rec[n] = None \/ call[c].op = "reopen" THEN hand \ {n}
                        ELSE hand \cup {n}
        ELSE Over(c) /\ UNCHANGED <<path, registry, branches, hand>>
  /\ UNCHANGED <<rec, held, up, ops, mishaps>>

\* AgentIdentityStore.create: without replace, an occupied location is refused.
Creatable(n) == rec[n] = None

RecordIsMade(c) ==
  /\ At(c, "create")
  /\ LET n == call[c].name
     IN IF Creatable(n)
        THEN /\ rec' = [rec EXCEPT ![n] =
                  [mode |-> call[c].mode, branch |-> call[c].branch, cleanup |-> call[c].cleanup,
                   state |-> IF call[c].mode = "managed" THEN "managed-active" ELSE "not-managed",
                   closed |-> FALSE, readable |-> TRUE, life |-> ops]]
             /\ held' = [held EXCEPT ![n] = "idle"]
        ELSE UNCHANGED <<rec, held>>
  /\ Over(c)
  /\ UNCHANGED <<path, registry, branches, up, ops>> /\ Fine
----------------------------------------
\* What a send or a close finds: the record is read, and a live one is built.  While a
\* materialization is under way both join that.
Materializes(n) ==
  /\ up /\ held[n] = "no" /\ ~Busy(n) /\ ~Materializing(n)
  /\ rec[n] # None /\ rec[n].readable /\ ~rec[n].closed
  /\ held' = [held EXCEPT ![n] = "idle"]
  /\ UNCHANGED <<disk, up, call, ops>> /\ Fine

\* A runtime starts in a directory that is there, and may exit.
Runs(n) ==
  /\ ~Busy(n)
  /\ \/ held[n] = "idle" /\ (Managed(n) => path[n] # "none") /\ held' = [held EXCEPT ![n] = "running"]
     \/ held[n] = "running" /\ held' = [held EXCEPT ![n] = "idle"]
  /\ UNCHANGED <<disk, up, call, ops>> /\ Fine

\* transitionToClosed: the runtime is stopped before the checkout is looked at.
Closes(c) ==
  /\ \E n \in Names :
       /\ held[n] # "no" /\ ~Busy(n)
       /\ held' = [held EXCEPT ![n] = "closing"]
       /\ Begin(c, [op |-> "close", name |-> n, branch |-> rec[n].branch, mode |-> rec[n].mode,
                    cleanup |-> rec[n].cleanup, state |-> rec[n].state,
                    step |-> IF Managed(n) /\ rec[n].cleanup = "delete-on-close"
                             THEN "assess" ELSE "record"])
  /\ UNCHANGED <<disk, up, mishaps, hand>>

\* assessCleanup; a directory that is no worktree is read as the repository around it, if any.
Assessments(n) ==
  CASE path[n] = "none" /\ registry[n] = None -> {"deleted"}
    [] path[n] = "none" /\ registry[n] # None -> {"error"}
    [] path[n] = "plain" -> {"error", "eligible", "retained-dirty"}
    [] path[n] = "dirty" -> {"retained-dirty"}
    [] path[n] = "unmerged" -> {"retained-unmerged"}
    [] OTHER -> {"eligible"}

Settled(c, state) == call' = [call EXCEPT ![c].step = "record", ![c].state = state]

Assesses(c) ==
  /\ At(c, "assess")
  /\ \E a \in Assessments(call[c].name) :
       CASE a = "eligible" -> Go(c, "remove")
         [] a = "error" -> Go(c, "again")
         [] OTHER -> Settled(c, a)
  /\ UNCHANGED <<disk, held, up, ops>> /\ Fine

\* Mutant: what was assessed is removed, whatever has come into it since.
RemovableAsAssessed(n) == path[n] \in Trees /\ registry[n] # None
\* git worktree remove without --force is the final authority.
Removable(n) == path[n] = "clean" /\ registry[n] # None

Removes(c) ==
  /\ At(c, "remove")
  /\ LET n == call[c].name
     IN \/ /\ Removable(n) /\ Settled(c, "deleted")
           /\ path' = [path EXCEPT ![n] = "none"] /\ registry' = [registry EXCEPT ![n] = None]
           /\ Fine
        \/ /\ (~Removable(n) /\ Fine) \/ Broke(n)
           /\ Go(c, "again") /\ UNCHANGED <<path, registry>>
  /\ UNCHANGED <<rec, branches, held, up, ops>>

\* After a refusal, the facts once more.
AssessesAgain(c) ==
  /\ At(c, "again")
  /\ \E a \in Assessments(call[c].name) :
       Settled(c, IF a \in {"eligible", "error"} THEN "retained-error" ELSE a)
  /\ UNCHANGED <<disk, held, up, ops>> /\ Fine

\* The record is written; where that fails the entity stays closing, and may be closed again.
Records(c) ==
  /\ At(c, "record")
  /\ LET n == call[c].name
     IN \/ /\ rec' = [rec EXCEPT ![n].closed = TRUE, ![n].state = call[c].state]
           /\ held' = [held EXCEPT ![n] = "no"] /\ Fine
        \/ Broke(n) /\ UNCHANGED <<rec, held>>
  /\ Over(c)
  /\ UNCHANGED <<path, registry, branches, up, ops>>
----------------------------------------
\* startFromRecord: a checkout that was deleted is prepared again.
Reprepares(n) == Managed(n) /\ rec[n].state = "deleted"

Reopens(c) ==
  /\ \E n \in Names :
       /\ held[n] = "no" /\ ~Busy(n) /\ ~Materializing(n)
       /\ rec[n] # None /\ rec[n].readable /\ rec[n].closed
       /\ Begin(c, [op |-> "reopen", name |-> n, branch |-> rec[n].branch, mode |-> rec[n].mode,
                    cleanup |-> rec[n].cleanup, state |-> rec[n].state,
                    step |-> IF Reprepares(n) THEN "look" ELSE "start"])
  /\ UNCHANGED <<disk, held, up, mishaps, hand>>

\* The patch of reprepareDeletedManagedWorktree, and then the status.
Patches(c) ==
  /\ At(c, "patch")
  /\ rec' = [rec EXCEPT ![call[c].name].state = "managed-active"]
  /\ Go(c, "start")
  /\ UNCHANGED <<path, registry, branches, held, up, ops>> /\ Fine

Reopened(c) ==
  /\ At(c, "start")
  /\ rec' = [rec EXCEPT ![call[c].name].closed = FALSE]
  /\ held' = [held EXCEPT ![call[c].name] = "idle"]
  /\ Over(c)
  /\ UNCHANGED <<path, registry, branches, up, ops>> /\ Fine
----------------------------------------
\* An agent or a person writes, commits and resolves.
Edits(n) ==
  /\ path[n] \in Trees
  /\ \E t \in Trees \ {path[n]} : path' = [path EXCEPT ![n] = t]
  /\ UNCHANGED <<rec, registry, branches, held, up, call, ops>> /\ Fine

\* Somebody checks out something else, removes the directory or the worktree, or makes a directory.
Meddles(n) ==
  /\ Broke(n)
  /\ \/ path[n] \in Trees /\ registry' = [registry EXCEPT ![n] = "detached"] /\ UNCHANGED path
     \/ path[n] # "none" /\ path' = [path EXCEPT ![n] = "none"]
        /\ registry' \in {registry, [registry EXCEPT ![n] = None]}
     \/ path[n] = "none" /\ path' = [path EXCEPT ![n] = "plain"] /\ UNCHANGED registry
  /\ UNCHANGED <<rec, branches, held, up, call, ops>>

\* The process dies; a close that had removed its checkout has not said so.
Cut == {n \in Names : \E c \in Calls : At(c, "record") /\ call[c].name = n}
Crashes ==
  /\ up /\ mishaps < MaxMishaps /\ mishaps' = mishaps + 1
  /\ up' = FALSE /\ held' = [n \in Names |-> "no"] /\ call' = [c \in Calls |-> None]
  /\ hand' = hand \cup Cut
  /\ UNCHANGED <<disk, ops>>

\* While it is down a record may be spoiled.
Restarts ==
  /\ ~up /\ up' = TRUE
  /\ \/ UNCHANGED rec
     \/ \E n \in Names : rec[n] # None /\ rec' = [rec EXCEPT ![n].readable = FALSE]
  /\ UNCHANGED <<path, registry, branches, held, call, ops>> /\ Fine

Next ==
  \/ \E c \in Calls :
       \/ Allocates(c) \/ Registers(c) \/ Looks(c) \/ Adds(c) \/ RecordIsMade(c)
       \/ Closes(c) \/ Assesses(c) \/ Removes(c) \/ AssessesAgain(c) \/ Records(c)
       \/ Reopens(c) \/ Patches(c) \/ Reopened(c)
  \/ \E n \in Names : Materializes(n) \/ Runs(n) \/ Edits(n) \/ Meddles(n)
  \/ Crashes \/ Restarts

Spec == Init /\ [][Next]_vars
----------------------------------------
(* A record, a path and the registry have the values they may have, and a     *)
(* runtime is held only by a live record.                                     *)
TypeOK ==
  /\ rec \in [Names -> Identities \cup {None}] /\ call \in [Calls -> Errands \cup {None}]
  /\ \A n \in Names : path[n] \in {"none", "plain"} \cup Trees
  /\ \A n \in Names : registry[n] \in {None, "detached"} \cup branches
  /\ branches \subseteq Branches /\ hand \subseteq Names
  /\ \A n \in Names : held[n] \in {"no", "idle", "running", "closing"}
  /\ \A n \in Names : held[n] # "no" => up /\ rec[n] # None /\ ~rec[n].closed

(* No call removes work: what is uncommitted, untracked or unmerged in a      *)
(* checkout leaves it by the hand of a person or an agent only, and a         *)
(* directory that is no checkout is never removed, however late either came   *)
(* about; and a clean one goes with the close of a TeamMate that asked for    *)
(* that, and never under its runtime (manager.ts cleanup).                    *)
WorkIsNeverRemoved ==
  [][call' # call =>
       \A n \in Names :
         path'[n] # path[n] =>
           \/ path[n] = "none" /\ path'[n] = "clean"
           \/ /\ path[n] = "clean" /\ held[n] = "closing"
              /\ Managed(n) /\ rec[n].cleanup = "delete-on-close"]_vars

(* A name that was given stays with the TeamMate it was given to: no other    *)
(* spawn ever takes its record over, however long ago it read the directory,  *)
(* and whatever the record has become (agent/store.ts).                       *)
RecordsAreNeverTaken ==
  [][\A n \in Names : rec[n] # None => rec'[n] # None /\ rec'[n].life = rec[n].life]_vars

(* A TeamMate runs in the checkout its record names, on the branch it         *)
(* recorded, through every close and reopen, unless somebody else laid hands  *)
(* on it or a crash cut the close that removed it.                            *)
RunsInItsCheckout ==
  \A n \in Names :
    held[n] = "running" /\ Managed(n) /\ n \notin hand =>
      path[n] \in Trees /\ registry[n] = rec[n].branch

(* A close that says the checkout is deleted has deleted it.                  *)
DeletedIsGone ==
  [][\A n \in Names :
       /\ rec[n] # None /\ ~rec[n].closed /\ rec'[n].closed
       /\ rec'[n].state = "deleted" /\ n \notin hand
       => path[n] = "none" /\ registry[n] = None]_vars

\* No two worktrees have one branch checked out.
BranchesAreExclusive ==
  \A m, n \in Names : m # n /\ registry[m] \in Branches => registry[m] # registry[n]
========================================
