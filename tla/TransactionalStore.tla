------------------------- MODULE TransactionalStore -------------------------
(***************************************************************************)
(* The store behind every persisted record: one file, one loader, one      *)
(* committed value in memory and one FIFO of changes.  load() is not in    *)
(* the FIFO: it has a guard of its own, so a read of the file can be under *)
(* way while a queued change runs.                                         *)
(*                                                                         *)
(* A value is abstracted to whether there is a file and which operations   *)
(* it holds, so that a lost change is visible.  A write is the rename of a *)
(* complete temporary file: one step, or it fails and leaves the file.     *)
(***************************************************************************)
EXTENDS Naturals, Sequences, FiniteSets

CONSTANTS
  Ops,          \* the changes callers ask for
  KindOf,       \* update, noop, create, replace or remove
  EagerReaders, \* whether somebody may load while a create is asked for
  MaxCrashes    \* bound: process deaths

StoreAssumption ==
  /\ KindOf \in [Ops -> {"update", "noop", "create", "replace", "remove"}]
  /\ EagerReaders \in BOOLEAN
  /\ MaxCrashes \in Nat

VARIABLES
  disk,      \* the file
  slot,      \* slot: [loaded, value]
  loading,   \* the read behind `loading`: "none", "reading" or "read"
  seen,      \* what that read found
  queue,     \* the operations behind tail, the running one first
  pc,        \* where each operation stands
  prev,      \* the running operation's `previous`
  crashes    \* process deaths so far (bounds the model)

vars == <<disk, slot, loading, seen, queue, pc, prev, crashes>>

Absent == [there |-> FALSE, log |-> <<>>]
Unloaded == [loaded |-> FALSE, value |-> Absent]

Value == [there : BOOLEAN, log : Seq(Ops)]

Init ==
  /\ disk \in {Absent, [there |-> TRUE, log |-> <<>>]}
  /\ slot = Unloaded
  /\ loading = "none" /\ seen = Absent
  /\ queue = <<>>
  /\ pc = [o \in Ops |-> "idle"]
  /\ prev = Absent
  /\ crashes = 0

Running(at) == queue # <<>> /\ pc[Head(queue)] = at
Kind == KindOf[Head(queue)]

Goto(at) == pc' = [pc EXCEPT ![Head(queue)] = at]

\* The running operation settles and the next one gets its turn.
Settle(answer) == Goto(answer) /\ queue' = Tail(queue)

Blind(o) == KindOf[o] \in {"create", "replace"}

\* The owners of a record create it before anybody else can load it, or load it first
\* and replace it then: no read meets a change that writes without reading.
ReadMayMeet(writers) == EagerReaders \/ \A o \in writers : ~Blind(o)

Queued == {queue[i] : i \in 1..Len(queue)}

\* What the running operation makes of the value it is given.
Changed(v) ==
  CASE Kind = "update"               -> [there |-> TRUE, log |-> Append(v.log, Head(queue))]
    [] Kind \in {"create", "replace"} -> [there |-> TRUE, log |-> <<Head(queue)>>]
    [] Kind = "remove"               -> Absent
    [] Kind = "noop"                 -> v

----------------------------------------
(* load()                                                                  *)

\* A caller loads: nothing happens when the value is there or a read under way.
Load ==
  /\ ~slot.loaded /\ loading = "none"
  /\ ReadMayMeet(Queued)
  /\ loading' = "reading"
  /\ UNCHANGED <<disk, slot, seen, queue, pc, prev, crashes>>

\* Mutant: the read waits for its turn in the FIFO, which its caller holds.
QueuedRead ==
  /\ loading = "reading" /\ queue = <<>>
  /\ loading' = "read" /\ seen' = disk
  /\ UNCHANGED <<disk, slot, queue, pc, prev, crashes>>

\* The file system has answered, with the file or an error; the answer is on its way.
FileRead ==
  /\ loading = "reading"
  /\ loading' = "read" /\ seen' = disk
  /\ UNCHANGED <<disk, slot, queue, pc, prev, crashes>>

\* The loader's answer becomes the committed value, whatever the slot holds by now.
Loaded ==
  /\ loading = "read"
  /\ slot' = [loaded |-> TRUE, value |-> seen]
  /\ loading' = "none"
  /\ IF Running("loading") THEN Goto("loaded") /\ prev' = seen ELSE UNCHANGED <<pc, prev>>
  /\ UNCHANGED <<disk, seen, queue, crashes>>

\* The owner's loader throws: nothing is cached and the operation that waits fails.
LoadFails ==
  /\ loading = "read"
  /\ loading' = "none"
  /\ IF Running("loading") THEN Settle("rejected") ELSE UNCHANGED <<pc, queue>>
  /\ UNCHANGED <<disk, slot, seen, prev, crashes>>

----------------------------------------
(* update(), create() and remove()                                         *)

Ask(o) ==
  /\ pc[o] = "idle" /\ (loading # "none" => ReadMayMeet({o}))
  /\ pc' = [pc EXCEPT ![o] = "queued"]
  /\ queue' = Append(queue, o)
  /\ UNCHANGED <<disk, slot, loading, seen, prev, crashes>>

\* update and remove load first; create writes without reading.
Start ==
  /\ Running("queued")
  /\ \/ /\ Blind(Head(queue))
        /\ Goto("writing") /\ UNCHANGED <<loading, prev>>
     \/ /\ ~Blind(Head(queue)) /\ slot.loaded
        /\ Goto("loaded") /\ prev' = slot.value /\ UNCHANGED loading
     \/ /\ ~Blind(Head(queue)) /\ ~slot.loaded
        /\ Goto("loading") /\ UNCHANGED prev
        /\ loading' = IF loading = "none" THEN "reading" ELSE loading
  /\ UNCHANGED <<disk, slot, seen, queue, crashes>>

\* change(previous): the same value back writes nothing, a throw rejects.
Change ==
  /\ Running("loaded")
  /\ \/ Kind = "noop" /\ Settle("ok")
     \/ Kind # "noop" /\ Goto("writing") /\ UNCHANGED queue
     \/ Kind # "remove" /\ Settle("rejected")
  /\ UNCHANGED <<disk, slot, loading, seen, prev, crashes>>

\* Mutant: the change is applied to what the caller last saw of the file.
WriteStale ==
  /\ Running("writing")
  /\ disk' = Changed(Absent)
  /\ Goto("written")
  /\ UNCHANGED <<slot, loading, seen, queue, prev, crashes>>

\* The rename, link or unlink happens; create refuses to replace a file.
Write ==
  /\ Running("writing")
  /\ Kind = "create" => ~disk.there
  /\ disk' = Changed(prev)
  /\ Goto("written")
  /\ UNCHANGED <<slot, loading, seen, queue, prev, crashes>>

\* The write fails, or an exclusive create finds a file.
WriteFails ==
  /\ Running("writing")
  /\ Settle("rejected")
  /\ UNCHANGED <<disk, slot, loading, seen, prev, crashes>>

\* Memory is swapped after the file.
Swap ==
  /\ Running("written")
  /\ slot' = [loaded |-> TRUE, value |-> Changed(prev)]
  /\ Goto("after")
  /\ UNCHANGED <<disk, loading, seen, queue, prev, crashes>>

\* afterCommit has run, still inside the queue; its throw rejects, the commit stands.
AfterCommit ==
  /\ Running("after")
  /\ Settle("ok") \/ (Kind # "remove" /\ Settle("rejected"))
  /\ UNCHANGED <<disk, slot, loading, seen, prev, crashes>>

\* The process dies and a new one starts: only the file is left.
Crash ==
  /\ crashes < MaxCrashes
  /\ crashes' = crashes + 1
  /\ slot' = Unloaded /\ loading' = "none"
  /\ queue' = <<>> /\ prev' = Absent /\ seen' = Absent
  /\ pc' = [o \in Ops |-> IF pc[o] \in {"idle", "ok", "rejected"} THEN pc[o] ELSE "lost"]
  /\ UNCHANGED disk

\* The read of the file, and the operation whose turn it is.
Reads == FileRead \/ Loaded \/ LoadFails
Proceeds == Start \/ Change \/ Write \/ WriteFails \/ Swap \/ AfterCommit

Next == Load \/ (\E o \in Ops : Ask(o)) \/ Reads \/ Proceeds \/ Crash

Spec == Init /\ [][Next]_vars

\* The file system answers and continuations run.
Fairness == WF_vars(Reads) /\ WF_vars(Proceeds)

----------------------------------------
(* Properties                                                              *)

\* Types; and the FIFO holds exactly the operations that are under way.
TypeOK ==
  /\ disk \in Value /\ seen \in Value /\ prev \in Value
  /\ slot \in [loaded : BOOLEAN, value : Value]
  /\ loading \in {"none", "reading", "read"}
  /\ queue \in Seq(Ops)
  /\ pc \in [Ops -> {"idle", "queued", "loading", "loaded", "writing", "written", "after",
                     "ok", "rejected", "lost"}]
  /\ crashes \in Nat
  /\ Queued = {o \in Ops : pc[o] \notin {"idle", "ok", "rejected", "lost"}}

\* "A reader only ever sees a value that is also on disk": with no change under way
\* the value in memory is the file's.
ReaderSeesDisk ==
  slot.loaded /\ ~Running("written") => slot.value = disk

\* What an operation's caller can tell of where it stands.
Promised(at) ==
  IF at \in {"queued", "loading", "loaded", "writing"} THEN "asked"
  ELSE IF at \in {"written", "after"} THEN "committed"
  ELSE at

\* What the store promises: the changes take effect one at a time, in the order they
\* were asked for, each on what the one before left, and are on disk when answered.
Serial == INSTANCE SerialStore WITH
  file  <- disk,
  asked <- queue,
  state <- [o \in Ops |-> Promised(pc[o])]

SerialSpec == Serial!Spec

\* Every change asked for is settled, or lost with the process.
Settles ==
  \A o \in Ops : pc[o] = "queued" ~> pc[o] \in {"ok", "rejected", "lost"}
========================================
