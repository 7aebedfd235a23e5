----------------------------- MODULE SerialStore -----------------------------
(***************************************************************************)
(* What a persisted store promises its callers: one value in one file,     *)
(* changed by one operation at a time, in the order they were asked for,   *)
(* each applied to the value the previous one left.  An operation is       *)
(* answered only after its change is on disk; one that fails changes       *)
(* nothing.  A crash loses the answers, never an answered change.          *)
(***************************************************************************)
EXTENDS Sequences, FiniteSets

CONSTANTS
  Ops,     \* the operations callers ask for
  KindOf   \* what each of them is: a member of Kinds

Kinds == {"update", "noop", "create", "replace", "remove"}

VARIABLES
  file,    \* the value on disk: whether there is one, and the changes it holds
  asked,   \* the operations asked for and not over yet, oldest first
  state    \* where each operation stands

vars == <<file, asked, state>>

Absent == [there |-> FALSE, log |-> <<>>]

\* The value operation o leaves when it is applied to v.
Apply(o, v) ==
  CASE KindOf[o] = "update"              -> [there |-> TRUE, log |-> Append(v.log, o)]
    [] KindOf[o] \in {"create", "replace"} -> [there |-> TRUE, log |-> <<o>>]
    [] KindOf[o] = "remove"              -> Absent

Init ==
  /\ file \in {Absent, [there |-> TRUE, log |-> <<>>]}
  /\ asked = <<>>
  /\ state = [o \in Ops |-> "idle"]

Ask(o) ==
  /\ state[o] = "idle"
  /\ state' = [state EXCEPT ![o] = "asked"]
  /\ asked' = Append(asked, o)
  /\ UNCHANGED file

\* The oldest operation takes effect; an exclusive create only on no file.
Commit ==
  /\ asked # <<>> /\ state[Head(asked)] = "asked"
  /\ KindOf[Head(asked)] # "noop"
  /\ KindOf[Head(asked)] = "create" => ~file.there
  /\ file' = Apply(Head(asked), file)
  /\ state' = [state EXCEPT ![Head(asked)] = "committed"]
  /\ UNCHANGED asked

\* Its caller is told; what follows the commit may still reject, the commit stands.
Answer ==
  /\ asked # <<>> /\ state[Head(asked)] = "committed"
  /\ \E answer \in {"ok", "rejected"} : state' = [state EXCEPT ![Head(asked)] = answer]
  /\ asked' = Tail(asked)
  /\ UNCHANGED file

\* The oldest operation fails and leaves the file as it was.
Refuse ==
  /\ asked # <<>> /\ state[Head(asked)] = "asked"
  /\ state' = [state EXCEPT ![Head(asked)] = "rejected"]
  /\ asked' = Tail(asked)
  /\ UNCHANGED file

\* The oldest operation finds that there is nothing to change.
Unchanged ==
  /\ asked # <<>> /\ state[Head(asked)] = "asked" /\ KindOf[Head(asked)] = "noop"
  /\ state' = [state EXCEPT ![Head(asked)] = "ok"]
  /\ asked' = Tail(asked)
  /\ UNCHANGED file

\* The process dies: nobody hears of the operations under way.
Crash ==
  /\ asked' = <<>>
  /\ state' = [o \in Ops |-> IF state[o] \in {"asked", "committed"} THEN "lost" ELSE state[o]]
  /\ UNCHANGED file

Next == (\E o \in Ops : Ask(o)) \/ Commit \/ Answer \/ Refuse \/ Unchanged \/ Crash

Spec == Init /\ [][Next]_vars
========================================
