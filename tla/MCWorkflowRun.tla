---------------------------- MODULE MCWorkflowRun ----------------------------
(* Small instances of WorkflowRun for TLC. *)
EXTENDS WorkflowRun

CONSTANTS a1, a2

\* A script of two calls, and one that calls once and logs once.
TwoCallsOrALog == {[calls |-> {a1, a2}, emits |-> 0], [calls |-> {a1}, emits |-> 1]}

\* Bound: the two calls are alike, and a1 is made first.
InOrder == pc'[a2] # "idle" => pc'[a1] # "idle"

\* Bound: a host that dies before there is a record would begin as the first one.
DiesWithARun == crashes' = crashes \/ rec # Absent

BoundedSpec == Init /\ [][Next /\ InOrder /\ DiesWithARun]_vars /\ WF_vars(Owed)
========================================
