--------------------------- MODULE RuntimeContract ---------------------------
(* What Core relies on of an agent runtime, whatever the provider: the       *)
(* submission and the stop of packages/dreamux-types/src/agent-runtime.ts.   *)
(*                                                                          *)
(* A submission that was asked for is refused, or accepted and settled once. *)
(* A stop that has resolved leaves none that could still be accepted and     *)
(* none accepted that is not settled; after it nothing is accepted.          *)
EXTENDS Naturals

CONSTANT Subs

VARIABLES
  phase,   \* of each submission
  over     \* stop has resolved

vars == <<phase, over>>

Init ==
  /\ phase = [s \in Subs |-> "none"]
  /\ over = FALSE

\* A resolved admission is final, and so is a settlement; the two may come
\* together.
Moves == {<<"none", "asked">>, <<"none", "refused">>, <<"asked", "refused">>,
          <<"asked", "accepted">>, <<"asked", "settled">>, <<"accepted", "settled">>}

Settled == \A s \in Subs : phase[s] \notin {"asked", "accepted"}

Step ==
  /\ \A s \in Subs : phase'[s] # phase[s] => <<phase[s], phase'[s]>> \in Moves
  /\ over => over'
  /\ over' => Settled'

Spec == Init /\ [][Step]_vars
========================================
