------------------------------- MODULE MCHoming -------------------------------
(***************************************************************************)
(* Settings of the homing cycles for a model-checking run of Homing: one   *)
(* axis a cycle, as the plotter needs it, and the default, X and Y in one. *)
(***************************************************************************)
EXTENDS Homing

OneByOne == <<{"Z"}, {"X"}, {"Y"}>>
Default == <<{"Z"}, {"X", "Y"}, {}>>
BothCycles == {OneByOne, Default}
===============================================================================
