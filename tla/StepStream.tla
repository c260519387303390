----------------------------- MODULE StepStream -----------------------------
(***************************************************************************)
(* What the stepper subsystem owes its users: the steps of the blocks      *)
(* handed to plan_buffer_line are made one by one, block after block, none *)
(* twice and none left out, however the motion is cut into segments, held  *)
(* and resumed; only a reset throws pending steps away.                    *)
(***************************************************************************)
EXTENDS Integers

CONSTANTS Planned,  \* the blocks, numbered in the order they are buffered
          Steps     \* block -> number of steps

VARIABLES left,     \* block -> steps still to be made
          last      \* the last block buffered

Init == left = [b \in Planned |-> 0] /\ last = 0

Buffer ==
  /\ last + 1 \in Planned
  /\ last' = last + 1
  /\ left' = [left EXCEPT ![last + 1] = Steps[last + 1]]

Step(b) ==
  /\ left[b] > 0
  /\ \A a \in Planned : a < b => left[a] = 0
  /\ left' = [left EXCEPT ![b] = @ - 1]
  /\ UNCHANGED last

Discard == left' = [b \in Planned |-> 0] /\ UNCHANGED last

Next == Buffer \/ Discard \/ \E b \in Planned : Step(b)

Spec == Init /\ [][Next]_<<left, last>>
=============================================================================
