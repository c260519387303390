------------------------------- MODULE MCLaser -------------------------------
(* Small programs for Laser; block 0 is the parking motion.                *)
EXTENDS Laser

MCSteps == [b \in 0..NumBlocks |-> IF b = 1 THEN 2 ELSE 1]
\* The second cut is the longer one.
LateSteps == [b \in 0..NumBlocks |-> IF b = 2 THEN 3 ELSE 1]
MCMinor == [b \in 0..NumBlocks |-> 0]

CutAt(spindle, s)  == [motion |-> "G1", move |-> TRUE, speed |-> s, spindle |-> spindle]
SetTo(spindle, s)  == [CutAt(spindle, s) EXCEPT !.move = FALSE]
RapidAt(spindle, s) == [CutAt(spindle, s) EXCEPT !.motion = "G0"]

\* Cuts in M3 and M4, rapids, and lines that only set the beam.
MCLines == {CutAt("Cw", 2), CutAt("Ccw", 2), RapidAt("Cw", 2),
            SetTo("Disable", 2), SetTo("Cw", 1)}
=============================================================================
