-------------------------- MODULE MCSegmentBuffer --------------------------
(* Small programs for SegmentBuffer; block 0 is the parking motion.        *)
EXTENDS SegmentBuffer

\* A long block first, so that holds find it partly executed.
MCSteps == [b \in 0..NumBlocks |-> IF b = 1 THEN 4 ELSE 2]
MCMinor == [b \in 0..NumBlocks |-> IF b = 0 THEN 0 ELSE 1]
=============================================================================
