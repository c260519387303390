------------------------ MODULE SegmentBufferRefines ------------------------
(* SegmentBuffer implements StepStream.                                    *)
EXTENDS MCSegmentBuffer, FiniteSetsExt

\* Step events of slot i still to be made: the interrupt counts down its own copy.
Pending(i) == IF ~Queued(i) THEN 0
              ELSE IF i = tail /\ st.loaded THEN st.count ELSE seg[i].n

\* The steps of block b not cut into segments yet.
Unprepped(b) == IF \E i \in DOMAIN plan : plan[i] = b THEN StepsOf(mm[b]) ELSE 0

Left(b) == Unprepped(b) +
           MapThenSumSet(Pending, {i \in Slots : seg[i].owner = b})

Abstract == INSTANCE StepStream
              WITH left <- [b \in Planned |-> Left(b)], last <- added

\* The step segment buffer (st_prep_buffer with stepper_pulse_func) executes the
\* planner's blocks as StepStream promises.
ImplementsStepStream == Abstract!Spec
=============================================================================
