------------------------------- MODULE Planner -------------------------------
(***************************************************************************)
(* The look-ahead planner and the velocity profiles that st_prep_buffer()  *)
(* cuts into segments: the junction speeds planner_recalculate() gives the *)
(* queued blocks, with its block_buffer_planned short cut, while the first *)
(* block is executed, held, resumed and re-planned for overrides.          *)
(*                                                                         *)
(* Speeds are squared, and distances are multiplied by twice the           *)
(* acceleration: a unit of distance then is what changes a speed by one,   *)
(* and every formula of the code is exact on integers, the meeting point   *)
(* of the two ramps of a triangle apart, which is rounded down.  The ring  *)
(* of blocks is a sequence, the tail first; planned is the position of     *)
(* block_buffer_planned in it.  All this runs in the main task.            *)
(***************************************************************************)
EXTENDS Integers, Sequences, FiniteSetsExt

CONSTANTS
    QueueSize,   \* BLOCK_BUFFER_SIZE - 1
    Lengths,     \* lengths of lines
    Junctions,   \* max_junction_speed_sqr of two lines that follow each other
    Rates,       \* programmed rates of feed motions, for each unit of override
    RapidRate,   \* the rate of rapid motions, the same in every direction
    Levels,      \* feed and rapid overrides
    SomeLarge,   \* SOME_LARGE_VALUE, the speed before an empty queue
    FullLevel,   \* the override of 100%
    MaxOverrides \* bound: changes of an override while blocks are queued

ASSUME PlannerAssumption ==
    /\ QueueSize \in Nat \ {0}
    /\ Lengths \subseteq Nat \ {0} /\ Rates \subseteq Nat \ {0} /\ Levels \subseteq Nat \ {0}
    /\ Junctions \subseteq Nat
    /\ RapidRate \in Nat \ {0} /\ FullLevel \in Levels
    /\ SomeLarge \in Nat /\ \A r \in Rates \union {RapidRate}, l \in Levels : r * l <= SomeLarge
    /\ MaxOverrides \in Nat

VARIABLES
    motion,       \* idle, cycle, hold (executeHold), stopping (endMotion), held
    ovr,          \* sys.f_override, sys.r_override
    blocks,       \* block_buffer from tail to head
    planned,      \* block_buffer_planned
    prevNominal,  \* pl.previous_nominal_speed
    prep,         \* st_prep_t: the block being prepped and its profile
    overridden    \* history: changes of an override while blocks were queued

planVars == <<motion, ovr, blocks, planned, prevNominal, prep, overridden>>

Lesser(a, b) == IF a < b THEN a ELSE b

Prepping == motion \in {"cycle", "hold"}
OvrReset == [feed |-> FullLevel, rapid |-> FullLevel]
PrepReset == [loaded |-> FALSE, recalculate |-> FALSE, decelOverride |-> FALSE,
              v |-> 0, exit |-> 0, ramp |-> "accel", complete |-> 0,
              accelUntil |-> 0, decelAfter |-> 0, maximum |-> 0]

PlanInit ==
    /\ motion = "idle"
    /\ ovr = OvrReset
    /\ blocks = <<>> /\ planned = 1
    /\ prevNominal = 0
    /\ prep = PrepReset
    /\ overridden = 0

(***************************************************************************)
(* plan_compute_profile_nominal_speed(), plan_compute_profile_parameters() *)
(***************************************************************************)
Nominal(b, o) == IF b.rapid THEN RapidRate * o.rapid
                 ELSE Lesser(b.rate * o.feed, RapidRate * FullLevel)
BadMaxEntry(junction, nominal, prev) == Lesser(nominal, prev)
MaxEntry(junction, nominal, prev) == Lesser(junction, Lesser(nominal, prev))

(***************************************************************************)
(* planner_recalculate(), from the block q[p] on: the reverse pass, that   *)
(* lets every block brake to the next one's speed, the forward pass, that  *)
(* keeps every block within what the one before accelerates to, and the    *)
(* last block that nothing behind it can improve.                          *)
(***************************************************************************)
Braking(b, next) == Lesser(b.max, next + b.left)
\* The speed q[i] is reached with when the block before is entered at speed entry.
AcceleratedTo(q, i, entry) == entry + q[i - 1].left

Backward(q, p) ==
    LET back[i \in (p + 1) .. Len(q)] ==
            CASE i = Len(q) -> Braking(q[i], 0)
              [] i < Len(q) /\ q[i].entry = q[i].max -> q[i].max
              [] OTHER -> Braking(q[i], back[i + 1])
    IN  back

Forward(q, p) ==
    LET back == Backward(q, p)
        fwd[i \in p .. Len(q)] ==
            IF i = p THEN q[p].entry ELSE Lesser(back[i], AcceleratedTo(q, i, fwd[i - 1]))
    IN  fwd

Recalculated(q, p) ==
    LET back == Backward(q, p)
        fwd == Forward(q, p)
        optimal == {i \in (p + 1) .. Len(q) : \/ AcceleratedTo(q, i, fwd[i - 1]) < back[i]
                                              \/ fwd[i] = q[i].max}
    IN  [blocks  |-> [i \in DOMAIN q |-> IF i > p THEN [q[i] EXCEPT !.entry = fwd[i]] ELSE q[i]],
         planned |-> Max({p} \union optimal)]

\* st_update_plan_block_parameters(): the block in execution is entered at the
\* speed it has now, and its profile computed anew.
UpdatedTail(q) == IF prep.loaded THEN [q EXCEPT ![1].entry = prep.v] ELSE q
BadUpdatedPrep == IF prep.loaded THEN [prep EXCEPT !.recalculate = TRUE] ELSE prep
UpdatedPrep == IF prep.loaded THEN [prep EXCEPT !.loaded = FALSE, !.recalculate = TRUE] ELSE prep

\* planner_recalculate() of the queue q, planned up to p, with its update of the tail.
Replan(q, p) ==
    IF Len(q) = p
    THEN blocks' = q /\ planned' = p /\ UNCHANGED prep
    ELSE LET r == Recalculated(IF p = 1 THEN UpdatedTail(q) ELSE q, p) IN
         /\ blocks' = r.blocks /\ planned' = r.planned
         /\ prep' = IF p = 1 THEN UpdatedPrep ELSE prep

BadReinitialize(q) ==
    LET u == UpdatedTail(q)
        r == IF Len(u) <= planned THEN [blocks |-> u, planned |-> planned] ELSE Recalculated(u, planned)
    IN  /\ blocks' = r.blocks /\ planned' = r.planned
        /\ prep' = UpdatedPrep
\* plan_cycle_reinitialize() on the queue q.  On an empty queue the code walks once
\* around the stale slots and may leave block_buffer_planned in one of them; the next
\* line, which starts at rest at its maximum of zero, brings it back to the tail.
Reinitialize(q) ==
    LET u == UpdatedTail(q)
        r == IF Len(u) <= 1 THEN [blocks |-> u, planned |-> 1] ELSE Recalculated(u, 1)
    IN  /\ blocks' = r.blocks /\ planned' = r.planned
        /\ prep' = UpdatedPrep

(***************************************************************************)
(* plan_buffer_line().  In a complete hold the main task is suspended.     *)
(***************************************************************************)
BufferLine ==
    /\ motion # "held"
    /\ Len(blocks) < QueueSize
    /\ \E len \in Lengths, j \in Junctions, rate \in Rates, rapid \in BOOLEAN :
         LET junction == IF blocks = <<>> THEN 0 ELSE j
             line == [left |-> len, entry |-> 0, max |-> 0, junction |-> junction,
                      rate |-> rate, rapid |-> rapid]
             nominal == Nominal(line, ovr)
             b == [line EXCEPT !.max = MaxEntry(junction, nominal, prevNominal)]
         IN  /\ rapid => rate = Min(Rates)
             /\ prevNominal' = nominal
             /\ Replan(Append(blocks, b), planned)
    /\ UNCHANGED <<motion, ovr, overridden>>

(***************************************************************************)
(* st_prep_buffer(): the next block, or the same one anew.                 *)
(***************************************************************************)
ExitSpeed == IF Len(blocks) = 1 THEN 0 ELSE blocks[2].entry

\* Forced deceleration to zero speed, in this block or through it.
HoldProfile(p, b) ==
    [p EXCEPT !.ramp = "decel",
              !.complete = IF b.left >= b.entry THEN b.left - b.entry ELSE 0,
              !.exit = IF b.left >= b.entry THEN 0 ELSE b.entry - b.left]

\* Faster than an override now allows: down to the nominal speed, or through.
SlowDownProfile(p, b, n, x) ==
    LET until == b.left - (b.entry - n) IN
    IF until <= 0
    THEN [p EXCEPT !.ramp = "decel", !.exit = b.entry - b.left, !.decelOverride = TRUE]
    ELSE [p EXCEPT !.ramp = "decelOverride", !.exit = x, !.accelUntil = until,
                   !.decelAfter = n - x, !.maximum = n]

\* Acceleration, cruise and deceleration, or what there is room for.
RampProfile(p, b, n, x) ==
    LET meet == (b.left + b.entry - x) \div 2
        q == [p EXCEPT !.exit = x]
    IN  CASE b.left + b.entry <= x ->
               [q EXCEPT !.ramp = "accel", !.accelUntil = 0, !.decelAfter = 0, !.maximum = x]
          [] b.entry >= x + b.left -> [q EXCEPT !.ramp = "decel"]
          [] OTHER ->
               IF n - x < meet
               THEN [q EXCEPT !.ramp = IF b.entry = n THEN "cruise" ELSE "accel",
                              !.accelUntil = b.left - (n - b.entry),
                              !.decelAfter = n - x, !.maximum = n]
               ELSE [q EXCEPT !.ramp = "accel", !.accelUntil = meet, !.decelAfter = meet,
                              !.maximum = x + meet]

Profile(p, b) ==
    LET n == Nominal(b, ovr)
        clear == [p EXCEPT !.complete = 0]
    IN  CASE motion = "hold" -> HoldProfile(p, b)
          [] motion # "hold" /\ b.entry > n -> SlowDownProfile(clear, b, n, ExitSpeed)
          [] OTHER -> RampProfile(clear, b, n, ExitSpeed)

\* A block that was re-planned in execution goes on.
LoadSame ==
    /\ Prepping /\ ~prep.loaded /\ blocks # <<>> /\ prep.recalculate
    /\ prep' = Profile([prep EXCEPT !.loaded = TRUE, !.recalculate = FALSE,
                                    !.decelOverride = FALSE], blocks[1])
    /\ UNCHANGED <<motion, ovr, blocks, planned, prevNominal, overridden>>

\* A block entered in a forced deceleration keeps the speed of the one before.
LoadNew ==
    LET forced == motion = "hold" \/ prep.decelOverride
        b == IF forced THEN [blocks[1] EXCEPT !.entry = prep.exit] ELSE blocks[1]
    IN
    /\ Prepping /\ ~prep.loaded /\ blocks # <<>> /\ ~prep.recalculate
    /\ blocks' = [blocks EXCEPT ![1] = b]
    /\ prep' = Profile([prep EXCEPT !.loaded = TRUE, !.decelOverride = FALSE,
                                    !.v = b.entry], b)
    /\ UNCHANGED <<motion, ovr, planned, prevNominal, overridden>>

(***************************************************************************)
(* st_prep_buffer(): segments, of one unit of distance at a time.          *)
(***************************************************************************)
\* The distance left, the speed and the ramp after a segment, d being left.
Accelerated(d) ==
    IF d - 1 > prep.accelUntil THEN [left |-> d - 1, v |-> prep.v + 1, ramp |-> "accel"]
    ELSE [left |-> prep.accelUntil, v |-> prep.maximum,
          ramp |-> IF prep.accelUntil = prep.decelAfter THEN "decel" ELSE "cruise"]
Cruised(d) ==
    IF d > prep.decelAfter THEN [left |-> d - 1, v |-> prep.v, ramp |-> "cruise"]
    ELSE [left |-> prep.decelAfter, v |-> prep.v, ramp |-> "decel"]
Decelerated(d) ==
    IF prep.v > 1 /\ d - 1 > prep.complete
    THEN [left |-> d - 1, v |-> prep.v - 1, ramp |-> "decel"]
    ELSE [left |-> prep.complete, v |-> prep.exit, ramp |-> "decel"]
Slowed(d) ==
    IF d - 1 > prep.accelUntil THEN [left |-> d - 1, v |-> prep.v - 1, ramp |-> "decelOverride"]
    ELSE [left |-> prep.accelUntil, v |-> prep.maximum, ramp |-> "cruise"]

Moved == LET d == blocks[1].left IN
    CASE prep.ramp = "accel"  -> Accelerated(d)
      [] prep.ramp = "cruise" -> Cruised(d)
      [] prep.ramp = "decel"  -> Decelerated(d)
      [] OTHER -> Slowed(d)

BadDiscarded(p) == p - 1
\* plan_discard_current_block(): planned stays at the tail or moves with it.
Discarded(p) == IF p = 1 THEN 1 ELSE p - 1

Segment ==
    /\ Prepping /\ prep.loaded
    /\ LET s == Moved IN
       /\ prep' = [prep EXCEPT !.v = s.v, !.ramp = s.ramp,
                               !.loaded = ~(s.left = prep.complete /\ s.left = 0)]
       /\ IF s.left = prep.complete /\ s.left = 0
          THEN blocks' = Tail(blocks) /\ planned' = Discarded(planned) /\ UNCHANGED motion
          ELSE /\ blocks' = [blocks EXCEPT ![1].left = s.left]
               /\ motion' = IF s.left = prep.complete THEN "stopping" ELSE motion
               /\ UNCHANGED planned
    /\ UNCHANGED <<ovr, prevNominal, overridden>>

(***************************************************************************)
(* protocol_exec_rt_system(): starts, holds and overrides.                 *)
(***************************************************************************)
CycleStart ==
    /\ motion \in {"idle", "held"}
    /\ motion = "idle" => blocks # <<>>
    /\ motion' = IF blocks = <<>> THEN "idle" ELSE "cycle"
    /\ UNCHANGED <<ovr, blocks, planned, prevNominal, prep, overridden>>

FeedHold ==
    /\ motion = "cycle"
    /\ motion' = "hold"
    /\ blocks' = UpdatedTail(blocks)
    /\ prep' = UpdatedPrep
    /\ UNCHANGED <<ovr, planned, prevNominal, overridden>>

\* The steppers have come to rest.
HoldComplete ==
    /\ motion = "stopping" \/ (motion = "hold" /\ blocks = <<>>)
    /\ motion' = "held"
    /\ Reinitialize(blocks)
    /\ UNCHANGED <<ovr, prevNominal, overridden>>

\* The last segment came to a stop and was executed; lines may have been queued since.
CycleStop ==
    /\ motion = "cycle" /\ ~prep.loaded /\ ~prep.recalculate /\ prep.v = 0
    /\ motion' = "idle"
    /\ overridden' = IF blocks = <<>> THEN 0 ELSE overridden
    /\ UNCHANGED <<ovr, blocks, planned, prevNominal, prep>>

\* plan_update_velocity_profile_parameters(): the queue q under the override o;
\* no speed before the first block limits it.
Reprofiled(q, o) ==
    [i \in DOMAIN q |->
        LET n == Nominal(q[i], o) IN
        [q[i] EXCEPT !.max = MaxEntry(q[i].junction, n,
                                      IF i = 1 THEN n ELSE Nominal(q[i - 1], o))]]

Override ==
    /\ \E f, r \in Levels : ovr' = [feed |-> f, rapid |-> r]
    /\ ovr' # ovr
    /\ overridden < MaxOverrides
    /\ Reinitialize(Reprofiled(blocks, ovr'))
    /\ prevNominal' = IF blocks = <<>> THEN SomeLarge ELSE Nominal(blocks[Len(blocks)], ovr')
    /\ overridden' = IF blocks = <<>> THEN overridden ELSE overridden + 1
    /\ UNCHANGED motion

PlanReset ==
    /\ motion' = "idle" /\ ovr' = OvrReset
    /\ blocks' = <<>> /\ planned' = 1
    /\ prevNominal' = 0 /\ prep' = PrepReset /\ overridden' = 0

PlanNext == \/ BufferLine \/ LoadSame \/ LoadNew \/ Segment
            \/ CycleStart \/ FeedHold \/ HoldComplete \/ CycleStop \/ Override \/ PlanReset

PlanSpec == PlanInit /\ [][PlanNext]_planVars

-----------------------------------------------------------------------------
(***************************************************************************)
(* Properties.                                                             *)
(***************************************************************************)
PlanTypeOK ==
    /\ motion \in {"idle", "cycle", "hold", "stopping", "held"}
    /\ ovr \in [feed : Levels, rapid : Levels]
    /\ blocks \in Seq([left : Nat, entry : Nat, max : Nat, junction : Nat, rate : Rates,
                       rapid : BOOLEAN])
    /\ Len(blocks) \in 0 .. QueueSize
    /\ planned \in 1 .. Len(blocks) + 1
    /\ prevNominal \in Nat
    /\ prep \in [loaded : BOOLEAN, recalculate : BOOLEAN, decelOverride : BOOLEAN,
                 v : Nat, exit : Nat, ramp : {"accel", "cruise", "decel", "decelOverride"},
                 complete : Nat, accelUntil : Nat, decelAfter : Nat, maximum : Nat]
    /\ overridden \in 0 .. MaxOverrides

\* What is left of the block in execution, before and after a step.
Distance == blocks[1].left - IF Len(blocks') = Len(blocks) THEN blocks'[1].left ELSE 0

\* The speed changes no faster than the acceleration allows, and not at all
\* where one block ends and the next begins.
WithinAcceleration ==
    [][/\ Segment /\ overridden = 0 => prep'.v - prep.v \in -Distance .. Distance
       /\ LoadNew \/ LoadSame => prep'.v = prep.v]_planVars

\* No corner is taken faster than its junction allows, and no block entered faster
\* than its own rate.
JunctionRespected ==
    [][LoadNew /\ overridden = 0 =>
         prep'.v <= Lesser(blocks[1].junction, Nominal(blocks[1], ovr))]_planVars

\* Where the blocks of the queue q, and the end of the last one, lie.
Places(q) ==
    LET at[i \in 1 .. Len(q) + 1] == IF i = 1 THEN 0 ELSE at[i - 1] + q[i - 1].left
    IN  at

\* The highest speed at which block k can be entered: what is reached from the
\* speed now, from every limit before it and for every limit behind it, and what
\* brakes down to the stop at the end.
Best(k) ==
    LET n == Len(blocks)
        at == Places(blocks)
        apart(i, j) == IF i < j THEN at[j] - at[i] ELSE at[i] - at[j]
        now == IF prep.loaded THEN prep.v ELSE blocks[1].entry
    IN  Min({blocks[j].max + apart(j, k) : j \in 2 .. n} \union
            {now + apart(1, k), apart(k, n + 1)})

\* The short cut of block_buffer_planned loses nothing: but for a hold, that
\* re-plans when it is complete, every block is planned as fast as the whole
\* queue allows.
PlanOptimal ==
    motion \notin {"hold", "stopping"} /\ overridden = 0
    => \A k \in 2 .. Len(blocks) : blocks[k].entry = Best(k)

\* A block's entry speed does not exceed the one reverse-computed from its exit
\* speed with the allowed deceleration over its length.  An override can break this.
PlanBraked ==
    motion \notin {"hold", "stopping"} => \A k \in 2 .. Len(blocks) - 1 :
        blocks[k].entry <= blocks[k + 1].entry + blocks[k].left
=============================================================================
