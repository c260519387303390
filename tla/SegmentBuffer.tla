--------------------------- MODULE SegmentBuffer ---------------------------
(***************************************************************************)
(* The step segment buffer of Stepper.cpp: the main task checks motion out *)
(* of the planner one short segment at a time (st_prep_buffer) and the     *)
(* stepper timer interrupt executes the segments (stepper_pulse_func).     *)
(* The two share two rings and no lock:                                    *)
(*                                                                         *)
(*   segment_buffer   SEGMENT_BUFFER_SIZE slots; head and next_head are    *)
(*                    written by the main task, tail by the interrupt;     *)
(*   st_block_buffer  SEGMENT_BUFFER_SIZE - 1 slots of Bresenham data, one *)
(*                    per planner block; a segment names its slot, and     *)
(*                    nothing but the size of the segment ring keeps the   *)
(*                    main task from reusing a slot that is still in use.  *)
(*                                                                         *)
(* Around them the module keeps the part of Protocol.cpp that starts,      *)
(* holds, resumes, parks and resets the motion, because these operations   *)
(* rewrite pl_block, the prep record and its flags.  Every handler of the  *)
(* main task runs at pc = "top"; only st_prep_buffer, which takes long, is *)
(* interleaved with the interrupt step by step.                            *)
(*                                                                         *)
(* Data.  A planner block is a number; Steps[b] is its step_event_count    *)
(* (the steps of its longest axis) and Minor[b] the steps of one other     *)
(* axis.  Distances (millimeters, mm_complete) are counted in units of     *)
(* 1/STEP_UNITS of a step, so that the code's ceil() is a real rounding.   *)
(* Speeds and times are left out: where the code computes a distance from  *)
(* them, the model takes any distance the code's loop conditions allow.    *)
(* A whole block may go into one segment; n_step, which the segment time   *)
(* bounds in the code, is bounded here by Steps[b] < 2^16.  The Bresenham  *)
(* data is doubled (AMASS level 0); overrides are not modelled.            *)
(*                                                                         *)
(* An operator named Bad... is the definition below it with one mistake in *)
(* it; the model does not use it, a mutant of the model does.              *)
(***************************************************************************)
EXTENDS Integers, Sequences

CONSTANTS
  SEGMENT_BUFFER_SIZE, \* slots of the segment ring (6 in Stepper.h)
  NumBlocks,           \* planner blocks buffered in one behaviour (a bound)
  Steps,               \* block -> step_event_count
  Minor,               \* block -> steps of a second, slower axis
  STEP_UNITS,          \* distance units per step
  REQ_INCREMENT,       \* req_mm_increment in distance units (1.25 steps)
  MaxHolds,            \* feed holds in one behaviour (a bound)
  MaxResets,           \* st_reset calls in one behaviour (a bound)
  MaxParks,            \* parking motions in one behaviour (a bound)
  Underrun,            \* the interrupt may drain the ring before the main task,
                       \* in the middle of a motion, has refilled it
  HoldAtRest           \* feed hold and safety door may also come while the steppers
                       \* are at rest: Idle, or a cycle stop not handled yet

Park    == 0            \* the block a parking motion puts in the free slot
NoBlock == -1           \* NULL
Planned == 1..NumBlocks
Blocks  == Planned \cup {Park}
Slots   == 0..SEGMENT_BUFFER_SIZE-1
BlkSlots == 0..SEGMENT_BUFFER_SIZE-2
U16      == 65536       \* n_step and step_count are uint16_t

ASSUME BufferAssumption ==
  /\ SEGMENT_BUFFER_SIZE \in Nat /\ SEGMENT_BUFFER_SIZE >= 3
  /\ NumBlocks \in Nat
  /\ Steps \in [Blocks -> 1..U16-1]
  /\ Minor \in [Blocks -> Nat] /\ \A b \in Blocks : Minor[b] <= Steps[b]
  /\ STEP_UNITS \in Nat \ {0}
  /\ REQ_INCREMENT \in Nat /\ REQ_INCREMENT >= STEP_UNITS
  /\ MaxHolds \in Nat /\ MaxResets \in Nat /\ MaxParks \in Nat
  /\ Underrun \in BOOLEAN /\ HoldAtRest \in BOOLEAN

VARIABLES
  sys,     \* sys.state, suspend.holdComplete, sys.step_control, and where the
           \* suspend routine is (parkCall: in mc_parking_motion, restoring)
  plan,    \* planner queue, tail block first
  added,   \* the last block handed to plan_buffer_line
  mm,      \* block -> millimeters still to be prepped
  plb,     \* pl_block
  prep,    \* st_prep_t: slot, steps_remaining, mm_complete, exit_speed = 0 (stop),
           \* the flags, last_*;
           \* rem is the local mm_remaining of the segment in the making
  sblk,    \* st_block_buffer: slot -> block whose data it holds
  seg,     \* segment_buffer; owner: the block the segment was cut from (history)
  tail, head, nhead,  \* segment_buffer_tail, segment_buffer_head, segment_next_head
  pc,      \* where the main task is: "top", or in st_prep_buffer
  waking,  \* this call of st_prep_buffer is followed by st_wake_up
  st,      \* stepper_t of the interrupt
  timer,   \* step timer enabled
  cycle_stop,
  done,    \* block -> [major, minor]: steps executed (history)
  base,    \* last block buffered before the last reset (history)
  budget   \* holds, resets and parking motions left (bounds)

protocolVars == <<sys, plan, added, done, base, budget>>
prepVars == <<mm, plb, prep, sblk, seg, head, nhead, pc, waking>>
isrVars  == <<tail, st, timer, cycle_stop>>
vars == <<protocolVars, prepVars, isrVars>>

NoControl == [executeHold |-> FALSE, endMotion |-> FALSE, executeSysMotion |-> FALSE]
NoFlags   == [recalculate |-> FALSE, holdPartial |-> FALSE, parking |-> FALSE]

SysReset  == [state |-> "Idle", holdComplete |-> FALSE, ctl |-> NoControl,
              parkCall |-> FALSE, restoring |-> FALSE]
PrepReset == [slot |-> 0, steps |-> 0, complete |-> 0, stop |-> TRUE, rem |-> 0, flag |-> NoFlags,
              lastSlot |-> 0, lastSteps |-> 0]
StReset   == [loaded |-> FALSE, slot |-> 0, count |-> 0, counter |-> 0]

\* ceil(step_per_mm * mm)
StepsOf(d) == (d + STEP_UNITS - 1) \div STEP_UNITS

BadNextSlot(i) == IF i = SEGMENT_BUFFER_SIZE THEN 0 ELSE i + 1
NextSlot(i) == IF i + 1 = SEGMENT_BUFFER_SIZE THEN 0 ELSE i + 1
BadNextBlk(i) == IF i + 1 = SEGMENT_BUFFER_SIZE - 2 THEN 0 ELSE i + 1
\* st_next_block_index
NextBlk(i) == IF i + 1 = SEGMENT_BUFFER_SIZE - 1 THEN 0 ELSE i + 1

\* The segment slots the interrupt may still read, the tail included.
Queued(i) == IF tail <= head THEN tail <= i /\ i < head
                             ELSE tail <= i \/ i < head

\* plan_get_current_block
CurrentBlock == IF plan = <<>> THEN NoBlock ELSE Head(plan)

Init ==
  /\ sys = SysReset
  /\ plan = <<>> /\ added = 0 /\ base = 0
  /\ mm = [b \in Blocks |-> 0]
  /\ plb = NoBlock
  /\ prep = PrepReset
  /\ sblk = [i \in BlkSlots |-> NoBlock]
  /\ seg = [i \in Slots |-> [slot |-> 0, n |-> 0, owner |-> NoBlock]]
  /\ tail = 0 /\ head = 0 /\ nhead = 1
  /\ pc = "top" /\ waking = FALSE
  /\ st = StReset
  /\ timer = FALSE /\ cycle_stop = FALSE
  /\ done = [b \in Blocks |-> [major |-> 0, minor |-> 0]]
  /\ budget = [holds |-> MaxHolds, resets |-> MaxResets, parks |-> MaxParks]

-----------------------------------------------------------------------------
(* st_prep_buffer.  One turn of its while loop is three steps: take up a   *)
(* block, fill the segment at the head, publish it.                        *)

\* Called again and again by protocol_exec_rt_system in a motion state.
PrepEnter ==
  /\ pc = "top" /\ sys.state \in {"Cycle", "Hold", "SafetyDoor"}
  /\ ~sys.ctl.endMotion
  /\ pc' = "loop" /\ waking' = FALSE
  /\ UNCHANGED <<protocolVars, mm, plb, prep, sblk, seg, head, nhead, isrVars>>

\* Where a call of st_prep_buffer returns to.
Caller == IF waking THEN "wake" ELSE "top"

BadQueryBlock == CurrentBlock
\* The block st_prep_buffer takes up when pl_block is NULL.
QueryBlock == IF sys.ctl.executeSysMotion THEN Park ELSE CurrentBlock

\* The ring is full, or there is nothing to take up.
PrepReturn ==
  /\ pc = "loop"
  /\ tail = nhead \/ (plb = NoBlock /\ QueryBlock = NoBlock)
  /\ pc' = Caller
  /\ UNCHANGED <<protocolVars, mm, plb, prep, sblk, seg, head, nhead, waking, isrVars>>

\* The profiles the code may compute for block b: where they end (mm_complete)
\* and whether the speed there (exit_speed) is zero.  A hold decelerates to any
\* point of the block, or through it; from rest it does not move at all.  Normal
\* motion runs to the block's end, and stops there if no block follows.
Profiles(b, fromRest) ==
  IF sys.ctl.executeHold
  THEN IF fromRest THEN {[complete |-> mm[b], stop |-> TRUE]}
       ELSE {q \in [complete: 0..mm[b], stop: BOOLEAN] : q.complete > 0 => q.stop}
  ELSE {q \in [complete: {0}, stop: BOOLEAN] :
          sys.ctl.executeSysMotion \/ Len(plan) = 1 => q.stop}

\* A new block: its Bresenham data goes to the next slot of st_block_buffer.
PrepLoadNew ==
  /\ pc = "loop" /\ tail # nhead
  /\ plb = NoBlock /\ QueryBlock # NoBlock /\ ~prep.flag.recalculate
  /\ plb' = QueryBlock
  /\ sblk' = [sblk EXCEPT ![NextBlk(prep.slot)] = QueryBlock]
  /\ \E q \in Profiles(QueryBlock, prep.stop) :
       prep' = [prep EXCEPT !.slot = NextBlk(@), !.steps = Steps[QueryBlock],
                            !.complete = q.complete, !.stop = q.stop]
  /\ pc' = "seg"
  /\ UNCHANGED <<protocolVars, mm, seg, head, nhead, waking, isrVars>>

\* A block taken up before: only its velocity profile is recomputed.
PrepLoadSame ==
  /\ pc = "loop" /\ tail # nhead
  /\ plb = NoBlock /\ QueryBlock # NoBlock /\ prep.flag.recalculate
  /\ plb' = QueryBlock
  /\ \E q \in Profiles(QueryBlock, FALSE) :
       prep' = [prep EXCEPT !.complete = q.complete, !.stop = q.stop,
                            !.flag = IF @.parking THEN [@ EXCEPT !.recalculate = FALSE]
                                                  ELSE NoFlags]
  /\ pc' = "seg"
  /\ UNCHANGED <<protocolVars, mm, sblk, seg, head, nhead, waking, isrVars>>

\* pl_block is still in the making: straight to its next segment.
PrepKeep ==
  /\ pc = "loop" /\ tail # nhead /\ plb # NoBlock
  /\ pc' = "seg"
  /\ UNCHANGED <<protocolVars, mm, plb, prep, sblk, seg, head, nhead, waking, isrVars>>

BadSegmentEnds(b) == prep.complete..mm[b]
\* Where the next segment may end.  The do-while loop leaves only at
\* mm_complete or with minimum_mm covered, which guarantees a full step.
SegmentEnds(b) ==
  {prep.complete} \cup {d \in prep.complete..mm[b] : d <= mm[b] - REQ_INCREMENT}

\* End of a forced deceleration inside a block, or of a system motion: no
\* further segment until the protocol has seen the cycle stop.
EndMotion == sys' = [sys EXCEPT !.ctl.endMotion = TRUE]
HoldPartial(p) == IF p.flag.parking THEN p ELSE [p EXCEPT !.flag.holdPartial = TRUE]

\* Fill segment_buffer[segment_buffer_head].
PrepSegment ==
  /\ pc = "seg"
  /\ \E d \in SegmentEnds(plb) :
       LET n == (prep.steps - StepsOf(d)) % U16 IN       \* n_step has 16 bits
       /\ seg' = [seg EXCEPT ![head] = [slot |-> prep.slot, n |-> n, owner |-> plb]]
       /\ IF n = 0 /\ sys.ctl.executeHold
          THEN /\ EndMotion
               /\ prep' = HoldPartial(prep)
               /\ pc' = Caller
          ELSE /\ prep' = [prep EXCEPT !.rem = d]
               /\ pc' = "publish"
               /\ UNCHANGED sys
  /\ UNCHANGED <<plan, added, done, base, budget, mm, plb, sblk, head, nhead, waking,
                 isrVars>>

\* Advance the head and account for the distance; common to the four ways on.
Publish ==
  /\ pc = "publish"
  /\ head' = nhead /\ nhead' = NextSlot(nhead)
  /\ mm' = [mm EXCEPT ![plb] = prep.rem]
  /\ UNCHANGED <<added, done, base, budget, sblk, seg, waking, isrVars>>
Cut == [prep EXCEPT !.steps = StepsOf(prep.rem)]

\* The block goes on: next turn of the loop.
PublishMore ==
  /\ Publish /\ prep.rem # prep.complete
  /\ prep' = Cut /\ pc' = "loop"
  /\ UNCHANGED <<sys, plan, plb>>

\* The prepped motion ends: a forced deceleration inside the block, or a system
\* motion at its end.  pl_block stays, and no segment follows until the protocol
\* has seen the cycle stop.
PublishLast ==
  /\ Publish /\ prep.rem = prep.complete
  /\ prep.rem > 0 \/ sys.ctl.executeSysMotion
  /\ EndMotion /\ pc' = Caller
  /\ prep' = IF prep.rem > 0 THEN HoldPartial(Cut) ELSE Cut
  /\ UNCHANGED <<plan, plb>>

\* End of a planner block: plan_discard_current_block.
PublishBlockEnd ==
  /\ Publish /\ prep.rem = prep.complete /\ prep.rem = 0
  /\ ~sys.ctl.executeSysMotion
  /\ plb' = NoBlock /\ plan' = IF plan = <<>> THEN plan ELSE Tail(plan)
  /\ prep' = Cut /\ pc' = "loop"
  /\ UNCHANGED sys

\* st_wake_up
WakeUp ==
  /\ pc = "wake"
  /\ timer' = TRUE
  /\ pc' = "top" /\ waking' = FALSE
  /\ UNCHANGED <<protocolVars, mm, plb, prep, sblk, seg, head, nhead, tail, st, cycle_stop>>

-----------------------------------------------------------------------------
(* The stepper interrupt.  One action is one call of stepper_pulse_func.   *)

BadLoaded ==
  LET s == seg[tail] IN
  IF st.loaded THEN st
  ELSE [loaded |-> TRUE, slot |-> s.slot, count |-> s.n, counter |-> Steps[sblk[s.slot]]]
\* The segment being executed, after the load that may come with this tick:
\* a change of the slot named by the segment means a new block, and restarts
\* the Bresenham counters at half of the (doubled) step event count.
Loaded ==
  LET s == seg[tail] IN
  IF st.loaded THEN st
  ELSE [loaded |-> TRUE, slot |-> s.slot, count |-> s.n,
        counter |-> IF st.slot = s.slot THEN st.counter ELSE Steps[sblk[s.slot]]]

\* One step event: the Bresenham step of the minor axis, then the segment's end.
IsrStep ==
  /\ timer /\ (st.loaded \/ head # tail)
  /\ LET now   == Loaded
         data  == sblk[now.slot]
         sum   == now.counter + 2 * Minor[data]
         steps == sum > 2 * Steps[data]
         count == (now.count - 1) % U16
         owner == seg[tail].owner
     IN /\ st' = [now EXCEPT !.count = count, !.loaded = (count # 0),
                             !.counter = IF steps THEN sum - 2 * Steps[data] ELSE sum]
        /\ tail' = IF count = 0 THEN NextSlot(tail) ELSE tail
        /\ done' = [done EXCEPT ![owner] =
                       [major |-> @.major + 1, minor |-> @.minor + IF steps THEN 1 ELSE 0]]
  /\ UNCHANGED <<sys, plan, added, base, budget, prepVars, timer, cycle_stop>>

\* st_prep_buffer still owes the ring segments of the motion under way: it is
\* at work, a block is partly prepped, or a deceleration is not at its end.
Refilling ==
  \/ pc \in {"loop", "seg", "publish"}
  \/ /\ ~sys.ctl.endMotion
     /\ \/ plb # NoBlock \/ prep.flag.recalculate
        \/ sys.ctl.executeHold /\ plan # <<>>

BadIsrEmpty ==
  /\ timer /\ ~st.loaded /\ head = tail
  /\ Underrun \/ ~Refilling
  /\ timer' = FALSE /\ cycle_stop' = (plan = <<>>)
  /\ UNCHANGED <<protocolVars, prepVars, tail, st>>
\* No segment left: st_go_idle, and tell the protocol.
IsrEmpty ==
  /\ timer /\ ~st.loaded /\ head = tail
  /\ Underrun \/ ~Refilling
  /\ timer' = FALSE /\ cycle_stop' = TRUE
  /\ UNCHANGED <<protocolVars, prepVars, tail, st>>

-----------------------------------------------------------------------------
(* The handlers of the main task that rewrite the state above.             *)

BadUpdatedPrep == prep
\* st_update_plan_block_parameters
UpdatedPrep == IF plb = NoBlock THEN prep ELSE [prep EXCEPT !.flag.recalculate = TRUE]
StUpdate == prep' = UpdatedPrep /\ plb' = NoBlock

\* plan_buffer_line for the next block of the program; the recalculation of
\* the plan may reach the block being prepped.
BufferLine ==
  /\ pc = "top" /\ sys.state \in {"Idle", "Cycle"} /\ added < NumBlocks
  /\ added' = added + 1
  /\ plan' = Append(plan, added + 1)
  /\ mm' = [mm EXCEPT ![added + 1] = Steps[added + 1] * STEP_UNITS]
  /\ \/ UNCHANGED <<prep, plb>>
     \/ plan # <<>> /\ StUpdate
  /\ UNCHANGED <<sys, done, base, budget, sblk, seg, head, nhead, pc, waking, isrVars>>

\* Start or resume: run the queued blocks, or become Idle without any.
Start(s) ==
  /\ sys' = [s EXCEPT !.state = IF plan = <<>> THEN "Idle" ELSE "Cycle",
                      !.holdComplete = FALSE, !.ctl = NoControl,
                      !.restoring = FALSE]
  /\ pc' = (IF plan = <<>> THEN "top" ELSE "loop") /\ waking' = (plan # <<>>)
  /\ UNCHANGED <<plan, added, done, base, budget, mm, plb, prep, sblk, seg, head, nhead,
                 isrVars>>

CycleStart ==
  /\ pc = "top"
  /\ sys.state = "Idle" \/ (sys.state = "Hold" /\ sys.holdComplete)
  /\ plan # <<>> \/ sys.state = "Hold"
  /\ Start(sys)

\* Door closed and the restore motions over: the suspend routine asks for a start.
DoorResume ==
  /\ pc = "top" /\ sys.state = "SafetyDoor" /\ sys.restoring /\ ~sys.parkCall
  /\ Start(sys)

\* Feed hold and safety door: a moving machine decelerates, an idle one is
\* on hold at once.
Suspend(state) ==
  /\ sys' = [sys EXCEPT !.state = state,
                        !.holdComplete = @ \/ sys.state = "Idle",
                        !.ctl = IF sys.state = "Cycle"
                                THEN [NoControl EXCEPT !.executeHold = TRUE] ELSE @]
  /\ IF sys.state = "Cycle" THEN StUpdate ELSE UNCHANGED <<prep, plb>>
  /\ budget' = [budget EXCEPT !.holds = @ - 1]
  /\ UNCHANGED <<plan, added, done, base, mm, sblk, seg, head, nhead, pc, waking, isrVars>>

Suspendable == \/ sys.state = "Cycle" /\ (HoldAtRest \/ ~cycle_stop)
               \/ sys.state = "Idle" /\ HoldAtRest

FeedHold ==
  /\ pc = "top" /\ budget.holds > 0 /\ Suspendable
  /\ Suspend("Hold")

SafetyDoor ==
  /\ pc = "top" /\ budget.holds > 0 /\ (Suspendable \/ sys.state = "Hold")
  /\ Suspend("SafetyDoor")

BadStopped == [sys EXCEPT !.ctl.executeHold = FALSE, !.ctl.executeSysMotion = FALSE]
\* A hold, or a system motion within it, is at its end.
Stopped == [sys EXCEPT !.holdComplete = @ \/ sys.ctl.executeHold,
                       !.ctl.executeHold = FALSE, !.ctl.executeSysMotion = FALSE]

\* The cycle_stop branch of protocol_exec_rt_system.
HandleCycleStop ==
  /\ pc = "top" /\ cycle_stop
  /\ cycle_stop' = FALSE
  /\ IF sys.state \in {"Hold", "SafetyDoor"}
     THEN StUpdate /\ sys' = Stopped                       \* plan_cycle_reinitialize
     ELSE /\ sys' = [sys EXCEPT !.state = "Idle", !.holdComplete = FALSE]
          /\ UNCHANGED <<prep, plb>>
  /\ UNCHANGED <<plan, added, done, base, budget, mm, sblk, seg, head, nhead, pc, waking,
                 tail, st, timer>>

\* mc_parking_motion up to its wait loop, with st_parking_setup_buffer.
ParkMotion ==
  /\ pc = "top" /\ sys.state = "SafetyDoor" /\ sys.holdComplete /\ ~sys.parkCall
  /\ budget.parks > 0 /\ budget' = [budget EXCEPT !.parks = @ - 1]
  /\ sys' = [sys EXCEPT !.ctl.executeSysMotion = TRUE, !.ctl.endMotion = FALSE,
                        !.parkCall = TRUE]
  /\ mm' = [mm EXCEPT ![Park] = Steps[Park] * STEP_UNITS]
  /\ LET p == IF prep.flag.holdPartial
              THEN [prep EXCEPT !.lastSlot = prep.slot, !.lastSteps = prep.steps]
              ELSE prep
     IN prep' = [p EXCEPT !.flag.parking = TRUE, !.flag.recalculate = FALSE]
  /\ plb' = NoBlock
  /\ pc' = "loop" /\ waking' = TRUE
  /\ UNCHANGED <<plan, added, done, base, sblk, seg, head, nhead, isrVars>>

BadRestored  == IF prep.flag.holdPartial
                THEN [prep EXCEPT !.steps = prep.lastSteps, !.flag.recalculate = TRUE]
                ELSE [prep EXCEPT !.flag = NoFlags]
\* st_parking_restore_buffer
Restored ==
  IF prep.flag.holdPartial
  THEN [prep EXCEPT !.slot = prep.lastSlot, !.steps = prep.lastSteps,
                    !.flag.recalculate = TRUE]
  ELSE [prep EXCEPT !.flag = NoFlags]

\* The end of mc_parking_motion: st_parking_restore_buffer.
ParkRestore ==
  /\ pc = "top" /\ sys.parkCall /\ ~sys.ctl.executeSysMotion
  /\ sys' = [sys EXCEPT !.parkCall = FALSE]
  /\ prep' = Restored
  /\ plb' = NoBlock
  /\ UNCHANGED <<plan, added, done, base, budget, mm, sblk, seg, head, nhead, pc, waking,
                 isrVars>>

\* Door closed and cycle start: the restore motions may begin.
StartRestore ==
  /\ pc = "top" /\ sys.state = "SafetyDoor" /\ sys.holdComplete
  /\ ~sys.parkCall /\ ~sys.restoring
  /\ sys' = [sys EXCEPT !.restoring = TRUE]
  /\ UNCHANGED <<plan, added, done, base, budget, prepVars, isrVars>>

\* The door opens again during a restore motion, which is held in turn.
DoorReopened ==
  /\ pc = "top" /\ sys.restoring /\ sys.ctl.executeSysMotion /\ budget.holds > 0
  /\ HoldAtRest \/ ~cycle_stop
  /\ budget' = [budget EXCEPT !.holds = @ - 1]
  /\ sys' = [sys EXCEPT !.ctl = [executeHold |-> TRUE, endMotion |-> FALSE,
                                 executeSysMotion |-> TRUE],
                        !.holdComplete = FALSE, !.restoring = FALSE]
  /\ StUpdate
  /\ UNCHANGED <<plan, added, done, base, mm, sblk, seg, head, nhead, pc, waking, isrVars>>

BadReset ==
  /\ pc = "top" /\ budget.resets > 0
  /\ budget' = [budget EXCEPT !.resets = @ - 1]
  /\ sys' = SysReset
  /\ plan' = <<>> /\ base' = added /\ UNCHANGED <<added, done>>
  /\ plb' = NoBlock /\ prep' = prep
  /\ head' = 0 /\ nhead' = 1 /\ UNCHANGED <<mm, sblk, seg, pc, waking>>
  /\ tail' = 0 /\ st' = StReset /\ timer' = FALSE /\ cycle_stop' = FALSE

\* System abort: reset_variables with plan_reset and st_reset.
Reset ==
  /\ pc = "top" /\ budget.resets > 0
  /\ budget' = [budget EXCEPT !.resets = @ - 1]
  /\ sys' = SysReset
  /\ plan' = <<>> /\ base' = added /\ UNCHANGED <<added, done>>
  /\ plb' = NoBlock /\ prep' = PrepReset
  /\ head' = 0 /\ nhead' = 1 /\ UNCHANGED <<mm, sblk, seg, pc, waking>>
  /\ tail' = 0 /\ st' = StReset /\ timer' = FALSE /\ cycle_stop' = FALSE

Prep == \/ PrepEnter \/ PrepReturn \/ PrepLoadNew \/ PrepLoadSame \/ PrepKeep
        \/ PrepSegment \/ PublishMore \/ PublishLast
        \/ PublishBlockEnd \/ WakeUp

Handlers == \/ BufferLine \/ CycleStart \/ DoorResume \/ FeedHold \/ SafetyDoor
            \/ HandleCycleStop \/ StartRestore \/ Reset
Parking  == ParkMotion \/ ParkRestore \/ DoorReopened

Protocol == Handlers \/ Parking

Interrupt == IsrStep \/ IsrEmpty

Next == Prep \/ Protocol \/ Interrupt

Spec == Init /\ [][Next]_vars

\* A machine that cannot park: laser mode, or no homing (can_park).
UnparkedSpec == Init /\ [][Prep \/ Handlers \/ Interrupt]_vars

\* The loops of the main task call protocol_exec_rt_system for ever, every call tests
\* cycle_stop and ends in st_prep_buffer, and an enabled timer keeps interrupting.
FairSpec == /\ UnparkedSpec
            /\ WF_vars(Prep) /\ WF_vars(Interrupt) /\ SF_vars(HandleCycleStop)

-----------------------------------------------------------------------------
ControlType == [executeHold: BOOLEAN, endMotion: BOOLEAN, executeSysMotion: BOOLEAN]
FlagType    == [recalculate: BOOLEAN, holdPartial: BOOLEAN, parking: BOOLEAN]
SysType     == [state: {"Idle", "Cycle", "Hold", "SafetyDoor"}, holdComplete: BOOLEAN,
                ctl: ControlType, parkCall: BOOLEAN, restoring: BOOLEAN]
PrepType    == [slot: BlkSlots, steps: Nat, complete: Nat, stop: BOOLEAN, rem: Nat,
                flag: FlagType, lastSlot: BlkSlots, lastSteps: Nat]
SegmentType == [slot: BlkSlots, n: 0..U16-1, owner: Blocks \cup {NoBlock}]
StType      == [loaded: BOOLEAN, slot: BlkSlots, count: 0..U16-1, counter: Nat]

ProtocolTypes ==
  /\ sys \in SysType
  /\ plan \in Seq(Planned) /\ added \in 0..NumBlocks /\ base \in 0..NumBlocks
  /\ done \in [Blocks -> [major: Nat, minor: Nat]]
  /\ budget \in [holds: Nat, resets: Nat, parks: Nat]
PrepTypes ==
  /\ mm \in [Blocks -> Nat]
  /\ plb \in Blocks \cup {NoBlock}
  /\ prep \in PrepType
  /\ sblk \in [BlkSlots -> Blocks \cup {NoBlock}]
  /\ seg \in [Slots -> SegmentType]
  /\ head \in Slots /\ nhead = NextSlot(head)
  /\ pc \in {"top", "loop", "seg", "publish", "wake"} /\ waking \in BOOLEAN
IsrTypes ==
  /\ tail \in Slots
  /\ st \in StType
  /\ timer \in BOOLEAN /\ cycle_stop \in BOOLEAN

\* Every index stays in its ring, segment_next_head is one ahead of the head, and
\* no unsigned field (steps_remaining, n_step, step_count) goes below zero.
TypeOK == ProtocolTypes /\ PrepTypes /\ IsrTypes

\* The interrupt steps every segment with the Bresenham data of the block the
\* segment was cut from: st_prep_buffer, which takes slot after slot of
\* st_block_buffer without asking whether it is still in use, never overwrites
\* the data of a segment that is still to be executed.
BlockDataIntact == \A i \in Slots : Queued(i) => sblk[seg[i].slot] = seg[i].owner

\* st_prep_buffer publishes no segment without a step event: stepper_pulse_func
\* decrements the 16 bit step count before it tests it, so a segment of 0 steps
\* would make 65536.
NoEmptySegment == \A i \in Slots : Queued(i) => seg[i].n # 0

\* A live block that is out of the planner and out of the ring.
Executed(b) ==
  /\ b \in (base+1)..added
  /\ \A i \in DOMAIN plan : plan[i] # b
  /\ \A i \in Slots : Queued(i) => seg[i].owner # b

\* However a block is cut into segments, held, resumed and parked in between, when
\* the planner and the ring are through with it, its longest axis has made exactly
\* step_event_count steps (steps_remaining and n_step of st_prep_buffer).
MajorStepsExact == \A b \in Planned : Executed(b) => done[b].major = Steps[b]

\* ... and every other axis exactly its own: the Bresenham counters of the interrupt
\* go on across the segments, holds and resumes of a block as if nothing had happened.
MinorStepsExact == \A b \in Planned : Executed(b) => done[b].minor = Minor[b]

\* protocol_buffer_synchronize, which returns when it finds no planner block and no
\* cycle, has blocked until all buffered steps are executed.
SynchronizeDrains ==
  pc = "top" /\ sys.state = "Idle" /\ plan = <<>> => head = tail

\* A feed hold always comes to an end: the deceleration is prepped to its end, the
\* interrupt runs dry and protocol_exec_rt_system completes the hold, whenever the
\* hold came, a moment before the last cycle stop included.
HoldCompletes == sys.state = "Hold" ~> sys.holdComplete \/ sys.state # "Hold"

\* No cycle is left standing: with a finite program the machine gets out of Cycle,
\* it never waits there with a stopped timer and no cycle stop to come.
CycleEnds == sys.state = "Cycle" ~> sys.state # "Cycle"

\* Once a safety door hold is complete, the interrupt makes no step of a planner
\* block until the door is closed and the motion resumed; parking motions only.
NoStepWhileDoorOpen ==
  [][sys.state = "SafetyDoor" /\ sys.holdComplete =>
       \A b \in Planned : done'[b] = done[b]]_vars
=============================================================================
