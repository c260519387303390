-------------------------------- MODULE Laser --------------------------------
(***************************************************************************)
(* The laser of the active board (Spindles/Laser.cpp, $32) around the      *)
(* segment buffer.  The beam has four masters that no lock keeps apart:    *)
(* the stepper interrupt sets the power of each segment it loads and takes *)
(* it away when the ring is empty; the parser sets it when a line changes  *)
(* speed or spindle without a motion; the suspend loop stops and restores  *)
(* it; mc_reset, in another task, turns it off.  Which power a segment     *)
(* gets is decided ahead by st_prep_buffer.                                *)
(*                                                                         *)
(* Every action is one of SegmentBuffer with what it does to the beam, or  *)
(* one that leaves the buffer alone.  Powers are small numbers, 0 is dark; *)
(* M4 (Ccw) scales the power with the speed, which is any power up to the  *)
(* programmed one here, and none at speed zero.  In laser mode there are   *)
(* no parking motions (can_park); without it the same output is a spindle. *)
(* A pass of protocol_exec_rt_system handles one flag at a time, except    *)
(* where a comment says so.                                                *)
(***************************************************************************)
EXTENDS SegmentBuffer

CONSTANTS
  Lines,         \* the g-code lines of a program: [motion, move, speed, spindle]
  MaxLines,      \* lines without a motion (a bound)
  MaxRequests    \* spindle stop characters, overrides and blocked resumes (a bound)

VARIABLES
  laserMode,  \* $32
  gc,         \* gc_state: modal motion and spindle, spindle_speed
  work,       \* block -> spindle and spindle_speed of its plan_block_t
  fill,       \* st_prep_buffer: is_pwm_rate_adjusted per slot, current_spindle_rpm,
              \* spindle_rpm per segment, updateSpindleRpm
  susp,       \* protocol_exec_rt_suspend: inside it; its loop body is due; its
              \* restore variables; how far a door has got; spindle_stop_ovr and the
              \* request for it (spindleOvrStop); a cycle start it has posted
  beam,       \* the power of the output, and who has set it last (history)
  exec,       \* st.exec_block # NULL
  reset,      \* mc_reset: off, has stopped the spindle, has killed the steppers; or
              \* the main task is in reset_variables, behind spindle->stop()
  excused,    \* what has lit the beam against the rule (history)
  said,       \* block -> its line (history)
  left        \* bounds

laserVars == <<laserMode, gc, work, fill, susp, beam, exec, reset, excused, said, left>>
allVars   == <<vars, laserVars>>

Spindles == {"Disable", "Cw", "Ccw"}
Off      == [spindle |-> "Disable", speed |-> 0]
Dark     == [power |-> 0, by |-> "main"]
Speeds   == {0} \cup {l.speed : l \in Lines}
Powers   == 0..(CHOOSE s \in Speeds : \A t \in Speeds : t <= s)

ASSUME LinesAssumption ==
  /\ Lines \subseteq [motion: {"G0", "G1"}, move: BOOLEAN, speed: Nat, spindle: Spindles]
  /\ MaxLines \in Nat /\ MaxRequests \in Nat

Causes   == {"resume", "override", "restored", "stopped early", "undrained", "reset"}
\* Those that a new start of the motion does not put right.
Lasting  == {"undrained", "reset"}

GcInit   == [motion |-> "G0", spindle |-> "Disable", speed |-> 0]
SuspInit == [inside |-> FALSE, due |-> FALSE, restore |-> Off, phase |-> "hold",
             stop |-> "none", request |-> FALSE, resume |-> FALSE]

LaserInit ==
  /\ Init
  /\ laserMode \in BOOLEAN
  /\ gc = GcInit
  /\ work = [b \in Blocks |-> Off]
  /\ fill = [adjusted |-> [i \in BlkSlots |-> FALSE], rpm |-> 0,
             seg |-> [i \in Slots |-> 0], update |-> FALSE]
  /\ susp = SuspInit
  /\ beam = Dark /\ exec = FALSE
  /\ reset = "no" /\ excused = {} /\ said = <<>>
  /\ left = [lines |-> MaxLines, requests |-> MaxRequests]

\* PWM::set_state outside of an abort
State(spindle, speed) ==
  [power |-> IF spindle = "Disable" THEN 0 ELSE speed, by |-> "main"]

-----------------------------------------------------------------------------
(* Lines.                                                                  *)

\* GCParserLaserDisable: a motion other than G1, G2, G3 passes no power on.
LaserDisable(l) == laserMode /\ l.motion = "G0"

\* GCParserLaserForceSync: M3 into or out of a cutting mode without a motion.
ForceSync(l) == laserMode /\ ~l.move /\ gc.spindle = "Cw" /\ gc.motion # l.motion

BadDataSpeed(l) == l.speed
\* pl_data->spindle_speed, and the power for spindle->sync
DataSpeed(l) == IF LaserDisable(l) THEN 0 ELSE l.speed

\* A change of speed waits for the queue, but not with a motion in laser mode.
SpeedSync(l) ==
  /\ gc.speed # l.speed \/ ForceSync(l)
  /\ gc.spindle # "Disable" /\ ~(laserMode /\ l.move)
SpindleSync(l) == gc.spindle # l.spindle

\* protocol_buffer_synchronize has returned, if the line calls it.
Synchronized(l) ==
  SpeedSync(l) \/ SpindleSync(l) => sys.state = "Idle" /\ plan = <<>> /\ reset = "no"

\* gc_execute_line, as far as it is about motion and spindle.
Line(l) ==
  /\ pc = "top" /\ sys.state \in {"Idle", "Cycle"} /\ reset # "aborting"
  /\ Synchronized(l)
  /\ gc' = [motion |-> l.motion, spindle |-> l.spindle, speed |-> l.speed]
  /\ beam' = IF SpindleSync(l) THEN State(l.spindle, DataSpeed(l))
             ELSE IF SpeedSync(l) THEN State(gc.spindle, DataSpeed(l))
             ELSE beam
  /\ IF l.move
     THEN /\ BufferLine
          /\ work' = [work EXCEPT ![added + 1] =
                        [spindle |-> l.spindle, speed |-> DataSpeed(l)]]
          /\ said' = Append(said, l)
          /\ UNCHANGED left
     ELSE /\ left.lines > 0 /\ left' = [left EXCEPT !.lines = @ - 1]
          /\ UNCHANGED <<vars, work, said>>
  /\ excused' = IF SpindleSync(l) /\ head # tail THEN excused \cup {"undrained"} ELSE excused
  /\ UNCHANGED <<laserMode, fill, susp, exec, reset>>

-----------------------------------------------------------------------------
(* st_prep_buffer.                                                         *)

RateAdjusted(b) == laserMode /\ work[b].spindle = "Ccw"

LoadNew ==
  /\ PrepLoadNew
  /\ fill' = [fill EXCEPT !.adjusted[NextBlk(prep.slot)] = RateAdjusted(QueryBlock),
                          !.update = TRUE]
  /\ UNCHANGED <<laserMode, gc, work, susp, beam, exec, reset, excused, said, left>>

LoadSame ==
  /\ PrepLoadSame
  /\ fill' = [fill EXCEPT !.update = TRUE]
  /\ UNCHANGED <<laserMode, gc, work, susp, beam, exec, reset, excused, said, left>>

\* The power of the segment in the making: current_speed is zero at the end of a
\* profile that stops.
SegmentPowers ==
  LET w == work[plb] IN
  IF w.spindle = "Disable" THEN {0}
  ELSE IF ~fill.adjusted[prep.slot] THEN {w.speed}
  ELSE IF prep.stop /\ prep'.rem = prep.complete THEN {0} ELSE 0..w.speed

\* The power is computed anew only if asked for, or with every segment of M4.
NewPower == fill.adjusted[prep.slot] \/ fill.update

Segment ==
  /\ PrepSegment
  /\ IF NewPower
     THEN \E p \in SegmentPowers :
            fill' = [fill EXCEPT !.rpm = p, !.seg[head] = p, !.update = FALSE]
     ELSE fill' = [fill EXCEPT !.seg[head] = fill.rpm]
  /\ UNCHANGED <<laserMode, gc, work, susp, beam, exec, reset, excused, said, left>>

\* The rest of st_prep_buffer; a new call comes from a pass.
Fill ==
  /\ \/ PrepEnter /\ reset = "no"
     \/ PrepReturn \/ PrepKeep \/ PublishMore \/ PublishLast
     \/ PublishBlockEnd \/ WakeUp
  /\ UNCHANGED laserVars

-----------------------------------------------------------------------------
(* The stepper interrupt.                                                  *)

\* set_rpm as the segment is loaded, prior to its first step
Step ==
  /\ IsrStep
  /\ beam' = IF st.loaded THEN beam ELSE [power |-> fill.seg[tail], by |-> "segment"]
  /\ exec' = TRUE
  /\ UNCHANGED <<laserMode, gc, work, fill, susp, reset, excused, said, left>>

\* "Ensure pwm is set properly upon completion of rate-controlled motion"
EmptyBeam == IF exec /\ fill.adjusted[st.slot] THEN [power |-> 0, by |-> "segment"]
                                               ELSE beam

Empty ==
  /\ IsrEmpty
  /\ beam' = EmptyBeam
  /\ UNCHANGED <<laserMode, gc, work, fill, susp, exec, reset, excused, said, left>>

-----------------------------------------------------------------------------
(* Passes of protocol_exec_rt_system.                                      *)

\* sys.suspend is not 0: the caller goes on to, or is in, the suspend loop.
Suspended == (sys.state = "Hold" /\ sys.holdComplete) \/ sys.state = "SafetyDoor"

\* A pass begins; inside the suspend loop, when the body has had its turn.
Pass == /\ reset = "no"
        /\ Suspended => susp.inside /\ (~susp.due \/ sys.parkCall)

\* The end of a pass: spindleOvrStop counts in a hold only.
PassEnd(s) ==
  [s EXCEPT !.request = FALSE, !.due = s.inside,
            !.stop = IF ~s.request \/ sys'.state # "Hold" THEN @
                     ELSE IF @ = "none" THEN "initiate"
                     ELSE IF @ = "enabled" THEN "restore" ELSE @]

\* step_control = {} when a motion is held.
Hold ==
  /\ Pass /\ (susp.resume => sys.state = "Hold")
  /\ FeedHold \/ SafetyDoor
  /\ susp' = PassEnd([susp EXCEPT !.resume = FALSE])
  /\ fill' = IF sys.state = "Cycle" THEN [fill EXCEPT !.update = FALSE] ELSE fill
  /\ UNCHANGED <<laserMode, gc, work, beam, exec, reset, excused, said, left>>

\* A cycle start breaks the suspend state.
Resume ==
  /\ Pass
  /\ \/ CycleStart /\ (sys.state = "Hold" => susp.stop = "none")
     \/ DoorResume /\ susp.resume
  /\ susp' = PassEnd([SuspInit EXCEPT !.request = susp.request])
  /\ fill' = [fill EXCEPT !.update = FALSE]
  /\ excused' = excused \cap Lasting
  /\ UNCHANGED <<laserMode, gc, work, beam, exec, reset, said, left>>

\* The user's cycle start finds the spindle stopped: the loop restores it first.
ResumeStopped ==
  /\ Pass /\ pc = "top" /\ sys.state = "Hold" /\ sys.holdComplete
  /\ susp.stop # "none" /\ ~susp.resume
  /\ susp' = [PassEnd([susp EXCEPT !.request = FALSE]) EXCEPT !.stop = "restoreCycle"]
  /\ UNCHANGED <<vars, laserMode, gc, work, fill, beam, exec, reset, excused, said, left>>

\* A feed hold in the pass that reads the loop's cycle start drops the latter.
ResumeBlocked ==
  /\ Pass /\ pc = "top" /\ susp.resume /\ sys.state = "Hold"
  /\ left.requests > 0 /\ left' = [left EXCEPT !.requests = @ - 1]
  /\ UNCHANGED sys
  /\ susp' = PassEnd([susp EXCEPT !.resume = FALSE])
  /\ excused' = excused \cup {"resume"}
  /\ UNCHANGED <<vars, laserMode, gc, work, fill, beam, exec, reset, said>>

CycleStopped ==
  /\ Pass /\ ~susp.resume
  /\ HandleCycleStop
  /\ susp' = PassEnd(susp)
  /\ UNCHANGED <<laserMode, gc, work, fill, beam, exec, reset, excused, said, left>>

Restoring ==
  /\ Pass /\ susp.phase = "off"
  /\ StartRestore
  /\ susp' = PassEnd(susp)
  /\ UNCHANGED <<laserMode, gc, work, fill, beam, exec, reset, excused, said, left>>

\* The door opens again while position and power are being restored.
Reopened ==
  /\ Pass
  /\ \/ DoorReopened /\ fill' = [fill EXCEPT !.update = FALSE]
     \/ /\ pc = "top" /\ sys.restoring /\ ~sys.ctl.executeSysMotion /\ ~sys.parkCall
        /\ budget.holds > 0 /\ budget' = [budget EXCEPT !.holds = @ - 1]
        /\ sys' = [sys EXCEPT !.restoring = FALSE]
        /\ UNCHANGED <<plan, added, done, base, prepVars, isrVars, fill>>
  /\ susp' = PassEnd([susp EXCEPT !.phase = "hold", !.resume = FALSE])
  /\ UNCHANGED <<laserMode, gc, work, beam, exec, reset, excused, said, left>>

\* A pass with no more than the spindle stop request; the loop makes them for ever.
QuietPass ==
  /\ Pass /\ pc = "top" /\ (susp.request \/ susp.inside) /\ ~susp.resume
  /\ UNCHANGED sys
  /\ susp' = PassEnd(susp)
  /\ UNCHANGED <<vars, laserMode, gc, work, fill, beam, exec, reset, excused, said, left>>

\* sys_rt_s_override has changed: "If spindle is on, tell it".
Override ==
  /\ Pass /\ pc = "top" /\ ~susp.resume
  /\ left.requests > 0 /\ left' = [left EXCEPT !.requests = @ - 1]
  /\ UNCHANGED sys
  /\ fill' = [fill EXCEPT !.update = TRUE]
  /\ beam' = IF gc.spindle = "Disable" THEN beam ELSE State(gc.spindle, gc.speed)
  /\ susp' = PassEnd(susp)
  /\ excused' = excused \cup {"override"}
  /\ UNCHANGED <<vars, laserMode, gc, work, exec, reset, said>>

\* The spindle stop character, in the input task.
StopCharacter ==
  /\ left.requests > 0 /\ left' = [left EXCEPT !.requests = @ - 1]
  /\ susp' = [susp EXCEPT !.request = TRUE]
  /\ excused' = excused \cup {IF sys.holdComplete THEN "restored" ELSE "stopped early"}
  /\ UNCHANGED <<vars, laserMode, gc, work, fill, beam, exec, reset, said>>

-----------------------------------------------------------------------------
(* protocol_exec_rt_suspend.                                               *)

Main == pc = "top" /\ reset # "aborting"
Due  == Main /\ Suspended /\ susp.inside /\ susp.due /\ ~sys.parkCall

\* DISABLE_LASER_DURING_HOLD asks for a spindle stop, once.
EnterSuspend ==
  /\ Main /\ Suspended /\ ~susp.inside
  /\ susp' = [susp EXCEPT !.inside = TRUE, !.due = TRUE,
                          !.request = @ \/ laserMode,
                          !.restore = IF plan = <<>>
                                      THEN [spindle |-> gc.spindle, speed |-> gc.speed]
                                      ELSE work[Head(plan)]]
  /\ UNCHANGED <<vars, laserMode, gc, work, fill, beam, exec, reset, excused, said, left>>

BadPowerRestored ==
  IF gc.spindle = "Disable" THEN UNCHANGED <<beam, fill>>
  ELSE beam' = State(susp.restore.spindle, susp.restore.speed) /\ UNCHANGED fill
\* Back to power: in laser mode not before the cycle starts.
PowerRestored ==
  IF gc.spindle = "Disable" THEN UNCHANGED <<beam, fill>>
  ELSE IF laserMode THEN fill' = [fill EXCEPT !.update = TRUE] /\ UNCHANGED beam
  ELSE beam' = State(susp.restore.spindle, susp.restore.speed) /\ UNCHANGED fill

\* Feed hold manager, hold complete.
HoldTurn ==
  /\ Due /\ sys.state = "Hold"
  /\ \/ /\ susp.stop = "initiate"
        /\ beam' = IF gc.spindle = "Disable" THEN beam ELSE Dark
        /\ susp' = [susp EXCEPT !.due = FALSE,
                      !.stop = IF gc.spindle = "Disable" THEN "none" ELSE "enabled"]
        /\ UNCHANGED fill
     \/ /\ susp.stop \in {"restore", "restoreCycle"}
        /\ PowerRestored
        /\ susp' = [susp EXCEPT !.due = FALSE, !.stop = "none",
                                !.resume = (susp.stop = "restoreCycle")]
     \/ /\ susp.stop = "none"
        /\ beam' = IF fill.update THEN State(susp.restore.spindle, susp.restore.speed)
                                  ELSE beam
        /\ fill' = [fill EXCEPT !.update = FALSE]
        /\ susp' = [susp EXCEPT !.due = FALSE]
     \/ /\ susp.stop = "enabled"
        /\ susp' = [susp EXCEPT !.due = FALSE]
        /\ UNCHANGED <<beam, fill>>
  /\ UNCHANGED <<vars, laserMode, gc, work, exec, reset, excused, said, left>>

\* Parking manager: de-energise, with the parking motions that are possible around it.
Deenergize ==
  /\ Due /\ sys.state = "SafetyDoor" /\ sys.holdComplete /\ susp.phase = "hold"
  /\ beam' = Dark
  /\ susp' = [susp EXCEPT !.phase = "off", !.stop = "none"]
  /\ UNCHANGED <<vars, laserMode, gc, work, fill, exec, reset, excused, said, left>>

\* The powered parts are restored, in a turn of the loop after StartRestore.
Reenergize ==
  /\ Due /\ sys.restoring /\ susp.phase = "off"
  /\ PowerRestored
  /\ susp' = [susp EXCEPT !.phase = "on"]
  /\ UNCHANGED <<vars, laserMode, gc, work, exec, reset, excused, said, left>>

\* The end of a turn: the motion is not held yet, the retraction is complete, or the
\* restoration is, which posts a cycle start.
DoorTurn ==
  /\ Due /\ sys.state = "SafetyDoor"
  /\ \/ ~sys.holdComplete
     \/ susp.phase = "off" /\ ~sys.restoring
     \/ susp.phase = "on"
  /\ susp' = [susp EXCEPT !.due = FALSE, !.resume = (sys.restoring /\ susp.phase = "on")]
  /\ UNCHANGED <<vars, laserMode, gc, work, fill, beam, exec, reset, excused, said, left>>

\* Pull-out and plunge turn the spindle, the fast motions do not.
Parks ==
  /\ Due /\ ~laserMode
  /\ ParkMotion
  /\ work' = [work EXCEPT ![Park] = IF susp.phase = "off" THEN Off ELSE susp.restore]
  /\ UNCHANGED <<laserMode, gc, fill, susp, beam, exec, reset, excused, said, left>>

Parked ==
  /\ reset # "aborting"
  /\ ParkRestore
  /\ UNCHANGED laserVars

-----------------------------------------------------------------------------
(* Reset.                                                                  *)

\* mc_reset, in the input task or an interrupt: first the spindle ...
ResetStops ==
  /\ reset = "no" /\ budget.resets > 0
  /\ reset' = "stopped" /\ beam' = Dark
  /\ UNCHANGED <<vars, laserMode, gc, work, fill, susp, exec, excused, said, left>>

\* ... then the steppers.
ResetKills ==
  /\ reset = "stopped" /\ reset' = "killed"
  /\ timer' = IF sys.state = "Cycle" \/ sys.ctl.executeHold \/ sys.ctl.executeSysMotion
              THEN FALSE ELSE timer
  /\ UNCHANGED <<protocolVars, prepVars, tail, st, cycle_stop, laserMode, gc, work, fill,
                 susp, beam, exec, excused, said, left>>

\* The main task aborts and comes to reset_variables, as far as spindle->stop().
Abort ==
  /\ pc = "top" /\ reset \in {"stopped", "killed"}
  /\ reset' = "aborting"
  /\ gc' = GcInit /\ susp' = SuspInit /\ beam' = Dark
  /\ fill' = [fill EXCEPT !.update = FALSE]
  /\ excused' = IF timer THEN excused \cup {"reset"} ELSE excused
  /\ UNCHANGED <<vars, laserMode, work, exec, said, left>>

\* The rest of reset_variables.
Cleared ==
  /\ reset = "aborting" /\ reset' = "no"
  /\ Reset
  /\ exec' = FALSE
  /\ UNCHANGED <<laserMode, gc, work, fill, susp, beam, excused, said, left>>

LaserNext ==
  \/ \E l \in Lines : Line(l)
  \/ LoadNew \/ LoadSame \/ Segment \/ Fill
  \/ Step \/ Empty
  \/ Hold \/ Resume \/ ResumeStopped \/ ResumeBlocked \/ CycleStopped \/ Restoring
  \/ Reopened \/ QuietPass \/ Override \/ StopCharacter
  \/ EnterSuspend \/ HoldTurn \/ Deenergize \/ Reenergize \/ DoorTurn
  \/ Parks \/ Parked
  \/ ResetStops \/ ResetKills \/ Abort \/ Cleared

LaserSpec == LaserInit /\ [][LaserNext]_allVars

-----------------------------------------------------------------------------
\* Types of the variables that this module adds.
LaserTypeOK ==
  /\ laserMode \in BOOLEAN /\ exec \in BOOLEAN
  /\ gc \in [motion: {"G0", "G1"}, spindle: Spindles, speed: Powers]
  /\ work \in [Blocks -> [spindle: Spindles, speed: Powers]]
  /\ fill \in [adjusted: [BlkSlots -> BOOLEAN], rpm: Powers, seg: [Slots -> Powers],
               update: BOOLEAN]
  /\ susp \in [inside: BOOLEAN, due: BOOLEAN, restore: [spindle: Spindles, speed: Powers],
               phase: {"hold", "off", "on"}, request: BOOLEAN, resume: BOOLEAN,
               stop: {"none", "initiate", "enabled", "restore", "restoreCycle"}]
  /\ beam \in [power: Powers, by: {"main", "segment"}]
  /\ reset \in {"no", "stopped", "killed", "aborting"}
  /\ excused \subseteq Causes

\* The powers that the line of block b has asked for.
Programmed(b) ==
  LET l == said[b] IN
  IF l.spindle = "Disable" \/ (laserMode /\ l.motion = "G0") THEN {0}
  ELSE IF laserMode /\ l.spindle = "Ccw" THEN 0..l.speed
  ELSE {l.speed}

\* Whatever holds, resumes, parking motions and changes of M3, M4 and M5 lie between
\* the line and its motion, each step of a block is made at the power of that block's
\* own line: none in G0 (of laser mode), the whole of it in M3, never more than it in M4.
BeamOfBlock ==
  [][\A b \in Planned : done'[b] # done[b] /\ beam'.by = "segment"
                          => beam'.power \in Programmed(b)]_allVars

\* Between motions M4 is dark, and so is the beam of a parser with the spindle off.
DarkAtRest ==
  ~timer =>
    /\ gc.spindle = "Disable" => beam.power = 0
    /\ laserMode /\ gc.spindle = "Ccw" /\ beam.by = "segment" => beam.power = 0

\* The laser goes dark in every hold (DISABLE_LASER_DURING_HOLD), as soon as the stop
\* has been taken up, and stays dark until the motion is resumed.
DarkInHold ==
  laserMode /\ sys.state = "Hold" /\ sys.holdComplete /\ susp.inside
    /\ ~susp.due /\ ~susp.request /\ susp.stop # "initiate"
  => beam.power = 0

\* It is dark while the door is open, and until the restored motion starts.
DarkBehindDoor ==
  laserMode /\ sys.state = "SafetyDoor" /\ susp.phase # "hold" => beam.power = 0

DarkBut(causes) ==
  reset = "no" /\ excused \cap causes = {} => DarkAtRest /\ DarkInHold /\ DarkBehindDoor

\* The laser is never left burning at one point: not at the end of a motion, not in a
\* hold or behind an open door, over any order of holds, resumes, resets and lines,
\* as long as none of Causes has come in.
LaserDark == DarkBut(Causes)

\* The causes one by one.  None of these holds: the README tells how the beam is lit.
DarkDespiteOverride == DarkBut(Causes \ {"override"})
DarkAfterEarlyStop  == DarkBut(Causes \ {"stopped early"})
DarkAfterLateHold   == DarkBut(Causes \ {"resume"})
DarkAfterEarlySync  == DarkBut(Causes \ {"undrained"})
DarkAfterReset      == DarkBut(Causes \ {"reset"})
=============================================================================
