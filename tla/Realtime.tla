------------------------------ MODULE Realtime ------------------------------
(***************************************************************************)
(* The real-time protocol of grbl: protocol_execute_realtime() and every   *)
(* loop of the main task that calls it, against what interrupts them: the  *)
(* task that reads the clients' real-time commands, the safety door and    *)
(* limit switch interrupts, and the stepper interrupt that drains the      *)
(* segment ring.                                                           *)
(*                                                                         *)
(* The main task is one thread.  main.caller is the loop of the program it *)
(* is in (the main loop, a line being executed, protocol_buffer_           *)
(* synchronize(), ...), main.nest the loop of protocol_exec_rt_suspend()   *)
(* it is in inside of that, if any, and main.step the place inside         *)
(* protocol_exec_rt_system() or between its calls.  The other actors act   *)
(* between any two steps.  sys, suspend and step_control are sets of the   *)
(* bits that are on.                                                       *)
(*                                                                         *)
(* Motion is abstracted to what this protocol sees of it: the number of    *)
(* planner blocks, whether the segment ring holds steps, whether the       *)
(* stepper timer runs.  SegmentBuffer has the detail.                      *)
(***************************************************************************)
EXTENDS Naturals, FiniteSets

CONSTANTS
    QueueSize,    \* blocks the planner ring takes
    Parking,      \* can_park(): homing is enabled and the laser mode is off
    Lines,        \* the kinds of lines the clients send
    Commands,     \* the real-time commands and switch events that occur
    Overtaken,    \* mc_reset() may be preempted for as long as the main task
                  \* takes to unwind and to initialise the system anew
    MaxLines,     \* bound: lines sent
    MaxCommands   \* bound: real-time commands and switch events

LineKinds == {"motion", "motionPause", "pause", "spindle", "jog", "sleep",
              "unlock", "check", "beyond"}
CommandKinds == {"reset", "cycleStart", "feedHold", "safetyDoor", "jogCancel",
                 "spindleStop", "doorSwitch", "limitSwitch"}

ASSUME RealtimeAssumption ==
    /\ QueueSize \in Nat \ {0}
    /\ {Parking, Overtaken} \subseteq BOOLEAN
    /\ Lines \subseteq LineKinds
    /\ Commands \subseteq CommandKinds
    /\ MaxLines \in Nat
    /\ MaxCommands \in Nat

VARIABLES
    sys,          \* system_t: state, suspend, step_control, spindle_stop_ovr,
                  \* abort, soft_limit
    flags,        \* sys_rt_exec_state: the bits set
    alarm,        \* sys_rt_exec_alarm
    cycleStop,    \* cycle_stop
    ovrStop,      \* sys_rt_exec_accessory_override.bit.spindleOvrStop
    queue,        \* blocks in the planner ring
    ring,         \* the segment ring holds segments
    timer,        \* the stepper timer interrupt is enabled
    modal,        \* gc_state.modal.spindle is not Disable
    spindle,      \* the spindle is energised
    main,         \* the main task: caller, nest, step, rt_exec_state
    inflight,     \* sys_pl_data_inflight: "none", "line" or "jog"
    client,       \* clientCheckTask: "idle", or inside a command
    doorOpen,     \* the safety door pin
    lines,        \* lines sent
    commands,     \* commands and switch events so far
    asked,        \* history: the pending cycleStart stems from a user's start
    lost,         \* history: the motors were cut off with steps to go
    again         \* history: a restore that was complete has begun again

rtVars == <<flags, alarm, cycleStop, ovrStop>>
motion == <<queue, ring, timer>>
power  == <<modal, spindle>>
env    == <<client, doorOpen, lines, commands>>
hist   == <<asked, lost, again>>
vars   == <<sys, rtVars, motion, power, main, inflight, env, hist>>

(***************************************************************************)
(* The bits and enumerations of System.h and Exec.h.                       *)
(***************************************************************************)
State == {"Idle", "Alarm", "CheckMode", "Hold", "Jog", "SafetyDoor", "Sleep", "Cycle"}
SuspendBits == {"holdComplete", "restartRetract", "retractComplete",
                "initiateRestore", "restoreComplete", "safetyDoorAjar",
                "motionCancel", "jogCancel"}
StepControl == {"executeHold", "executeSysMotion", "endMotion"}
ExecState == {"reset", "cycleStart", "feedHold", "safetyDoor", "motionCancel",
              "sleep"}
ExecAlarm == {"None", "HardLimit", "SoftLimit", "AbortCycle"}
SpindleStop == {"initiate", "enabled", "restore", "restoreCycle"}
Critical == {"HardLimit", "SoftLimit"}

Callers == {"startup", "loop", "eol", "line", "linePause", "jog", "syncPause",
            "syncSpindle", "paused", "soft", "softReset"}
ParkMotions == {"pullOut", "retract", "approach", "plunge"}
Nests == {"none", "suspend", "sleep"} \union ParkMotions
Steps == {"reinit", "boot", "parse", "alarm", "spin", "acknowledge", "flags",
          "holds", "start", "wake", "stop", "prep", "back", "suspend", "parked",
          "return", "jogWake"}

SysReset == [state |-> "Idle", suspend |-> {}, ctl |-> {}, ovr |-> {},
             abort |-> FALSE, softLimit |-> FALSE]

Init ==
    /\ sys = SysReset
    /\ flags = {} /\ alarm = "None" /\ cycleStop = FALSE /\ ovrStop = FALSE
    /\ queue = 0 /\ ring = FALSE /\ timer = FALSE
    /\ modal = FALSE /\ spindle = FALSE
    /\ main = [caller |-> "loop", nest |-> "none", step |-> "reinit", rt |-> {}]
    /\ inflight = "none"
    /\ client = "idle" /\ doorOpen = FALSE /\ lines = 0 /\ commands = 0
    /\ asked = FALSE /\ lost = FALSE /\ again = FALSE

Goto(s)      == main' = [main EXCEPT !.step = s]
Exec(c)      == main' = [main EXCEPT !.caller = c, !.step = "alarm"]
ExecIn(n)    == main' = [main EXCEPT !.nest = n, !.step = "alarm"]
At(n, s)     == main.nest = n /\ main.step = s
Returned(cs) == main.step = "return" /\ main.caller \in cs

(***************************************************************************)
(* st_prep_buffer(), as this protocol sees it: what it leaves in the       *)
(* planner, in the ring and in step_control.  A hold sets endMotion when   *)
(* the deceleration reaches zero speed, a parking motion when it is whole  *)
(* in the ring; blocks are discarded once all their segments are.          *)
(***************************************************************************)
Prepared(ctl, q, r) ==
    CASE "endMotion" \in ctl -> {[queue |-> q, ring |-> r, ctl |-> ctl]}
      [] "endMotion" \notin ctl /\ "executeSysMotion" \in ctl ->
            [queue : {q}, ring : {TRUE}, ctl : {ctl, ctl \union {"endMotion"}}]
      [] "endMotion" \notin ctl /\ "executeSysMotion" \notin ctl /\ q > 0 ->
            [queue : 0 .. q, ring : {TRUE}, ctl : {ctl}] \union
            {[queue |-> q, ring |-> TRUE, ctl |-> ctl \union {"endMotion"}] :
                 x \in ctl \intersect {"executeHold"}}
      [] OTHER -> {[queue |-> q, ring |-> r, ctl |-> ctl]}

\* st_prep_buffer() on the control bits and state of s.
PrepBuffer(s) ==
    \E p \in Prepared(s.ctl, queue, ring) :
        /\ sys' = [s EXCEPT !.ctl = p.ctl]
        /\ queue' = p.queue
        /\ ring' = p.ring

\* The stepper interrupt: the last segment of the ring is executed.  While the
\* main task runs its loops it refills the ring before that.
Drain ==
    /\ timer /\ ring
    /\ \/ "endMotion" \in sys.ctl
       \/ "executeSysMotion" \notin sys.ctl /\ queue = 0
       \/ main.step = "spin"
    /\ ring' = FALSE
    /\ UNCHANGED <<sys, rtVars, queue, timer, power, main, inflight, env, hist>>

\* The stepper interrupt finds the ring empty: st_go_idle(), cycle_stop.
RingEmpty ==
    /\ timer /\ ~ring
    /\ timer' = FALSE
    /\ cycleStop' = TRUE
    /\ UNCHANGED <<sys, flags, alarm, ovrStop, queue, ring, power, main,
                   inflight, env, hist>>

Interrupt == Drain \/ RingEmpty

(***************************************************************************)
(* mc_reset(), which any task or interrupt may call.                       *)
(***************************************************************************)
Moving == \/ sys.state \in {"Cycle", "Jog"}
          \/ sys.ctl \intersect {"executeHold", "executeSysMotion"} /= {}

\* Its first half: the flag, and spindle->stop().
Flagged ==
    /\ flags' = flags \union {"reset"}
    /\ spindle' = IF "reset" \in flags THEN spindle ELSE FALSE

\* Its second half: the steppers are killed if they may be moving.
Killed(when) ==
    /\ timer' = (timer /\ ~(when /\ Moving))
    /\ lost' = (lost \/ (when /\ Moving /\ timer /\ ring))
AlarmOf(when) == IF when /\ Moving THEN "AbortCycle" ELSE alarm

(***************************************************************************)
(* protocol_exec_rt_system(): the pending alarm.  A hard or soft limit     *)
(* waits here until a reset is issued after the alarm was seen.            *)
(***************************************************************************)
AlarmSeen ==
    /\ main.step = "alarm"
    /\ \/ /\ alarm = "None"
          /\ Goto("flags")
          /\ UNCHANGED <<sys, flags>>
       \/ /\ alarm # "None"
          /\ sys' = [sys EXCEPT !.state = "Alarm"]
          /\ flags' = flags \ {f \in {"reset"} : alarm \in Critical}
          /\ Goto(IF alarm \in Critical THEN "spin" ELSE "acknowledge")
    /\ UNCHANGED <<alarm, cycleStop, ovrStop, motion, power, inflight, env, hist>>

AlarmDone ==
    /\ \/ main.step = "acknowledge"
       \/ main.step = "spin" /\ "reset" \in flags
    /\ alarm' = "None"
    /\ Goto("flags")
    /\ UNCHANGED <<sys, flags, cycleStop, ovrStop, motion, power, inflight, env, hist>>

\* The copy of the flags, and the test for a reset.
CopyFlags ==
    /\ main.step = "flags"
    /\ LET aborts == "reset" \in flags
           next == CASE aborts -> "back"
                     [] ~aborts /\ (flags # {} \/ cycleStop) -> "holds"
                     [] OTHER -> "prep"
       IN  /\ sys' = [sys EXCEPT !.abort = @ \/ aborts]
           /\ main' = [main EXCEPT !.rt = flags, !.step = next]
    /\ UNCHANGED <<rtVars, motion, power, inflight, env, hist>>

(***************************************************************************)
(* The hold branch.  Each operator is one of its ifs: from the system      *)
(* state s and the copied flags rt to the system state after it.           *)
(***************************************************************************)
HoldFlags == {"motionCancel", "feedHold", "safetyDoor", "sleep"}

\* In motion, and not being cancelled: decelerate.
Decelerated(s, rt) ==
    IF /\ s.state \in {"Cycle", "Jog"}
       /\ s.suspend \intersect {"motionCancel", "jogCancel"} = {}
    THEN [s EXCEPT !.ctl = {"executeHold"},
                   !.suspend = @ \union {b \in {"jogCancel"} : s.state = "Jog" /\ "sleep" \notin rt}]
    ELSE s

BadRested(s) ==
    IF s.state \in {"Idle", "Cycle"} THEN [s EXCEPT !.suspend = {"holdComplete"}] ELSE s
\* At rest: the hold is complete at once.
Rested(s) == IF s.state = "Idle" THEN [s EXCEPT !.suspend = {"holdComplete"}] ELSE s

Cancelled(s, rt) ==
    IF "motionCancel" \in rt /\ s.state # "Jog"
    THEN [s EXCEPT !.suspend = @ \union {"motionCancel"}] ELSE s

Held(s, rt) ==
    IF "feedHold" \in rt /\ s.state \notin {"SafetyDoor", "Jog", "Sleep"}
    THEN [s EXCEPT !.state = "Hold"] ELSE s

BadReopened(s) ==
    IF s.state = "SafetyDoor" /\ "initiateRestore" \in s.suspend
    THEN [s EXCEPT
            !.ctl = IF "executeSysMotion" \in @ THEN {"executeHold", "executeSysMotion"} ELSE @,
            !.suspend = (@ \ ({"initiateRestore", "restoreComplete"} \union
                              {b \in {"holdComplete"} : "executeSysMotion" \in s.ctl}))
                        \union {"restartRetract"}]
    ELSE s
\* The door opened again while the machine returns from its parking position.
Reopened(s) ==
    IF s.state = "SafetyDoor" /\ "initiateRestore" \in s.suspend
    THEN [s EXCEPT
            !.ctl = IF "executeSysMotion" \in @ THEN {"executeHold", "executeSysMotion"} ELSE @,
            !.suspend = (@ \ ({"retractComplete", "initiateRestore", "restoreComplete"} \union
                              {b \in {"holdComplete"} : "executeSysMotion" \in s.ctl}))
                        \union {"restartRetract"}]
    ELSE s

Opened(s, rt) ==
    IF "safetyDoor" \notin rt THEN s
    ELSE LET jogging == "jogCancel" \in s.suspend
             r == IF jogging THEN s ELSE Reopened(s)
         IN  [r EXCEPT !.state = IF jogging \/ @ = "Sleep" THEN @ ELSE "SafetyDoor",
                       !.suspend = @ \union {"safetyDoorAjar"}]

BadSlept(s, rt) == IF "sleep" \notin rt THEN s ELSE [s EXCEPT !.state = "Sleep"]
Slept(s, rt) ==
    IF "sleep" \notin rt THEN s
    ELSE [s EXCEPT !.state = "Sleep",
                   !.suspend = @ \union {b \in {"retractComplete", "holdComplete"} : s.state = "Alarm"}]

\* In an alarm or the check mode no hold is entered; the flags stay pending.
Unstoppable(s) == s.state \in {"Alarm", "CheckMode"}
Stopping(s, rt) ==
    IF Unstoppable(s) THEN s
    ELSE Opened(Held(Cancelled(Rested(Decelerated(s, rt)), rt), rt), rt)
Handled(s, rt) ==
    {f \in rt : \/ f = "sleep"
                \/ f \in {"motionCancel", "feedHold"} /\ ~Unstoppable(s)
                \/ f = "safetyDoor" /\ ~Unstoppable(s) /\ "jogCancel" \notin Stopping(s, rt).suspend}

Holds ==
    /\ main.step = "holds"
    /\ IF main.rt \intersect HoldFlags = {} THEN UNCHANGED <<sys, flags>>
       ELSE /\ sys' = Slept(Stopping(sys, main.rt), main.rt)
            /\ flags' = flags \ (Handled(sys, main.rt) \intersect HoldFlags)
    /\ Goto("start")
    /\ UNCHANGED <<alarm, cycleStop, ovrStop, motion, power, inflight, env, hist>>

(***************************************************************************)
(* The cycle start branch.                                                 *)
(***************************************************************************)
BadBlocked(rt) == rt \intersect {"motionCancel", "safetyDoor"} # {}
Blocked(rt) == rt \intersect {"feedHold", "motionCancel", "safetyDoor"} # {}

BadDoorResume(s) ==
    IF s.state # "SafetyDoor" \/ "safetyDoorAjar" \in s.suspend THEN s
    ELSE IF "initiateRestore" \in s.suspend THEN [s EXCEPT !.state = "Idle"]
    ELSE [s EXCEPT !.suspend = @ \union {b \in {"initiateRestore"} : "retractComplete" \in @}]
\* The door is shut and the machine parked: restore, or resume if restored.
DoorResume(s) ==
    IF s.state # "SafetyDoor" \/ "safetyDoorAjar" \in s.suspend THEN s
    ELSE IF "restoreComplete" \in s.suspend THEN [s EXCEPT !.state = "Idle"]
    ELSE [s EXCEPT !.suspend = @ \union {b \in {"initiateRestore"} : "retractComplete" \in @}]

Startable(s) == s.state = "Idle" \/ (s.state = "Hold" /\ "holdComplete" \in s.suspend)
BadRestoreFirst(s) == s.state = "Hold" /\ "restore" \in s.ovr
\* The spindle has to be restored first.
RestoreFirst(s) == s.state = "Hold" /\ s.ovr # {}
Running(s, st) == [s EXCEPT !.ctl = {}, !.suspend = {}, !.state = st]

StartNothing ==
    /\ main.step = "start"
    /\ "cycleStart" \notin main.rt
    /\ Goto("stop")
    /\ UNCHANGED <<sys, rtVars, motion, power, inflight, env, hist>>

\* Blocked, or no motion results.
StartRefused ==
    LET s == DoorResume(sys) IN
    /\ main.step = "start"
    /\ "cycleStart" \in main.rt
    /\ \/ Blocked(main.rt) /\ sys' = sys
       \/ /\ ~Blocked(main.rt)
          /\ \/ ~Startable(s) /\ sys' = s
             \/ Startable(s) /\ RestoreFirst(s) /\ sys' = [s EXCEPT !.ovr = @ \union {"restoreCycle"}]
             \/ /\ Startable(s) /\ ~RestoreFirst(s)
                /\ queue = 0 \/ "motionCancel" \in s.suspend
                /\ sys' = Running(s, "Idle")
    /\ flags' = flags \ {"cycleStart"}
    /\ asked' = FALSE
    /\ Goto("stop")
    /\ UNCHANGED <<alarm, cycleStop, ovrStop, motion, power, inflight, env, lost, again>>

StartCycle ==
    LET s == DoorResume(sys) IN
    /\ main.step = "start"
    /\ "cycleStart" \in main.rt /\ ~Blocked(main.rt)
    /\ Startable(s) /\ ~RestoreFirst(s)
    /\ queue > 0 /\ "motionCancel" \notin s.suspend
    /\ PrepBuffer(Running(s, "Cycle"))
    /\ Goto("wake")
    /\ UNCHANGED <<rtVars, timer, power, inflight, env, hist>>

\* st_wake_up(), and the flag is cleared.
WakeUp ==
    /\ main.step = "wake"
    /\ timer' = TRUE
    /\ flags' = flags \ {"cycleStart"}
    /\ asked' = FALSE
    /\ Goto("stop")
    /\ UNCHANGED <<sys, alarm, cycleStop, ovrStop, queue, ring, power, inflight, env, lost, again>>

(***************************************************************************)
(* The cycle_stop branch: a hold is complete, or a motion is.              *)
(***************************************************************************)
BadStopped(s) ==
    IF /\ s.state \in {"Hold", "SafetyDoor", "Sleep"}
       /\ ~s.softLimit /\ "jogCancel" \notin s.suspend
    THEN [s EXCEPT !.suspend = @ \union {b \in {"holdComplete"} : "executeHold" \in s.ctl},
                   !.ctl = @ \ {"executeHold"}]
    ELSE [s EXCEPT !.state = "Idle", !.suspend = {}]
Stopped(s) ==
    IF /\ s.state \in {"Hold", "SafetyDoor", "Sleep"}
       /\ ~s.softLimit /\ "jogCancel" \notin s.suspend
    THEN [s EXCEPT !.suspend = @ \union {b \in {"holdComplete"} : "executeHold" \in s.ctl},
                   !.ctl = @ \ {"executeHold", "executeSysMotion"}]
    ELSE LET c == IF "jogCancel" \in s.suspend THEN {} ELSE s.ctl IN
         IF "safetyDoorAjar" \in s.suspend
         THEN [s EXCEPT !.ctl = c, !.state = "SafetyDoor",
                        !.suspend = (@ \ {"jogCancel"}) \union {"holdComplete"}]
         ELSE [s EXCEPT !.ctl = c, !.state = "Idle", !.suspend = {}]

\* A jog cancel flushes the planner and the segment ring.
Flushed(s) == "jogCancel" \in s.suspend

CycleStop ==
    /\ main.step = "stop"
    /\ IF cycleStop
       THEN /\ sys' = Stopped(sys)
            /\ cycleStop' = FALSE
            /\ queue' = IF Flushed(sys) THEN 0 ELSE queue
            /\ ring' = (ring /\ ~Flushed(sys))
            /\ timer' = (timer /\ ~Flushed(sys))
       ELSE UNCHANGED <<sys, cycleStop, motion>>
    /\ Goto("prep")
    /\ UNCHANGED <<flags, alarm, ovrStop, power, inflight, env, hist>>

\* The spindle stop override, and the segment ring is reloaded.
Override(s) ==
    IF ~ovrStop \/ s.state # "Hold" THEN s
    ELSE IF s.ovr = {} THEN [s EXCEPT !.ovr = {"initiate"}]
    ELSE [s EXCEPT !.ovr = @ \union {b \in {"restore"} : "enabled" \in s.ovr}]

Reload ==
    /\ main.step = "prep"
    /\ IF sys.state \in {"Cycle", "Hold", "SafetyDoor", "Sleep", "Jog"}
       THEN PrepBuffer(Override(sys))
       ELSE sys' = Override(sys) /\ UNCHANGED <<queue, ring>>
    /\ ovrStop' = FALSE
    /\ Goto("back")
    /\ UNCHANGED <<flags, alarm, cycleStop, timer, power, inflight, env, hist>>

ExecRtSystem == \/ AlarmSeen \/ AlarmDone \/ CopyFlags \/ Holds \/ StartNothing
                \/ StartRefused \/ StartCycle \/ WakeUp \/ CycleStop \/ Reload

(***************************************************************************)
(* Back from protocol_exec_rt_system(), in the loop that called it.        *)
(***************************************************************************)

\* The suspend loop drops a jog line that waits for room in the planner.
DropsJog == /\ main.nest \in {"none", "suspend"} /\ ~sys.abort
            /\ "jogCancel" \in sys.suspend /\ inflight = "jog"

Back ==
    /\ main.step = "back"
    /\ main' = [main EXCEPT
         !.nest = CASE @ = "none" /\ sys.suspend # {} -> "suspend"
                    [] @ = "sleep" /\ sys.abort -> "none"
                    [] OTHER -> @,
         !.step = CASE main.nest = "none" -> IF sys.suspend = {} THEN "return" ELSE "suspend"
                    [] main.nest = "suspend" -> "suspend"
                    [] main.nest = "sleep" -> IF sys.abort THEN "return" ELSE "alarm"
                    [] main.nest \in ParkMotions ->
                         IF sys.abort \/ "executeSysMotion" \notin sys.ctl THEN "parked" ELSE "alarm"]
    /\ inflight' = IF DropsJog THEN "none" ELSE inflight
    /\ UNCHANGED <<sys, rtVars, motion, power, env, hist>>

(***************************************************************************)
(* mc_parking_motion(), from the system state s: a motion that runs before *)
(* the planner's blocks, one of no length, or nothing after an abort.      *)
(***************************************************************************)
ParkMotion(n, s) ==
    \/ /\ s.abort
       /\ sys' = s
       /\ main' = [main EXCEPT !.nest = n, !.step = "parked"]
       /\ UNCHANGED motion
    \/ /\ ~s.abort
       /\ PrepBuffer([s EXCEPT !.ctl = (@ \union {"executeSysMotion"}) \ {"endMotion"}])
       /\ timer' = TRUE
       /\ ExecIn(n)
    \/ /\ ~s.abort
       /\ sys' = [s EXCEPT !.ctl = @ \ {"executeSysMotion"}]
       /\ ExecIn(n)
       /\ UNCHANGED motion

\* spindle->set_state(): blocked during an abort.
SetSpindle(on) == spindle' = IF sys.abort THEN spindle ELSE on

(***************************************************************************)
(* protocol_exec_rt_suspend(): one pass of its loop up to the next call.   *)
(***************************************************************************)
Looping == At("suspend", "suspend") /\ sys.suspend # {} /\ ~sys.abort
InHold  == "holdComplete" \in sys.suspend
Parked  == sys.state \in {"SafetyDoor", "Sleep"}
Arrived == "retractComplete" \in sys.suspend

SuspendEnds ==
    /\ At("suspend", "suspend")
    /\ sys.suspend = {} \/ sys.abort
    /\ main' = [main EXCEPT !.nest = "none", !.step = "return"]
    /\ UNCHANGED <<sys, rtVars, motion, power, inflight, env, hist>>

\* Not at rest yet.
AwaitRest ==
    /\ Looping /\ ~InHold
    /\ ExecIn("suspend")
    /\ UNCHANGED <<sys, rtVars, motion, power, inflight, env, hist>>

\* The end of the retraction, with or without motions.
Retracted(s) ==
    [s EXCEPT !.suspend = (@ \ {"restartRetract"}) \union {"retractComplete"}]

\* Retract: pull out, switch the spindle off, go to the parking position.
StartRetract ==
    LET s == [sys EXCEPT !.ovr = {}] IN
    /\ Looping /\ InHold /\ Parked /\ ~Arrived
    /\ \/ Parking /\ ParkMotion("pullOut", s) /\ UNCHANGED spindle
       \/ Parking /\ ParkMotion("retract", s) /\ SetSpindle(FALSE)
       \/ /\ sys' = Retracted(s)
          /\ SetSpindle(FALSE)
          /\ ExecIn("suspend")
          /\ UNCHANGED motion
    /\ UNCHANGED <<rtVars, modal, inflight, env, hist>>

PulledOut ==
    /\ At("pullOut", "parked")
    /\ \/ ParkMotion("retract", sys)
       \/ sys' = Retracted(sys) /\ ExecIn("suspend") /\ UNCHANGED motion
    /\ SetSpindle(FALSE)
    /\ UNCHANGED <<rtVars, modal, inflight, env, hist>>

RetractEnds ==
    /\ At("retract", "parked")
    /\ sys' = Retracted(sys)
    /\ ExecIn("suspend")
    /\ UNCHANGED <<rtVars, motion, power, inflight, env, hist>>

\* Sleep: everything off, and nothing but real-time commands until a reset.
Asleep ==
    /\ Looping /\ InHold /\ Arrived /\ sys.state = "Sleep"
    /\ SetSpindle(FALSE)
    /\ timer' = FALSE
    /\ lost' = (lost \/ (timer /\ ring))
    /\ ExecIn("sleep")
    /\ UNCHANGED <<sys, rtVars, queue, ring, modal, inflight, env, asked, again>>

\* The door: its switch is read, and a restore begins if the user asked.
DoorChecked == [sys EXCEPT !.suspend = @ \ {b \in {"safetyDoorAjar"} : ~doorOpen}]

\* The end of the restore: the cycle start that resumes the program.
Restored(s) ==
    IF "restartRetract" \in s.suspend THEN sys' = s /\ UNCHANGED <<flags, asked>>
    ELSE /\ sys' = [s EXCEPT !.suspend = @ \union {"restoreComplete"}]
         /\ flags' = flags \union {"cycleStart"}
         /\ asked' = TRUE

\* The spindle is switched on again unless the door opened meanwhile.
Respun(s) ==
    IF modal /\ "restartRetract" \notin s.suspend THEN SetSpindle(TRUE) ELSE UNCHANGED spindle

DoorWait ==
    LET s == DoorChecked IN
    /\ Looping /\ InHold /\ Arrived /\ sys.state = "SafetyDoor"
    /\ again' = (again \/ {"initiateRestore", "restoreComplete"} \subseteq s.suspend)
    /\ \/ /\ "initiateRestore" \notin s.suspend
          /\ sys' = s
          /\ ExecIn("suspend")
          /\ UNCHANGED <<spindle, motion, flags, asked>>
       \/ /\ "initiateRestore" \in s.suspend /\ Parking
          /\ ParkMotion("approach", s)
          /\ UNCHANGED <<spindle, flags, asked>>
       \/ /\ "initiateRestore" \in s.suspend /\ ~Parking
          /\ Respun(s) /\ Restored(s)
          /\ ExecIn("suspend")
          /\ UNCHANGED motion
    /\ UNCHANGED <<alarm, cycleStop, ovrStop, modal, inflight, env, lost>>

Approached ==
    /\ At("approach", "parked")
    /\ Respun(sys)
    /\ \/ /\ "restartRetract" \notin sys.suspend
          /\ ParkMotion("plunge", sys)
          /\ UNCHANGED <<flags, asked>>
       \/ /\ "restartRetract" \in sys.suspend
          /\ Restored(sys)
          /\ ExecIn("suspend")
          /\ UNCHANGED motion
    /\ UNCHANGED <<alarm, cycleStop, ovrStop, modal, inflight, env, lost, again>>

PlungeEnds ==
    /\ At("plunge", "parked")
    /\ Restored(sys)
    /\ ExecIn("suspend")
    /\ UNCHANGED <<alarm, cycleStop, ovrStop, motion, power, inflight, env, lost, again>>

\* The feed hold manager: the spindle stop override.
HoldManager ==
    /\ Looping /\ InHold /\ ~Parked
    /\ \/ /\ "initiate" \in sys.ovr
          /\ SetSpindle(spindle /\ ~modal)
          /\ sys' = [sys EXCEPT !.ovr = {b \in {"enabled"} : modal}]
          /\ UNCHANGED <<flags, asked>>
       \/ /\ "initiate" \notin sys.ovr /\ sys.ovr \intersect {"restore", "restoreCycle"} # {}
          /\ SetSpindle(spindle \/ modal)
          /\ sys' = [sys EXCEPT !.ovr = {}]
          /\ flags' = flags \union {f \in {"cycleStart"} : "restoreCycle" \in sys.ovr}
          /\ asked' = (asked \/ "restoreCycle" \in sys.ovr)
       \/ /\ sys.ovr \subseteq {"enabled"}
          /\ UNCHANGED <<sys, spindle, flags, asked>>
    /\ ExecIn("suspend")
    /\ UNCHANGED <<alarm, cycleStop, ovrStop, motion, modal, inflight, env, lost, again>>

ExecRtSuspend == \/ SuspendEnds \/ AwaitRest \/ StartRetract \/ PulledOut \/ RetractEnds
                 \/ Asleep \/ DoorWait \/ Approached \/ PlungeEnds \/ HoldManager

(***************************************************************************)
(* The program around it: run_once(), the main loop, and the lines.        *)
(***************************************************************************)
\* reset_variables(): everything but the state, which the main loop reads.
Reinit ==
    /\ main.step = "reinit"
    /\ client = "kill" => Overtaken
    /\ sys' = [SysReset EXCEPT !.state = sys.state]
    /\ flags' = {} /\ alarm' = "None" /\ cycleStop' = FALSE /\ ovrStop' = FALSE
    /\ queue' = 0 /\ ring' = FALSE /\ timer' = FALSE
    /\ modal' = FALSE /\ spindle' = FALSE
    /\ inflight' = "none"
    /\ main' = [main EXCEPT !.nest = "none", !.step = "boot", !.rt = {}]
    /\ asked' = FALSE /\ again' = FALSE
    /\ lost' = (lost \/ (timer /\ ring))
    /\ UNCHANGED env

\* protocol_main_loop() up to its loop.
Boot ==
    /\ main.step = "boot"
    /\ IF sys.state \in {"Alarm", "Sleep"}
       THEN sys' = [sys EXCEPT !.state = "Alarm"] /\ Goto("parse") /\ UNCHANGED flags
       ELSE /\ sys' = [sys EXCEPT !.state = "Idle"]
            /\ flags' = flags \union {f \in {"safetyDoor"} : doorOpen}
            /\ IF doorOpen THEN Exec("startup") ELSE Goto("parse")
    /\ UNCHANGED <<alarm, cycleStop, ovrStop, motion, power, inflight, env, hist>>

BadAutoCycleStart == flags' = flags \union {f \in {"cycleStart"} : queue > 1}
\* protocol_auto_cycle_start()
AutoCycleStart == flags' = flags \union {f \in {"cycleStart"} : queue > 0}

\* No character waits: the main loop starts what is queued.
Loop ==
    /\ main.step = "parse"
    /\ AutoCycleStart
    /\ Exec("loop")
    /\ UNCHANGED <<sys, alarm, cycleStop, ovrStop, motion, power, inflight, env, hist>>

\* The end of a line is read: a checkpoint before it is executed.
ReadLine ==
    /\ main.step = "parse" /\ lines < MaxLines
    /\ lines' = lines + 1
    /\ Exec("eol")
    /\ UNCHANGED <<sys, rtVars, motion, power, inflight, client, doorOpen, commands, hist>>

\* The checkpoints of the main loop, which leave it after an abort.
LoopReturns ==
    /\ \/ Returned({"loop"})
       \/ Returned({"eol"}) /\ sys.abort
    /\ Goto(IF sys.abort THEN "reinit" ELSE "parse")
    /\ UNCHANGED <<sys, rtVars, motion, power, inflight, env, hist>>

\* Calls whose result is not looked at: the unwinding ends in the main loop.
CallReturns ==
    /\ Returned({"startup", "paused", "softReset"})
    /\ Goto("parse")
    /\ UNCHANGED <<sys, rtVars, motion, power, inflight, env, hist>>

\* execute_line(): g-code is refused in an alarm and while jogging.
Accepts(k) ==
    /\ k \in Lines
    /\ CASE k = "jog" -> sys.state \in {"Idle", "Jog"}
         [] k = "sleep" -> sys.state \in {"Idle", "Alarm"}
         [] k = "check" -> sys.state \in {"Idle", "CheckMode"}
         [] k = "unlock" -> sys.state = "Alarm" /\ ~doorOpen
         [] OTHER -> sys.state \notin {"Alarm", "Jog"}
Executing(k) == Returned({"eol"}) /\ ~sys.abort /\ Accepts(k)

Refused ==
    /\ Returned({"eol"}) /\ ~sys.abort
    /\ \E k \in Lines : ~Accepts(k)
    /\ Goto("parse")
    /\ UNCHANGED <<sys, rtVars, motion, power, inflight, env, hist>>

\* A motion enters mc_line(); a program pause may stand on the same line.
MotionLine ==
    /\ sys.state # "CheckMode"
    /\ \E k \in {"motion", "motionPause", "jog"} :
         /\ Executing(k)
         /\ inflight' = IF k = "jog" THEN "jog" ELSE "line"
         /\ Exec(CASE k = "motion" -> "line" [] k = "motionPause" -> "linePause" [] OTHER -> k)
    /\ UNCHANGED <<sys, rtVars, motion, power, env, hist>>

\* In the check mode mc_line() drops the motion, and the spindle stays as it is.
CheckedLine ==
    /\ sys.state = "CheckMode"
    /\ \/ Executing("motion") \/ Executing("spindle")
    /\ Goto("parse")
    /\ modal' = (modal # Executing("spindle"))
    /\ UNCHANGED <<sys, rtVars, motion, spindle, inflight, env, hist>>

\* protocol_buffer_synchronize(), for a program pause or a spindle change.
Synchronize(c) == AutoCycleStart /\ Exec(c)
SyncLine ==
    /\ \/ Executing("pause") /\ Synchronize("syncPause")
       \/ Executing("motionPause") /\ sys.state = "CheckMode" /\ Synchronize("syncPause")
       \/ Executing("spindle") /\ sys.state # "CheckMode" /\ Synchronize("syncSpindle")
    /\ UNCHANGED <<sys, alarm, cycleStop, ovrStop, motion, power, inflight, env, hist>>

\* $SLP
SleepLine ==
    /\ Executing("sleep")
    /\ flags' = flags \union {"sleep"}
    /\ Goto("parse")
    /\ UNCHANGED <<sys, alarm, cycleStop, ovrStop, motion, power, inflight, env, hist>>

\* $X
UnlockLine ==
    /\ Executing("unlock")
    /\ sys' = [sys EXCEPT !.state = "Idle"]
    /\ lost' = FALSE
    /\ Goto("parse")
    /\ UNCHANGED <<rtVars, motion, power, inflight, env, asked, again>>

\* $C: into the check mode, and out of it by a reset.
CheckLine ==
    /\ Executing("check")
    /\ \/ /\ sys.state = "Idle"
          /\ sys' = [sys EXCEPT !.state = "CheckMode"]
          /\ UNCHANGED <<flags, alarm, timer, spindle, lost>>
       \/ /\ sys.state = "CheckMode"
          /\ Flagged
          /\ Killed("reset" \notin flags)
          /\ alarm' = AlarmOf("reset" \notin flags)
          /\ UNCHANGED sys
    /\ Goto("parse")
    /\ UNCHANGED <<cycleStop, ovrStop, queue, ring, modal, inflight, env, asked, again>>

\* mc_reset() and the alarm by the main task, and the wait in the alarm.
SoftReset ==
    /\ Flagged
    /\ Killed("reset" \notin flags)
    /\ alarm' = "SoftLimit"
    /\ Exec("softReset")

\* A target beyond the soft limits: limits_soft_check().
BeyondLine ==
    /\ Executing("beyond")
    /\ sys' = [sys EXCEPT !.softLimit = TRUE]
    /\ \/ /\ sys.state = "Cycle"
          /\ flags' = flags \union {"feedHold"}
          /\ Exec("soft")
          /\ UNCHANGED <<alarm, timer, spindle, lost>>
       \/ /\ sys.state # "Cycle"
          /\ SoftReset
    /\ UNCHANGED <<cycleStop, ovrStop, queue, ring, modal, inflight, env, asked, again>>

SoftWait ==
    /\ Returned({"soft"})
    /\ \/ sys.abort /\ Goto("parse") /\ UNCHANGED <<flags, alarm, timer, spindle, lost>>
       \/ ~sys.abort /\ sys.state # "Idle" /\ Exec("soft") /\ UNCHANGED <<flags, alarm, timer, spindle, lost>>
       \/ ~sys.abort /\ sys.state = "Idle" /\ SoftReset
    /\ UNCHANGED <<sys, cycleStop, ovrStop, queue, ring, modal, inflight, env, asked, again>>

BadFull == queue > QueueSize
\* plan_check_full_buffer()
Full == queue = QueueSize

\* mc_line(): the planner is full, so start it and try again.
LineWaits ==
    /\ Returned({"line", "linePause", "jog"}) /\ ~sys.abort
    /\ Full
    /\ AutoCycleStart
    /\ Exec(main.caller)
    /\ UNCHANGED <<sys, alarm, cycleStop, ovrStop, motion, power, inflight, env, hist>>

\* mc_line(): aborted, or the block is planned unless it was cancelled; then
\* the rest of its line.  A jog starts its own motion.
LineEnds ==
    LET planned == ~sys.abort /\ inflight # "none"
        q == IF planned THEN queue + 1 ELSE queue
    IN
    /\ Returned({"line", "linePause", "jog"})
    /\ sys.abort \/ ~Full
    /\ inflight' = "none"
    /\ \/ /\ main.caller = "linePause"
          /\ flags' = flags \union {f \in {"cycleStart"} : q > 0}
          /\ Exec("syncPause")
          /\ queue' = q
          /\ UNCHANGED <<sys, ring>>
       \/ /\ main.caller = "jog" /\ planned /\ sys.state = "Idle"
          /\ \E p \in Prepared(sys.ctl, q, ring) :
                /\ sys' = [sys EXCEPT !.state = "Jog", !.ctl = p.ctl]
                /\ queue' = p.queue /\ ring' = p.ring
          /\ Goto("jogWake")
          /\ UNCHANGED flags
       \/ /\ main.caller = "line" \/ (main.caller = "jog" /\ ~(planned /\ sys.state = "Idle"))
          /\ Goto("parse")
          /\ queue' = q
          /\ UNCHANGED <<sys, flags, ring>>
    /\ UNCHANGED <<alarm, cycleStop, ovrStop, timer, power, env, hist>>

JogWake ==
    /\ main.step = "jogWake"
    /\ timer' = TRUE
    /\ Goto("parse")
    /\ UNCHANGED <<sys, rtVars, queue, ring, power, inflight, env, hist>>

BadUnsynchronized == queue > 0 \/ sys.state = "Cycle"
\* protocol_buffer_synchronize(): until the planner is empty, or an abort.
Unsynchronized == ~sys.abort /\ (queue > 0 \/ sys.state = "Cycle")
SyncWaits ==
    /\ Returned({"syncPause", "syncSpindle"}) /\ Unsynchronized
    /\ Exec(main.caller)
    /\ UNCHANGED <<sys, rtVars, motion, power, inflight, env, hist>>

\* M0 asks for a feed hold, but not in the check mode; M3 and M5 change the spindle.
SyncEnds ==
    /\ Returned({"syncPause", "syncSpindle"}) /\ ~Unsynchronized
    /\ \/ /\ main.caller = "syncPause"
          /\ flags' = flags \union {f \in {"feedHold"} : sys.state # "CheckMode"}
          /\ IF sys.state = "CheckMode" THEN Goto("parse") ELSE Exec("paused")
          /\ UNCHANGED power
       \/ /\ main.caller = "syncSpindle"
          /\ modal' = ~modal
          /\ SetSpindle(~modal)
          /\ Goto("parse")
          /\ UNCHANGED flags
    /\ UNCHANGED <<sys, alarm, cycleStop, ovrStop, motion, inflight, env, hist>>

Program == \/ Reinit \/ Boot \/ Loop \/ ReadLine \/ LoopReturns \/ CallReturns \/ Refused
           \/ MotionLine \/ SyncLine \/ CheckedLine \/ SleepLine \/ UnlockLine \/ CheckLine \/ BeyondLine \/ SoftWait
           \/ LineWaits \/ LineEnds \/ JogWake \/ SyncWaits \/ SyncEnds

Main == ExecRtSystem \/ Back \/ ExecRtSuspend \/ Program

(***************************************************************************)
(* The task that reads the clients, and the switches.  A reset is always   *)
(* possible while the main task waits for one.                             *)
(***************************************************************************)
Issue(c) ==
    /\ client = "idle"
    /\ \/ c \in Commands /\ commands < MaxCommands /\ commands' = commands + 1
       \/ c = "reset" /\ main.step = "spin" /\ commands' = commands

CmdReset ==
    /\ Issue("reset")
    /\ Flagged
    /\ client' = IF "reset" \in flags THEN "idle" ELSE "kill"
    /\ UNCHANGED <<sys, alarm, cycleStop, ovrStop, motion, modal, main, inflight, doorOpen, lines, hist>>

CmdResetKill ==
    /\ client = "kill"
    /\ client' = "idle"
    /\ Killed(TRUE)
    /\ alarm' = AlarmOf(TRUE)
    /\ UNCHANGED <<sys, flags, cycleStop, ovrStop, queue, ring, power, main, inflight,
                   doorOpen, lines, commands, asked, again>>

CmdFlag ==
    /\ \E c \in {"cycleStart", "feedHold", "safetyDoor"} :
         /\ Issue(c)
         /\ flags' = flags \union {c}
         /\ asked' = (asked \/ c = "cycleStart")
    /\ UNCHANGED <<sys, alarm, cycleStop, ovrStop, motion, power, main, inflight, client,
                   doorOpen, lines, lost, again>>

CmdSpindleStop ==
    /\ Issue("spindleStop")
    /\ ovrStop' = TRUE
    /\ UNCHANGED <<sys, flags, alarm, cycleStop, motion, power, main, inflight, client,
                   doorOpen, lines, hist>>

\* A jog cancel is for the Jog state only: the state is read first.
CmdJogCancel ==
    /\ Issue("jogCancel")
    /\ sys.state = "Jog"
    /\ client' = "cancel"
    /\ UNCHANGED <<sys, rtVars, motion, power, main, inflight, doorOpen, lines, hist>>

CmdJogCancelFlag ==
    /\ client = "cancel"
    /\ client' = "idle"
    /\ flags' = flags \union {"motionCancel"}
    /\ UNCHANGED <<sys, alarm, cycleStop, ovrStop, motion, power, main, inflight,
                   doorOpen, lines, commands, hist>>

\* The safety door switch interrupt, at both edges.
DoorSwitch ==
    /\ Issue("doorSwitch")
    /\ doorOpen' = ~doorOpen
    /\ flags' = flags \union {f \in {"safetyDoor"} : ~doorOpen}
    /\ UNCHANGED <<sys, alarm, cycleStop, ovrStop, motion, power, main, inflight, client,
                   lines, hist>>

\* isr_limit_switches(): mc_reset() and the alarm, in the interrupt.
LimitSwitch ==
    /\ Issue("limitSwitch")
    /\ sys.state # "Alarm" /\ alarm = "None"
    /\ Flagged
    /\ Killed("reset" \notin flags)
    /\ alarm' = "HardLimit"
    /\ UNCHANGED <<sys, cycleStop, ovrStop, queue, ring, modal, main, inflight, client,
                   doorOpen, lines, asked, again>>

Clients == CmdReset \/ CmdFlag \/ CmdSpindleStop \/ CmdJogCancel \/ DoorSwitch \/ LimitSwitch
InCommand == CmdResetKill \/ CmdJogCancelFlag

Next == Main \/ Interrupt \/ Clients \/ InCommand

Spec == Init /\ [][Next]_vars

\* The tasks are scheduled, and a block or a deceleration has finitely many
\* segments: repeated calls of st_prep_buffer() come to its end.
Prepping == Reload /\ (queue' < queue \/ "endMotion" \in sys'.ctl \ sys.ctl)
FairSpec == /\ Spec
            /\ WF_vars(Main) /\ WF_vars(Interrupt) /\ WF_vars(InCommand)
            /\ SF_vars(Prepping)

-----------------------------------------------------------------------------
(***************************************************************************)
(* Properties.                                                             *)
(***************************************************************************)

\* Every variable has a value of its type.
TypeOK ==
    /\ sys \in [state : State, suspend : SUBSET SuspendBits, ctl : SUBSET StepControl,
                ovr : SUBSET SpindleStop, abort : BOOLEAN, softLimit : BOOLEAN]
    /\ flags \subseteq ExecState
    /\ alarm \in ExecAlarm
    /\ queue \in 0 .. QueueSize
    /\ {cycleStop, ovrStop, ring, timer, modal, spindle, doorOpen, asked, lost,
      again} \subseteq BOOLEAN
    /\ main \in [caller : Callers, nest : Nests, step : Steps, rt : SUBSET ExecState]
    /\ inflight \in {"none", "line", "jog"}
    /\ client \in {"idle", "kill", "cancel"}
    /\ lines \in 0 .. MaxLines
    /\ commands \in 0 .. MaxCommands

\* A restore runs once, and no soft limit is in the way.  Outside of that the
\* code keeps neither the rest of a hold, nor the spindle, nor the door state:
\* see DoorRemains below.
Undisturbed == ~again /\ ~sys.softLimit

\* A hold that is complete is complete: the stepper interrupt is off unless a
\* parking motion runs (protocol_exec_rt_suspend() parks, de-energises and
\* resumes on the strength of holdComplete alone).
HoldAtRest ==
    /\ Undisturbed
    /\ sys.state \in {"Hold", "SafetyDoor"} /\ "holdComplete" \in sys.suspend
    /\ "executeSysMotion" \notin sys.ctl
    => ~timer

\* Only a user's start resumes a hold: the starts that the main loop, a buffer
\* synchronisation and a full planner flag by themselves never do.
Resumes == \/ sys.state = "Hold" /\ sys'.state = "Cycle"
           \/ "initiateRestore" \in sys'.suspend \ sys.suspend
           \/ "restoreCycle" \in sys'.ovr \ sys.ovr
HoldNotAutoResumed == [][Resumes => asked]_vars

\* While the door is open and the machine parked, the spindle is off, however
\* often the door opened during the restore.
DoorSpindleOff ==
    /\ sys.state = "SafetyDoor" /\ main.nest = "suspend"
    /\ {"safetyDoorAjar", "retractComplete"} \subseteq sys.suspend
    => ~spindle

\* When a cycle runs the spindle is as the program left it: a stop override or
\* a parking has been undone before the cycle starts again.
SpindleRestored ==
    /\ Undisturbed
    /\ sys.state = "Cycle" /\ "reset" \notin flags /\ ~sys.abort /\ main.step # "reinit"
    => spindle = modal

\* The machine stays in the door or sleep state while it parks and returns.
ParkingKeepsState ==
    Undisturbed /\ main.nest \in ParkMotions => sys.state \in {"SafetyDoor", "Sleep", "Alarm"}

\* A parking motion comes to its end, or to a critical alarm that waits for a reset.
ParkingEnds ==
    main.nest \in ParkMotions ~> main.nest \notin ParkMotions \/ main.step = "spin"

\* Wherever the main task is, a reset ends in run_once() initialising the
\* system anew, or in the alarm that asks for another one.
ResetHonoured == "reset" \in flags ~> main.step \in {"reinit", "spin"}

\* The main loop starts whatever is queued.
QueueDrains == queue > 0 ~> (queue = 0 \/ sys.suspend # {} \/ sys.state = "Alarm")

\* Sleep shuts the machine down, from whatever state it was entered.
SleepShutsDown == sys.state = "Sleep" ~> \/ ~timer /\ ~spindle /\ main.nest = "sleep"
                                         \/ sys.state # "Sleep"

(***************************************************************************)
(* What the source says of the program and the program does not do.        *)
(***************************************************************************)

\* mc_reset(): a motion that is cut off is flagged by an alarm, since the
\* position is lost; the main loop does not come up idle after it.
PositionLossAlarmed ==
    /\ lost /\ main.step = "parse"
    /\ ~sys.abort /\ "reset" \notin flags /\ alarm = "None"
    => sys.state = "Alarm"

\* mc_reset() kills the steppers: nothing starts them before the system is
\* initialised again.
ResetKillsMotion == [][("reset" \in flags /\ client = "idle" /\ ~timer) => ~timer']_vars

\* The state remains Door until the restore is complete.  A feed hold with the
\* cycle start that ends a restore drops that start; the restore, whose flag is
\* still set, runs again, and a start in the middle of it finds restoreComplete
\* set and resumes the program.
DoorRemains ==
    ~sys.softLimit /\ main.nest \in ParkMotions => sys.state \in {"SafetyDoor", "Sleep", "Alarm"}

\* A jog cancel returns to idle at once: the suspend loop does not hold the
\* machine in Idle until the user starts or resets it.
JogCancelReturns == main.nest = "suspend" /\ sys.state = "Idle" ~> main.nest # "suspend"

\* A buffer synchronisation starts what is queued, and so comes to its end.
SynchronizeReturns == main.caller = "syncPause" ~> main.caller # "syncPause"

=============================================================================
