-------------------------------- MODULE Homing --------------------------------
(***************************************************************************)
(* Homing ($H, $HX, ...): the main task drives the axes into their limit   *)
(* switches itself, polling the switches and the realtime flags, while the *)
(* stepper interrupt moves the motors and other tasks may reset the        *)
(* machine or open the safety door.  Two builds: with the weak default of  *)
(* user_defined_homing, mc_homing_cycle calls limits_go_home for every     *)
(* cycle; with the one of Custom/CoreXY.cpp, the X and Y axes have a loop  *)
(* of their own, and limits_go_home is called for the others alone.        *)
(*                                                                         *)
(* In the CoreXY build limits_go_home(Z) also counts steps of X and Y that *)
(* the axis lock keeps back; their positions are set afterwards anyway.    *)
(* Distances are whole units; a switch is engaged at distance 0 and        *)
(* beyond.  A switch may be broken: "dead" never engages, "stuck" always.  *)
(***************************************************************************)
EXTENDS Kinematics, Sequences

CONSTANTS
    Builds,       \* of BOOLEAN: user_defined_homing is defined
    Cycles,       \* the settings homing_cycle[] to choose from
    Squared,      \* the axes with two motors that are squared
    Starts,       \* how far from its switch an axis may be at first
    Faults,       \* what a switch may be: "ok", "dead", "stuck"
    Search, Pulloff, Locate,  \* the lengths of the three kinds of motion
    MaxHomes,     \* bound: homing commands
    MaxEvents     \* bound: resets and openings of the door

ASSUME HomingAssumption ==
    /\ Builds \subseteq BOOLEAN
    /\ \A c \in Cycles : c \in Seq(SUBSET Axes) /\ Len(c) = 3
    /\ Squared \subseteq Axes /\ Starts \subseteq Nat
    /\ Faults \subseteq {"ok", "dead", "stuck"}
    /\ {Search, Pulloff, Locate} \subseteq Nat \ {0}
    /\ {MaxHomes, MaxEvents} \subseteq Nat

VARIABLES
    build,      \* what is fixed: custom, kin, cycle, fault
    distance,   \* of each axis to its switch
    motors,     \* running, moving, lock, toward, left: the motion of the steppers
    flags,      \* reset, door, stopped (cycle_stop), alarm (sys_rt_exec_alarm)
    mode,       \* sys.state
    abort,      \* sys.abort
    task,       \* the main task in the homing routines
    position,   \* sys_position, in motor coordinates
    planner,    \* pl.position
    parser,     \* gc_state.position
    found,      \* history: the axes whose last approach ended at the switch
    before,     \* history: position when homing began
    budget      \* what is left of the bounds

vars == <<build, distance, motors, flags, mode, abort, task, position, planner, parser,
          found, before, budget>>

Origin == [a \in Axes |-> 0]
Idle == [at |-> "idle"]
Stopped == [running |-> FALSE, moving |-> {}, lock |-> {}, toward |-> TRUE, left |-> 0]
NoFlags == [reset |-> FALSE, door |-> FALSE, stopped |-> FALSE, alarm |-> "None"]

\* (home_mpos -+ pulloff): where the homing settings say an axis is then
HomedAt == [X |-> 1, Y |-> 2, Z |-> 3]

\* limits_get_state
Engaged == {a \in Axes : \/ build.fault[a] = "stuck"
                         \/ build.fault[a] = "ok" /\ distance[a] <= 0}

Init ==
    /\ \E custom \in Builds, c \in Cycles, f \in [Axes -> Faults] :
        build = [custom |-> custom, kin |-> IF custom THEN "CoreXY" ELSE "Cartesian",
                 cycle |-> c, fault |-> f]
    /\ distance \in [Axes -> Starts]
    /\ motors = Stopped /\ flags = NoFlags /\ mode = "Idle" /\ abort = FALSE /\ task = Idle
    /\ position = Origin /\ planner = Origin /\ parser = Origin
    /\ found = {} /\ before = Origin
    /\ budget = [homes |-> MaxHomes, events |-> MaxEvents]

(***************************************************************************)
(* What is to be homed                                                     *)
(***************************************************************************)
Job(axes, locate, own) == [axes |-> axes, locate |-> locate, own |-> own]

\* mc_homing_cycle: an axis that is squared is homed with both motors, then
\* with each of them; an empty cycle is left out
Passes(axes) ==
    IF axes = {} THEN <<>>
    ELSE IF axes \in {{a} : a \in Squared}
    THEN <<Job(axes, 0, FALSE), Job(axes, 1, FALSE), Job(axes, 1, FALSE)>>
    ELSE <<Job(axes, 1, FALSE)>>

\* user_defined_homing: X and Y are homed by its own loop, one axis at a time
Own(axes) == Job(axes, 1, axes \cap {"X", "Y"} # {})

\* A cycle of several axes is a setting error of the custom build
SettingError == build.custom /\ \E i \in 1..3 : \E a, b \in build.cycle[i] : a # b

\* mask = {} stands for all the cycles
Jobs(mask) ==
    LET c == IF mask = {} THEN build.cycle ELSE <<mask>>
        pass(axes) == IF build.custom THEN <<Own(axes)>> ELSE Passes(axes)
    IN  IF SettingError THEN <<>>
        ELSE IF mask # {} THEN pass(mask)
        ELSE pass(c[1]) \o pass(c[2]) \o pass(c[3])

\* home: not with the door open
HomeCommand ==
    /\ task = Idle /\ ~abort /\ flags = NoFlags /\ budget.homes > 0 /\ mode \in {"Idle", "Alarm"}
    /\ \E mask \in {{}} \cup {{a} : a \in Axes} :
        task' = [at |-> IF SettingError THEN "return" ELSE "next", mask |-> mask, jobs |-> Jobs(mask)]
    /\ mode' = "Homing"
    /\ found' = {} /\ before' = position
    /\ budget' = [budget EXCEPT !.homes = @ - 1]
    /\ UNCHANGED <<build, distance, motors, flags, abort, position, planner, parser>>

(***************************************************************************)
(* limits_go_home, and the loop of user_defined_homing                     *)
(***************************************************************************)
Current == task.jobs[1]
NextJob == [at |-> "next", mask |-> task.mask, jobs |-> Tail(task.jobs)]

\* Mutant: the abort is not tested.
BadBlocked(job) == job.axes = {}

\* limits_go_home: "Block if system reset has been issued."
Blocked(job) == ~job.own /\ (abort \/ job.axes = {})

Begin ==
    /\ task.at = "next"
    /\ task' = IF task.jobs = <<>> THEN [at |-> "end", mask |-> task.mask]
               ELSE IF Blocked(Current) THEN NextJob
               ELSE [at |-> "plan", mask |-> task.mask, jobs |-> task.jobs, approach |-> TRUE,
                     travel |-> Search, count |-> 2 * Current.locate + 2, lock |-> {}]
    /\ UNCHANGED <<build, distance, motors, flags, mode, abort, position, planner, parser,
                   found, before, budget>>

\* The motion is planned and the steppers are woken.  In the X and Y loop the
\* positions of X and Y are zeroed, else those of the axes of the cycle.
Plan ==
    /\ task.at = "plan"
    /\ position' = [a \in Axes |->
            IF a \in (IF Current.own THEN {"X", "Y"} ELSE Current.axes) THEN 0 ELSE position[a]]
    /\ motors' = [running |-> TRUE, moving |-> Current.axes, lock |-> Current.axes,
                  toward |-> task.approach, left |-> task.travel]
    /\ task' = [task EXCEPT !.at = "look", !.lock = Current.axes]
    /\ found' = IF task.approach THEN found \ Current.axes ELSE found
    /\ UNCHANGED <<build, distance, flags, mode, abort, planner, parser, before, budget>>

\* The switches are read: limits_go_home locks an axis that is there, the
\* other loop only ends
Look ==
    /\ task.at = "look"
    /\ LET lock == IF task.approach THEN task.lock \ Engaged ELSE task.lock
       IN  /\ task' = [task EXCEPT !.at = "check", !.lock = lock]
           /\ motors' = IF Current.own THEN motors ELSE [motors EXCEPT !.lock = @ \cap lock]
           /\ found' = found \cup (task.lock \ lock)
    /\ UNCHANGED <<build, distance, flags, mode, abort, position, planner, parser, before, budget>>

\* Mutant: the switch is not looked at after a pull-off.
BadNewAlarm(checked) ==
    IF task.approach /\ flags.stopped THEN "FailApproach"
    ELSE IF flags.door THEN "FailDoor"
    ELSE IF flags.reset THEN "FailReset"
    ELSE flags.alarm

\* Mutant: the end of the search is taken for the switch.
MissedAlarm(checked) ==
    IF ~task.approach /\ Engaged \cap checked # {} THEN "FailPulloff"
    ELSE IF flags.door THEN "FailDoor"
    ELSE IF flags.reset THEN "FailReset"
    ELSE flags.alarm

\* The failure conditions; checked are the axes that a pull-off must free
NewAlarm(checked) ==
    IF task.approach /\ flags.stopped THEN "FailApproach"
    ELSE IF ~task.approach /\ Engaged \cap checked # {} THEN "FailPulloff"
    ELSE IF flags.door THEN "FailDoor"
    ELSE IF flags.reset THEN "FailReset"
    ELSE flags.alarm

\* The realtime flags are tested.  A failure resets the machine (mc_reset does
\* nothing when a reset is there already), and protocol_execute_realtime sets
\* the alarm state and sys.abort; the X and Y loop then ends the homing.
Check ==
    /\ task.at = "check"
    /\ LET alarm == NewAlarm(IF Current.own THEN task.mask ELSE Current.axes)
       IN  IF ~(flags.door \/ flags.reset \/ flags.stopped)
           THEN /\ task' = [task EXCEPT !.at = IF task.lock = {} THEN "stop" ELSE "look"]
                /\ UNCHANGED <<motors, flags, mode, abort>>
           ELSE IF alarm = "None"
           THEN /\ task' = [task EXCEPT !.at = "stop"]
                /\ flags' = [flags EXCEPT !.stopped = FALSE]
                /\ UNCHANGED <<motors, mode, abort>>
           ELSE /\ task' = IF Current.own THEN [at |-> "return", mask |-> task.mask] ELSE NextJob
                /\ motors' = IF flags.reset THEN motors ELSE Stopped
                /\ flags' = [flags EXCEPT !.reset = TRUE, !.alarm = "None"]
                /\ mode' = "Alarm" /\ abort' = TRUE
    /\ UNCHANGED <<build, distance, position, planner, parser, found, before, budget>>

\* st_reset; then the next motion, or the axes are homed
Stop ==
    /\ task.at = "stop"
    /\ motors' = Stopped
    /\ IF task.count > 1
       THEN /\ task' = [task EXCEPT !.at = "plan", !.approach = ~@, !.count = @ - 1,
                                    !.travel = IF task.approach THEN Pulloff ELSE Locate]
            /\ UNCHANGED position
       ELSE /\ task' = NextJob
            /\ position' = IF Current.own THEN position
                           ELSE [a \in Axes |-> IF a \in Current.axes THEN HomedAt[a]
                                                ELSE position[a]]
    /\ UNCHANGED <<build, distance, flags, mode, abort, planner, parser, found, before, budget>>

(***************************************************************************)
(* The end                                                                 *)
(***************************************************************************)
\* Mutant: the planner keeps its position.
BadSync(p) == planner' = planner /\ parser' = MotorsToCartesian(build.kin, p)

\* gc_sync_position, plan_sync_position
Sync(p) == planner' = p /\ parser' = MotorsToCartesian(build.kin, p)

\* mc_homing_cycle: a reset is executed, else the positions are synchronized.
\* (A door that opens here is handled before the machine goes on.)
EndDefault ==
    /\ task.at = "end" /\ ~build.custom
    /\ IF flags.reset \/ abort
       THEN /\ mode' = IF flags.alarm # "None" THEN "Alarm" ELSE mode
            /\ abort' = TRUE
            /\ UNCHANGED <<planner, parser>>
       ELSE Sync(position) /\ UNCHANGED <<mode, abort>>
    /\ flags' = [flags EXCEPT !.alarm = "None", !.door = FALSE, !.stopped = FALSE]
    /\ task' = [task EXCEPT !.at = "return"]
    /\ UNCHANGED <<build, distance, motors, position, found, before, budget>>

\* user_defined_homing: the positions of X and Y are set whatever was homed;
\* kinematics_post_homing tells the parser last_cartesian
EndCustom ==
    /\ task.at = "end" /\ build.custom
    /\ LET homed == [HomedAt EXCEPT !.Z = position.Z]
       IN  /\ position' = HomingMotors(homed)
           /\ planner' = position'
           /\ parser' = homed
    /\ task' = [task EXCEPT !.at = "return"]
    /\ UNCHANGED <<build, distance, motors, flags, mode, abort, found, before, budget>>

\* home: idle unless aborted
Return ==
    /\ task.at = "return"
    /\ mode' = IF abort THEN mode ELSE "Idle"
    /\ motors' = IF abort THEN motors ELSE Stopped
    /\ task' = Idle
    /\ UNCHANGED <<build, distance, flags, abort, position, planner, parser, found, before, budget>>

\* The main loop executes a reset that is there, and starts again
MainLoop ==
    /\ task = Idle /\ ~abort /\ flags # NoFlags
    /\ mode' = IF flags.alarm # "None" THEN "Alarm" ELSE mode
    /\ abort' = flags.reset
    /\ flags' = [NoFlags EXCEPT !.reset = flags.reset]
    /\ UNCHANGED <<build, distance, motors, task, position, planner, parser, found, before, budget>>

Restart ==
    /\ task = Idle /\ abort
    /\ abort' = FALSE /\ flags' = NoFlags /\ motors' = Stopped
    /\ Sync(position)
    /\ mode' = IF mode = "Alarm" THEN "Alarm" ELSE "Idle"
    /\ UNCHANGED <<build, distance, task, position, found, before, budget>>

(***************************************************************************)
(* The stepper interrupt, the input task and the door                      *)
(***************************************************************************)
\* How a step changes sys_position.  The axes that are locked are counted too.
Delta ==
    LET unit == [a \in Axes |-> IF a \notin motors.moving THEN 0
                                ELSE IF motors.toward THEN 1 ELSE -1]
    IN  IF build.custom THEN HomingMotors(unit) ELSE unit

Step ==
    /\ motors.running /\ motors.left > 0
    /\ distance' = [a \in Axes |-> IF a \notin motors.lock THEN distance[a]
                                   ELSE IF motors.toward THEN distance[a] - 1 ELSE distance[a] + 1]
    /\ position' = [a \in Axes |-> position[a] + Delta[a]]
    /\ motors' = [motors EXCEPT !.left = @ - 1]
    /\ UNCHANGED <<build, flags, mode, abort, task, planner, parser, found, before, budget>>

\* Mutant: the end of the motion is not signalled.
BadAtEnd == motors' = Stopped /\ UNCHANGED flags

\* The segment buffer is empty: cycle_stop
AtEnd == motors' = Stopped /\ flags' = [flags EXCEPT !.stopped = TRUE]

Complete ==
    /\ motors.running /\ motors.left = 0
    /\ AtEnd
    /\ UNCHANGED <<build, distance, mode, abort, task, position, planner, parser,
                   found, before, budget>>

Event == task # Idle /\ budget.events > 0 /\ budget' = [budget EXCEPT !.events = @ - 1]

\* mc_reset in another task
Reset ==
    /\ Event /\ ~flags.reset
    /\ flags' = [flags EXCEPT !.reset = TRUE,
                              !.alarm = IF mode = "Homing" /\ @ = "None" THEN "FailReset" ELSE @]
    /\ motors' = Stopped
    /\ UNCHANGED <<build, distance, mode, abort, task, position, planner, parser, found, before>>

Door ==
    /\ Event /\ ~flags.door
    /\ flags' = [flags EXCEPT !.door = TRUE]
    /\ UNCHANGED <<build, distance, motors, mode, abort, task, position, planner, parser,
                   found, before>>

Main == Begin \/ Plan \/ Look \/ Check \/ Stop \/ EndDefault \/ EndCustom \/ Return
Next == HomeCommand \/ Main \/ MainLoop \/ Restart \/ Step \/ Complete \/ Reset \/ Door

Spec == Init /\ [][Next]_vars

\* The main task polls, the interrupt steps
FairSpec == Spec /\ WF_vars(Main) /\ WF_vars(Step) /\ WF_vars(Complete)

(***************************************************************************)
(* Properties                                                              *)
(***************************************************************************)
Succeeds == mode = "Homing" /\ mode' = "Idle"
Wanted == IF task.mask = {} THEN UNION {build.cycle[i] : i \in 1..3} ELSE task.mask

\* The switch of every axis that was to be homed has been found.  (Not in the custom
\* build whose cycles are a setting error: it homes nothing.)
Found == ~SettingError => Wanted \subseteq found

\* The last pull-off has freed them ("Limit switch still engaged after pull-off
\* motion").  The X and Y loop looks at the axes of the command alone, and $H names
\* none.
Freed == ~SettingError /\ (build.custom => task.mask # {}) => Wanted \cap Engaged = {}

\* limits_go_home and mc_homing_cycle: the axes that were homed are where the
\* settings say, the others keep their position, and parser, planner and machine agree.
Placed ==
    ~build.custom =>
        /\ \A a \in Axes : position[a] = IF a \in Wanted THEN HomedAt[a] ELSE before[a]
        /\ planner = position /\ parser = MotorsToCartesian(build.kin, planner)

\* Whatever switch is broken and whenever a reset or the door fell in: homing that
\* ends well has found and freed every axis it was to home, and every position is
\* then the right one.
HomedAxesKnown == [][Succeeds => Found /\ Freed /\ Placed]_vars

\* No homing motion is started once the abort is there.  (X and Y of the
\* custom build are: the failure of limits_go_home is not looked at.)
NoMotionAfterAbort == [][~motors.running /\ motors'.running => ~abort \/ build.custom]_vars

\* Homing ends: no poll waits for a switch for ever.
HomingEnds == task # Idle ~> task = Idle

\* CoreXY.cpp: "after sussefully setting X & Y axes, we set the current
\* positions".  An axis whose switch was not found keeps its position.
OnlyHomedAreSet ==
    [][Succeeds =>
        LET tool(m) == MotorsToCartesian(build.kin, m)
        IN  \A a \in Axes \ found : tool(position)[a] = tool(before)[a]]_vars

\* MotionControl.cpp: "Sync gcode parser and planner positions to homed
\* position."
HomedInSync == [][Succeeds => parser = MotorsToCartesian(build.kin, planner)]_vars
===============================================================================
