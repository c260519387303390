---------------------------- MODULE Realtime_proofs ----------------------------
(***************************************************************************)
(* Proofs about Realtime, for every planner size, every set of lines and   *)
(* commands, with or without parking, and any number of events.            *)
(***************************************************************************)
EXTENDS Realtime, TLAPS

\* The types of the system state and of the main task.
Systems == [state : State, suspend : SUBSET SuspendBits, ctl : SUBSET StepControl,
            ovr : SUBSET SpindleStop, abort : BOOLEAN, softLimit : BOOLEAN]
Places  == [caller : Callers, nest : Nests, step : Steps, rt : SUBSET ExecState]

-----------------------------------------------------------------------------
\* What the operators of protocol_exec_rt_system() make of a system state is
\* one, with the abort flag and the soft limit as they were.

\* The hold branch up to the feed hold.
LEMMA HoldTypes ==
  ASSUME NEW s \in Systems, NEW rt \in SUBSET ExecState
  PROVE  /\ Decelerated(s, rt) \in Systems
         /\ Rested(s) \in Systems
         /\ Cancelled(s, rt) \in Systems
         /\ Held(s, rt) \in Systems
<1>1. Decelerated(s, rt) \in Systems
  BY DEF Decelerated, Systems, State, SuspendBits, StepControl
<1>2. Rested(s) \in Systems
  BY DEF Rested, Systems, State, SuspendBits
<1>3. Cancelled(s, rt) \in Systems
  BY DEF Cancelled, Systems, State, SuspendBits
<1>4. Held(s, rt) \in Systems
  BY DEF Held, Systems, State
<1> QED BY <1>1, <1>2, <1>3, <1>4

\* The safety door.
LEMMA DoorTypes ==
  ASSUME NEW s \in Systems, NEW rt \in SUBSET ExecState
  PROVE  Reopened(s) \in Systems /\ Opened(s, rt) \in Systems
<1>1. Reopened(s) \in Systems
  BY DEF Reopened, Systems, State, SuspendBits, StepControl
<1>2. Opened(s, rt) \in Systems
  BY <1>1 DEF Opened, Systems, State, SuspendBits
<1> QED BY <1>1, <1>2

\* The whole hold branch, and the sleep.
LEMMA StopTypes ==
  ASSUME NEW s \in Systems, NEW rt \in SUBSET ExecState
  PROVE  Stopping(s, rt) \in Systems /\ Slept(Stopping(s, rt), rt) \in Systems
<1>1. Stopping(s, rt) \in Systems
  BY HoldTypes, DoorTypes DEF Stopping
<1>2. \A t \in Systems : Slept(t, rt) \in Systems
  BY DEF Slept, Systems, State, SuspendBits
<1> QED BY <1>1, <1>2

\* The cycle start, the cycle stop and the override.
LEMMA StartTypes ==
  ASSUME NEW s \in Systems
  PROVE  /\ DoorResume(s) \in Systems
         /\ \A st \in State : Running(s, st) \in Systems
         /\ [s EXCEPT !.ovr = @ \union {"restoreCycle"}] \in Systems
         /\ Stopped(s) \in Systems
         /\ Override(s) \in Systems
<1>1. DoorResume(s) \in Systems
  BY DEF DoorResume, Systems, State, SuspendBits
<1>2. ASSUME NEW st \in State PROVE Running(s, st) \in Systems
  BY DEF Running, Systems
<1>3. [s EXCEPT !.ovr = @ \union {"restoreCycle"}] \in Systems
  BY DEF Systems, SpindleStop
<1>4. Stopped(s) \in Systems
  BY DEF Stopped, Systems, State, SuspendBits
<1>5. Override(s) \in Systems
  BY DEF Override, Systems, SpindleStop
<1> QED BY <1>1, <1>2, <1>3, <1>4, <1>5

\* The suspend loop: the end of the retraction, and the door switch.
LEMMA SuspendTypes ==
  ASSUME NEW s \in Systems
  PROVE  /\ Retracted(s) \in Systems
         /\ sys \in Systems => DoorChecked \in Systems
         /\ [s EXCEPT !.suspend = @ \union {"restoreComplete"}] \in Systems
         /\ [s EXCEPT !.ovr = {}] \in Systems
<1>1. Retracted(s) \in Systems
  BY DEF Retracted, Systems, SuspendBits
<1>2. sys \in Systems => DoorChecked \in Systems
  BY DEF DoorChecked, Systems
<1>3. [s EXCEPT !.suspend = @ \union {"restoreComplete"}] \in Systems
  BY DEF Systems, SuspendBits
<1>4. [s EXCEPT !.ovr = {}] \in Systems
  BY DEF Systems
<1> QED BY <1>1, <1>2, <1>3, <1>4

\* st_prep_buffer() adds no block and leaves control bits.
LEMMA PreparedTypes ==
  ASSUME NEW ctl \in SUBSET StepControl, NEW q \in 0 .. QueueSize, NEW r \in BOOLEAN,
         NEW p \in Prepared(ctl, q, r)
  PROVE  p.ctl \in SUBSET StepControl /\ p.queue \in 0 .. QueueSize /\ p.ring \in BOOLEAN
<1>q. QueueSize \in Nat /\ q \in Nat /\ q <= QueueSize
  BY RealtimeAssumption DEF RealtimeAssumption
<1>1. CASE "endMotion" \in ctl
  BY <1>1 DEF Prepared
<1>2. CASE "endMotion" \notin ctl /\ "executeSysMotion" \in ctl
  BY <1>2 DEF Prepared, StepControl
<1>3. CASE "endMotion" \notin ctl /\ "executeSysMotion" \notin ctl /\ q > 0
  <2>1. \/ p \in [queue : 0 .. q, ring : {TRUE}, ctl : {ctl}]
        \/ p = [queue |-> q, ring |-> TRUE, ctl |-> ctl \union {"endMotion"}]
    BY <1>3 DEF Prepared
  <2>2. CASE p \in [queue : 0 .. q, ring : {TRUE}, ctl : {ctl}]
    <3>1. p.queue \in 0 .. q /\ p.ctl \in {ctl}
      BY <2>2
    <3>2. p.ring \in {TRUE}
      BY <2>2, Zenon
    <3>3. p.ring \in BOOLEAN
      BY <3>2, Zenon
    <3>4. p.queue \in 0 .. QueueSize
      BY <3>1, <1>q
    <3> QED BY <3>1, <3>3, <3>4
  <2>3. CASE p = [queue |-> q, ring |-> TRUE, ctl |-> ctl \union {"endMotion"}]
    BY <2>3, <1>q DEF StepControl
  <2> QED BY <2>1, <2>2, <2>3
<1>4. CASE "endMotion" \notin ctl /\ "executeSysMotion" \notin ctl /\ ~(q > 0)
  BY <1>4, <1>q DEF Prepared
<1> QED BY <1>1, <1>2, <1>3, <1>4

\* The places the main task goes to.
LEMMA Moves ==
  ASSUME main \in Places
  PROVE  /\ \A s \in Steps : Goto(s) =>
              /\ main' \in Places /\ main'.step = s
              /\ main'.nest = main.nest /\ main'.caller = main.caller /\ main'.rt = main.rt
         /\ \A c \in Callers : Exec(c) =>
              /\ main' \in Places /\ main'.step = "alarm" /\ main'.caller = c
              /\ main'.nest = main.nest /\ main'.rt = main.rt
         /\ \A n \in Nests : ExecIn(n) =>
              /\ main' \in Places /\ main'.step = "alarm" /\ main'.nest = n
              /\ main'.caller = main.caller /\ main'.rt = main.rt
<1>1. ASSUME NEW s \in Steps, Goto(s)
      PROVE  /\ main' \in Places /\ main'.step = s
             /\ main'.nest = main.nest /\ main'.caller = main.caller /\ main'.rt = main.rt
  BY <1>1 DEF Goto, Places
<1>2. ASSUME NEW c \in Callers, Exec(c)
      PROVE  /\ main' \in Places /\ main'.step = "alarm" /\ main'.caller = c
             /\ main'.nest = main.nest /\ main'.rt = main.rt
  BY <1>2 DEF Exec, Places, Steps
<1>3. ASSUME NEW n \in Nests, ExecIn(n)
      PROVE  /\ main' \in Places /\ main'.step = "alarm" /\ main'.nest = n
             /\ main'.caller = main.caller /\ main'.rt = main.rt
  BY <1>3 DEF ExecIn, Places, Steps
<1> QED BY <1>1, <1>2, <1>3

\* The types of what st_prep_buffer() and the stepper interrupt work on.
MotionTypes == queue \in 0 .. QueueSize /\ ring \in BOOLEAN /\ timer \in BOOLEAN

\* st_prep_buffer() on the system state s leaves all of it but the control bits.
LEMMA PrepTypes ==
  ASSUME NEW s \in Systems, queue \in 0 .. QueueSize, ring \in BOOLEAN, PrepBuffer(s)
  PROVE  /\ sys' \in Systems /\ queue' \in 0 .. QueueSize /\ ring' \in BOOLEAN
         /\ sys'.state = s.state /\ sys'.suspend = s.suspend /\ sys'.ovr = s.ovr
         /\ sys'.abort = s.abort /\ sys'.softLimit = s.softLimit
<1>1. PICK p \in Prepared(s.ctl, queue, ring) :
        sys' = [s EXCEPT !.ctl = p.ctl] /\ queue' = p.queue /\ ring' = p.ring
  BY DEF PrepBuffer
<1>2. p.ctl \in SUBSET StepControl /\ p.queue \in 0 .. QueueSize /\ p.ring \in BOOLEAN
  BY <1>1, PreparedTypes DEF Systems
<1> QED BY <1>1, <1>2 DEF Systems

\* So does mc_parking_motion(), which goes on in its own loop or ends at once.
LEMMA ParkTypes ==
  ASSUME NEW s \in Systems, MotionTypes, main \in Places, NEW n \in ParkMotions, ParkMotion(n, s)
  PROVE  /\ sys' \in Systems /\ MotionTypes'
         /\ sys'.state = s.state /\ sys'.suspend = s.suspend /\ sys'.ovr = s.ovr
         /\ sys'.abort = s.abort /\ sys'.softLimit = s.softLimit
         /\ main' \in Places /\ main'.nest = n /\ main'.rt = main.rt
         /\ main'.step = (IF s.abort THEN "parked" ELSE "alarm")
<1>n. n \in Nests
  BY DEF Nests
<1>1. CASE s.abort /\ sys' = s /\ main' = [main EXCEPT !.nest = n, !.step = "parked"] /\ UNCHANGED motion
  BY <1>1, <1>n DEF MotionTypes, motion, Places, Steps
<1>2. CASE /\ ~s.abort
           /\ PrepBuffer([s EXCEPT !.ctl = (@ \union {"executeSysMotion"}) \ {"endMotion"}])
           /\ timer' = TRUE
           /\ ExecIn(n)
  <2> DEFINE t == [s EXCEPT !.ctl = (@ \union {"executeSysMotion"}) \ {"endMotion"}]
  <2>1. t \in Systems /\ t.state = s.state /\ t.suspend = s.suspend /\ t.ovr = s.ovr
        /\ t.abort = s.abort /\ t.softLimit = s.softLimit
    BY DEF Systems, StepControl
  <2> HIDE DEF t
  <2>2. PrepBuffer(t)
    BY <1>2 DEF t
  <2>3. /\ sys' \in Systems /\ queue' \in 0 .. QueueSize /\ ring' \in BOOLEAN
        /\ sys'.state = t.state /\ sys'.suspend = t.suspend /\ sys'.ovr = t.ovr
        /\ sys'.abort = t.abort /\ sys'.softLimit = t.softLimit
    BY <2>1, <2>2, PrepTypes DEF MotionTypes
  <2> QED BY <2>1, <2>3, <1>2, <1>n, Moves DEF MotionTypes
<1>3. CASE /\ ~s.abort
           /\ sys' = [s EXCEPT !.ctl = @ \ {"executeSysMotion"}]
           /\ ExecIn(n)
           /\ UNCHANGED motion
  <2>1. /\ sys' \in Systems
        /\ sys'.state = s.state /\ sys'.suspend = s.suspend /\ sys'.ovr = s.ovr
        /\ sys'.abort = s.abort /\ sys'.softLimit = s.softLimit
    BY <1>3 DEF Systems
  <2>2. MotionTypes'
    BY <1>3 DEF MotionTypes, motion
  <2> QED BY <2>1, <2>2, <1>3, <1>n, Moves
<1> QED BY <1>1, <1>2, <1>3 DEF ParkMotion

-----------------------------------------------------------------------------
\* The type invariant, in the parts the steps keep.
RestTypes ==
  /\ flags \subseteq ExecState /\ alarm \in ExecAlarm
  /\ cycleStop \in BOOLEAN /\ ovrStop \in BOOLEAN /\ modal \in BOOLEAN /\ spindle \in BOOLEAN
  /\ doorOpen \in BOOLEAN /\ asked \in BOOLEAN /\ lost \in BOOLEAN /\ again \in BOOLEAN
  /\ inflight \in {"none", "line", "jog"}
  /\ client \in {"idle", "kill", "cancel"}
  /\ lines \in 0 .. MaxLines /\ commands \in 0 .. MaxCommands

Types == sys \in Systems /\ main \in Places /\ MotionTypes /\ RestTypes

\* These parts are the type invariant.
LEMMA TypesAreTypeOK == Types <=> TypeOK
<1>1. {cycleStop, ovrStop, ring, timer, modal, spindle, doorOpen, asked, lost, again} \subseteq
     BOOLEAN
      <=> /\ cycleStop \in BOOLEAN /\ ovrStop \in BOOLEAN /\ ring \in BOOLEAN
          /\ timer \in BOOLEAN /\ modal \in BOOLEAN /\ spindle \in BOOLEAN
          /\ doorOpen \in BOOLEAN /\ asked \in BOOLEAN /\ lost \in BOOLEAN /\ again \in BOOLEAN
  BY Zenon
<1> QED BY <1>1 DEF Types, TypeOK, Systems, Places, MotionTypes, RestTypes

\* The sizes and the bounds are numbers.
LEMMA ConstantTypes == QueueSize \in Nat \ {0} /\ MaxLines \in Nat /\ MaxCommands \in Nat
BY RealtimeAssumption DEF RealtimeAssumption

\* The system starts within its types.
LEMMA InitTypes == Init => Types
<1> SUFFICES ASSUME Init PROVE Types
  OBVIOUS
<1>1. sys \in Systems
  BY DEF Init, SysReset, Systems, State
<1>2. main \in Places
  BY DEF Init, Places, Callers, Nests, Steps
<1>3. MotionTypes
  <2>1. queue \in 0 .. QueueSize
    BY ConstantTypes DEF Init
  <2> QED BY <2>1 DEF Init, MotionTypes
<1>4. RestTypes
  <2>1. lines \in 0 .. MaxLines /\ commands \in 0 .. MaxCommands
    BY ConstantTypes DEF Init
  <2> QED BY <2>1 DEF Init, RestTypes, ExecAlarm
<1> QED BY <1>1, <1>2, <1>3, <1>4 DEF Types

\* The system state keeps its type.
LEMMA SystemStep == Types /\ [Next]_vars => sys' \in Systems
<1> SUFFICES ASSUME Types, [Next]_vars PROVE sys' \in Systems
  OBVIOUS
<1> USE DEF Types
<1>r. main.rt \in SUBSET ExecState
  BY DEF Places
<1>1. CASE UNCHANGED sys
  BY <1>1
<1>2. CASE AlarmSeen
  BY <1>2 DEF AlarmSeen, Systems, State
<1>3. CASE CopyFlags
  BY <1>3 DEF CopyFlags, Systems
<1>4. CASE Holds
  BY <1>4, <1>r, StopTypes DEF Holds
<1>5. CASE StartRefused
  <2> DEFINE s == DoorResume(sys)
  <2>1. s \in Systems
    BY StartTypes
  <2>2. Running(s, "Idle") \in Systems /\ [s EXCEPT !.ovr = @ \union {"restoreCycle"}] \in Systems
    BY <2>1, StartTypes DEF State
  <2> QED BY <1>5, <2>1, <2>2 DEF StartRefused
<1>6. CASE StartCycle
  <2> DEFINE s == DoorResume(sys)
  <2>1. Running(s, "Cycle") \in Systems
    BY StartTypes DEF State
  <2> QED BY <1>6, <2>1, PrepTypes DEF StartCycle, MotionTypes
<1>7. CASE CycleStop
  BY <1>7, StartTypes DEF CycleStop
<1>8. CASE Reload
  BY <1>8, StartTypes, PrepTypes DEF Reload, MotionTypes
<1>9. CASE StartRetract
  <2> DEFINE s == [sys EXCEPT !.ovr = {}]
  <2>1. s \in Systems /\ Retracted(s) \in Systems
    BY SuspendTypes
  <2> HIDE DEF s
  <2>2. "pullOut" \in ParkMotions /\ "retract" \in ParkMotions
    BY DEF ParkMotions
  <2>3. ParkMotion("pullOut", s) \/ ParkMotion("retract", s) \/ sys' = Retracted(s)
    BY <1>9 DEF StartRetract, s
  <2> QED BY <2>1, <2>2, <2>3, ParkTypes
<1>10. CASE PulledOut
  BY <1>10, SuspendTypes, ParkTypes DEF PulledOut, ParkMotions
<1>11. CASE RetractEnds
  BY <1>11, SuspendTypes DEF RetractEnds
<1>12. CASE DoorWait
  <2>1. DoorChecked \in Systems /\ [DoorChecked EXCEPT !.suspend = @ \union {"restoreComplete"}] \in Systems
    BY SuspendTypes
  <2> QED BY <1>12, <2>1, ParkTypes DEF DoorWait, ParkMotions, Restored
<1>13. CASE Approached
  BY <1>13, SuspendTypes, ParkTypes DEF Approached, ParkMotions, Restored
<1>14. CASE PlungeEnds
  BY <1>14, SuspendTypes DEF PlungeEnds, Restored
<1>15. CASE HoldManager
  BY <1>15 DEF HoldManager, Systems, SpindleStop
<1>16. CASE Reinit
  BY <1>16 DEF Reinit, SysReset, Systems
<1>17. CASE Boot
  BY <1>17 DEF Boot, Systems, State
<1>18. CASE UnlockLine
  BY <1>18 DEF UnlockLine, Systems, State
<1>19. CASE CheckLine
  BY <1>19 DEF CheckLine, Systems, State
<1>20. CASE BeyondLine
  BY <1>20 DEF BeyondLine, Systems
<1>21. CASE LineEnds
  <2>1. CASE UNCHANGED sys
    BY <2>1
  <2>2. CASE sys' # sys
    <3> DEFINE q == queue + 1
    <3>1. /\ ~sys.abort /\ ~Full /\ main.caller = "jog"
          /\ \E p \in Prepared(sys.ctl, q, ring) : sys' = [sys EXCEPT !.state = "Jog", !.ctl = p.ctl]
      BY <1>21, <2>2 DEF LineEnds
    <3>2. q \in 0 .. QueueSize
      BY <3>1, RealtimeAssumption DEF Full, MotionTypes, RealtimeAssumption
    <3>3. sys.ctl \in SUBSET StepControl /\ ring \in BOOLEAN
      BY DEF Systems, MotionTypes
    <3>4. PICK p \in Prepared(sys.ctl, q, ring) : sys' = [sys EXCEPT !.state = "Jog", !.ctl = p.ctl]
      BY <3>1
    <3>5. p.ctl \in SUBSET StepControl
      BY <3>2, <3>3, <3>4, PreparedTypes
    <3> QED BY <3>4, <3>5 DEF Systems, State
  <2> QED BY <2>1, <2>2
<1> QED
  BY <1>1, <1>2, <1>3, <1>4, <1>5, <1>6, <1>7, <1>8, <1>9, <1>10, <1>11, <1>12, <1>13, <1>14,
     <1>15, <1>16, <1>17, <1>18, <1>19, <1>20, <1>21
  DEF Next, Main, Interrupt, Clients, InCommand, ExecRtSystem, ExecRtSuspend, Program, vars,
      Drain, RingEmpty, AlarmDone, StartNothing, WakeUp, Back, SuspendEnds, AwaitRest, Asleep,
      Loop, ReadLine, LoopReturns, CallReturns, Refused, MotionLine, SyncLine, CheckedLine,
      SleepLine, SoftWait, LineWaits, JogWake, SyncWaits, SyncEnds,
      CmdReset, CmdFlag, CmdSpindleStop, CmdJogCancel, DoorSwitch, LimitSwitch,
      CmdResetKill, CmdJogCancelFlag

\* The main task stays in its program.
LEMMA PlaceStep == Types /\ [Next]_vars => main' \in Places
<1> SUFFICES ASSUME Types, [Next]_vars PROVE main' \in Places
  OBVIOUS
<1> USE DEF Types
<1>1. \A s \in Steps : Goto(s) => main' \in Places
  BY Moves
<1>2. \A c \in Callers : Exec(c) => main' \in Places
  BY Moves
<1>3. \A n \in Nests : ExecIn(n) => main' \in Places
  BY Moves
<1>4. CASE UNCHANGED main
  BY <1>4
<1>5. CASE ExecRtSystem
  <2>1. CASE CopyFlags
    BY <2>1 DEF CopyFlags, Places, RestTypes, Steps
  <2> QED
    BY <1>5, <1>1, <2>1
    DEF ExecRtSystem, AlarmSeen, AlarmDone, Holds, StartNothing, StartRefused, StartCycle,
        WakeUp, CycleStop, Reload, Steps
<1>6. CASE Back
  BY <1>6 DEF Back, Places, Nests, Steps
<1>7. CASE ExecRtSuspend
  <2>1. CASE SuspendEnds
    BY <2>1 DEF SuspendEnds, Places, Nests, Steps
  <2>2. CASE StartRetract
    <3> DEFINE s == [sys EXCEPT !.ovr = {}]
    <3>1. s \in Systems
      BY SuspendTypes
    <3> HIDE DEF s
    <3>2. \/ ParkMotion("pullOut", s) \/ ParkMotion("retract", s) \/ ExecIn("suspend")
      BY <2>2 DEF StartRetract, s
    <3> QED BY <3>1, <3>2, <1>3, ParkTypes DEF ParkMotions, Nests
  <2>3. DoorChecked \in Systems
    BY SuspendTypes
  <2>4. CASE PulledOut \/ DoorWait \/ Approached
    BY <2>3, <2>4, <1>3, ParkTypes DEF PulledOut, DoorWait, Approached, ParkMotions, Nests
  <2> QED
    BY <1>7, <1>3, <2>1, <2>2, <2>4
    DEF ExecRtSuspend, AwaitRest, RetractEnds, Asleep, PlungeEnds, HoldManager, Nests
<1>8. CASE Program
  <2>1. CASE Reinit
    BY <2>1 DEF Reinit, Places, Nests, Steps
  <2>2. main.caller \in Callers
    BY DEF Places
  <2>3. CASE LineWaits \/ LineEnds \/ SyncWaits \/ SyncEnds
    BY <2>2, <2>3, <1>1, <1>2 DEF LineWaits, LineEnds, SyncWaits, SyncEnds, Steps, Callers
  <2>4. CASE MotionLine \/ SyncLine \/ BeyondLine \/ SoftWait
    BY <2>4, <1>1, <1>2
    DEF MotionLine, SyncLine, Synchronize, BeyondLine, SoftWait, SoftReset, Steps, Callers
  <2> QED
    BY <1>8, <1>1, <1>2, <2>1, <2>3, <2>4
    DEF Program, Boot, Loop, ReadLine, LoopReturns, CallReturns, Refused, CheckedLine, SleepLine,
        UnlockLine, CheckLine, JogWake, Steps, Callers
<1> QED
  BY <1>4, <1>5, <1>6, <1>7, <1>8
  DEF Next, Main, Interrupt, Clients, InCommand, vars, Drain, RingEmpty,
      CmdReset, CmdFlag, CmdSpindleStop, CmdJogCancel, DoorSwitch, LimitSwitch,
      CmdResetKill, CmdJogCancelFlag

\* The planner, the ring and the timer keep their types.
LEMMA MotionStep == Types /\ [Next]_vars => MotionTypes'
<1> SUFFICES ASSUME Types, [Next]_vars PROVE MotionTypes'
  OBVIOUS
<1> USE DEF Types
<1>1. CASE UNCHANGED motion
  BY <1>1 DEF MotionTypes, motion
<1>2. CASE Drain \/ RingEmpty
  BY <1>2 DEF MotionTypes, Drain, RingEmpty
<1>3. CASE StartCycle
  <2>1. Running(DoorResume(sys), "Cycle") \in Systems
    BY StartTypes DEF State
  <2> QED BY <1>3, <2>1, PrepTypes DEF StartCycle, MotionTypes
<1>4. CASE Reload
  BY <1>4, StartTypes, PrepTypes DEF Reload, MotionTypes
<1>5. CASE CycleStop
  <2>1. CASE UNCHANGED motion
    BY <2>1, <1>1
  <2>2. CASE /\ queue' = IF Flushed(sys) THEN 0 ELSE queue
             /\ ring' = (ring /\ ~Flushed(sys)) /\ timer' = (timer /\ ~Flushed(sys))
    <3>1. queue' \in 0 .. QueueSize
      BY <2>2, ConstantTypes DEF MotionTypes
    <3>2. ring' \in BOOLEAN /\ timer' \in BOOLEAN
      BY <2>2, Zenon
    <3> QED BY <3>1, <3>2 DEF MotionTypes
  <2> QED BY <1>5, <2>1, <2>2 DEF CycleStop
<1>6. CASE StartRetract
  <2> DEFINE s == [sys EXCEPT !.ovr = {}]
  <2>1. s \in Systems
    BY SuspendTypes
  <2> HIDE DEF s
  <2>2. \/ ParkMotion("pullOut", s) \/ ParkMotion("retract", s) \/ UNCHANGED motion
    BY <1>6 DEF StartRetract, s
  <2> QED BY <1>1, <2>1, <2>2, ParkTypes DEF ParkMotions
<1>7. DoorChecked \in Systems
  BY SuspendTypes
<1>8. CASE PulledOut \/ DoorWait \/ Approached
  BY <1>1, <1>7, <1>8, ParkTypes DEF PulledOut, DoorWait, Approached, ParkMotions
<1>9. CASE WakeUp \/ Asleep \/ JogWake
  BY <1>9 DEF WakeUp, Asleep, JogWake, MotionTypes
<1>10. CASE Reinit
  <2>1. queue' = 0 /\ ring' = FALSE /\ timer' = FALSE
    BY <1>10 DEF Reinit
  <2>2. queue' \in 0 .. QueueSize
    BY <2>1, ConstantTypes
  <2> QED BY <2>1, <2>2 DEF MotionTypes
<1>11. ASSUME Killed(FALSE) \/ Killed(TRUE), UNCHANGED <<queue, ring>> PROVE MotionTypes'
  BY <1>11 DEF Killed, MotionTypes
<1>12. CASE UNCHANGED <<queue, ring>> /\ timer' \in BOOLEAN
  BY <1>12 DEF MotionTypes
<1>13. CASE CheckLine \/ BeyondLine \/ SoftWait \/ LimitSwitch \/ CmdResetKill
  BY <1>13, <1>12 DEF CheckLine, BeyondLine, SoftWait, LimitSwitch, CmdResetKill, SoftReset,
                      Killed, MotionTypes
<1>14. CASE LineEnds
  <2> DEFINE q == IF ~sys.abort /\ inflight # "none" THEN queue + 1 ELSE queue
  <2>1. \/ queue' = q /\ UNCHANGED ring
        \/ \E p \in Prepared(sys.ctl, q, ring) : queue' = p.queue /\ ring' = p.ring
    BY <1>14 DEF LineEnds
  <2>2. q \in 0 .. QueueSize
    <3>1. sys.abort \/ queue # QueueSize
      BY <1>14 DEF LineEnds, Full
    <3>2. queue \in 0 .. QueueSize
      BY DEF MotionTypes
    <3> QED BY <3>1, <3>2, ConstantTypes
  <2> HIDE DEF q
  <2>3. sys.ctl \in SUBSET StepControl /\ ring \in BOOLEAN
    BY DEF Systems, MotionTypes
  <2>4. queue' \in 0 .. QueueSize /\ ring' \in BOOLEAN
    BY <2>1, <2>2, <2>3, PreparedTypes
  <2> QED BY <1>14, <2>4 DEF LineEnds, MotionTypes
<1> QED
  BY <1>1, <1>2, <1>3, <1>4, <1>5, <1>6, <1>8, <1>9, <1>10, <1>13, <1>14
  DEF Next, Main, Interrupt, Clients, InCommand, ExecRtSystem, ExecRtSuspend, Program, vars, motion,
      AlarmSeen, AlarmDone, CopyFlags, Holds, StartNothing, StartRefused, Back,
      SuspendEnds, AwaitRest, RetractEnds, PlungeEnds, HoldManager, Boot,
      Loop, ReadLine, LoopReturns, CallReturns, Refused, MotionLine, SyncLine, CheckedLine,
      SleepLine, UnlockLine, LineWaits, SyncWaits, SyncEnds,
      CmdReset, CmdFlag, CmdSpindleStop, CmdJogCancel, DoorSwitch, CmdJogCancelFlag

\* What mc_reset() leaves has its types, wherever it is called.
LEMMA ResetTypes ==
  ASSUME RestTypes, NEW w
  PROVE  /\ Flagged => flags' \subseteq ExecState /\ spindle' \in BOOLEAN
         /\ Killed(w) => lost' \in BOOLEAN
         /\ AlarmOf(w) \in ExecAlarm
<1>1. ASSUME Flagged PROVE flags' \subseteq ExecState
  BY <1>1 DEF Flagged, RestTypes, ExecState
<1>2. ASSUME Flagged PROVE spindle' \in BOOLEAN
  BY <1>2 DEF Flagged, RestTypes
<1>3. ASSUME Killed(w) PROVE lost' \in BOOLEAN
  BY <1>3, Zenon DEF Killed
<1>4. AlarmOf(w) \in ExecAlarm
  BY DEF AlarmOf, RestTypes, ExecAlarm
<1> QED BY <1>1, <1>2, <1>3, <1>4

\* Everything else keeps its type.
LEMMA RestStep == Types /\ [Next]_vars => RestTypes'
<1> SUFFICES ASSUME Types, [Next]_vars PROVE RestTypes'
  OBVIOUS
<1>a. ASSUME flags' \subseteq ExecState, {modal', spindle', asked', again'} \subseteq BOOLEAN,
             UNCHANGED <<alarm, cycleStop, ovrStop, inflight, env, lost>>
      PROVE  RestTypes'
  <2>1. UNCHANGED <<client, doorOpen, lines, commands>>
    BY <1>a DEF env
  <2>2. RestTypes
    BY DEF Types
  <2>3. {modal', spindle', asked', again'} \subseteq BOOLEAN
    BY <1>a
  <2>4. modal' \in BOOLEAN /\ spindle' \in BOOLEAN /\ asked' \in BOOLEAN /\ again' \in BOOLEAN
    BY <2>3
  <2> QED BY <1>a, <2>1, <2>2, <2>4 DEF RestTypes
<1> USE DEF Types, rtVars, power, env, hist
<1>1. CASE Drain
  BY <1>1, ConstantTypes DEF Drain, RestTypes
<1>2. CASE RingEmpty
  BY <1>2, ConstantTypes DEF RingEmpty, RestTypes
<1>3. CASE AlarmSeen
  BY <1>3, ConstantTypes DEF AlarmSeen, RestTypes
<1>4. CASE AlarmDone
  BY <1>4, ConstantTypes DEF AlarmDone, ExecAlarm, RestTypes
<1>5. CASE CopyFlags
  BY <1>5, ConstantTypes DEF CopyFlags, RestTypes
<1>6. CASE Holds
  BY <1>6, ConstantTypes DEF Holds, RestTypes
<1>7. CASE StartNothing
  BY <1>7, ConstantTypes DEF StartNothing, RestTypes
<1>8. CASE StartRefused
  BY <1>8, ConstantTypes DEF StartRefused, RestTypes
<1>9. CASE StartCycle
  BY <1>9, ConstantTypes DEF StartCycle, RestTypes
<1>10. CASE WakeUp
  BY <1>10, ConstantTypes DEF WakeUp, RestTypes
<1>11. CASE CycleStop
  <2>1. cycleStop' \in BOOLEAN
    BY <1>11 DEF CycleStop, RestTypes
  <2>2. UNCHANGED <<flags, alarm, ovrStop, power, inflight, env, hist>>
    BY <1>11 DEF CycleStop
  <2> QED BY <2>1, <2>2 DEF RestTypes
<1>12. CASE Reload
  BY <1>12, ConstantTypes DEF Reload, RestTypes
<1>13. CASE Back
  BY <1>13, ConstantTypes DEF Back, RestTypes
<1>14. CASE SuspendEnds
  BY <1>14, ConstantTypes DEF SuspendEnds, RestTypes
<1>15. CASE AwaitRest
  BY <1>15, ConstantTypes DEF AwaitRest, RestTypes
<1>16. CASE StartRetract
  <2>1. flags' \subseteq ExecState
    BY <1>16 DEF StartRetract, SetSpindle, ExecState, RestTypes
  <2>2. modal' \in BOOLEAN /\ spindle' \in BOOLEAN
    BY <1>16 DEF StartRetract, SetSpindle, RestTypes
  <2>3. asked' \in BOOLEAN /\ again' \in BOOLEAN
    BY <1>16 DEF StartRetract, SetSpindle, RestTypes
  <2>4. UNCHANGED <<alarm, cycleStop, ovrStop, inflight, env, lost>>
    BY <1>16 DEF StartRetract
  <2> QED BY <1>a, <2>1, <2>2, <2>3, <2>4
<1>17. CASE PulledOut
  BY <1>17, ConstantTypes DEF PulledOut, SetSpindle, RestTypes
<1>18. CASE RetractEnds
  BY <1>18, ConstantTypes DEF RetractEnds, RestTypes
<1>19. CASE Asleep
  BY <1>19, ConstantTypes DEF Asleep, SetSpindle, RestTypes
<1>20. CASE DoorWait
  <2>1. flags' \subseteq ExecState
    BY <1>20 DEF DoorWait, Respun, SetSpindle, Restored, ExecState, RestTypes
  <2>2. modal' \in BOOLEAN /\ spindle' \in BOOLEAN
    BY <1>20 DEF DoorWait, Respun, SetSpindle, Restored, RestTypes
  <2>3. asked' \in BOOLEAN /\ again' \in BOOLEAN
    BY <1>20 DEF DoorWait, Respun, SetSpindle, Restored, RestTypes
  <2>4. UNCHANGED <<alarm, cycleStop, ovrStop, inflight, env, lost>>
    BY <1>20 DEF DoorWait
  <2> QED BY <1>a, <2>1, <2>2, <2>3, <2>4
<1>21. CASE Approached
  <2>1. flags' \subseteq ExecState
    BY <1>21 DEF Approached, Respun, SetSpindle, Restored, ExecState, RestTypes
  <2>2. modal' \in BOOLEAN /\ spindle' \in BOOLEAN
    BY <1>21 DEF Approached, Respun, SetSpindle, Restored, RestTypes
  <2>3. asked' \in BOOLEAN /\ again' \in BOOLEAN
    BY <1>21 DEF Approached, Respun, SetSpindle, Restored, RestTypes
  <2>4. UNCHANGED <<alarm, cycleStop, ovrStop, inflight, env, lost>>
    BY <1>21 DEF Approached
  <2> QED BY <1>a, <2>1, <2>2, <2>3, <2>4
<1>22. CASE PlungeEnds
  <2>1. flags' \subseteq ExecState
    BY <1>22 DEF PlungeEnds, Restored, ExecState, RestTypes
  <2>2. modal' \in BOOLEAN /\ spindle' \in BOOLEAN
    BY <1>22 DEF PlungeEnds, Restored, RestTypes
  <2>3. asked' \in BOOLEAN /\ again' \in BOOLEAN
    BY <1>22 DEF PlungeEnds, Restored, RestTypes
  <2>4. UNCHANGED <<alarm, cycleStop, ovrStop, inflight, env, lost>>
    BY <1>22 DEF PlungeEnds
  <2> QED BY <1>a, <2>1, <2>2, <2>3, <2>4
<1>23. CASE HoldManager
  <2>1. flags' \subseteq ExecState
    BY <1>23 DEF HoldManager, SetSpindle, ExecState, RestTypes
  <2>2. modal' \in BOOLEAN /\ spindle' \in BOOLEAN
    BY <1>23 DEF HoldManager, SetSpindle, RestTypes
  <2>3. asked' \in BOOLEAN /\ again' \in BOOLEAN
    BY <1>23 DEF HoldManager, SetSpindle, RestTypes
  <2>4. UNCHANGED <<alarm, cycleStop, ovrStop, inflight, env, lost>>
    BY <1>23 DEF HoldManager
  <2> QED BY <1>a, <2>1, <2>2, <2>3, <2>4
<1>24. CASE Reinit
  BY <1>24, ConstantTypes DEF Reinit, ExecAlarm, RestTypes
<1>25. CASE Boot
  BY <1>25, ConstantTypes DEF Boot, ExecState, RestTypes
<1>26. CASE Loop
  <2>1. flags' \subseteq ExecState
    BY <1>26 DEF Loop, AutoCycleStart, ExecState, RestTypes
  <2>2. modal' \in BOOLEAN /\ spindle' \in BOOLEAN
    BY <1>26 DEF Loop, AutoCycleStart, RestTypes
  <2>3. asked' \in BOOLEAN /\ again' \in BOOLEAN
    BY <1>26 DEF Loop, AutoCycleStart, RestTypes
  <2>4. UNCHANGED <<alarm, cycleStop, ovrStop, inflight, env, lost>>
    BY <1>26 DEF Loop
  <2> QED BY <1>a, <2>1, <2>2, <2>3, <2>4
<1>27. CASE ReadLine
  BY <1>27, ConstantTypes DEF ReadLine, RestTypes
<1>28. CASE LoopReturns
  BY <1>28, ConstantTypes DEF LoopReturns, RestTypes
<1>29. CASE CallReturns
  BY <1>29, ConstantTypes DEF CallReturns, RestTypes
<1>30. CASE Refused
  BY <1>30, ConstantTypes DEF Refused, RestTypes
<1>31. CASE MotionLine
  BY <1>31, ConstantTypes DEF MotionLine, RestTypes
<1>32. CASE SyncLine
  <2>1. flags' \subseteq ExecState
    BY <1>32 DEF SyncLine, Synchronize, AutoCycleStart, ExecState, RestTypes
  <2>2. modal' \in BOOLEAN /\ spindle' \in BOOLEAN
    BY <1>32 DEF SyncLine, Synchronize, AutoCycleStart, RestTypes
  <2>3. asked' \in BOOLEAN /\ again' \in BOOLEAN
    BY <1>32 DEF SyncLine, Synchronize, AutoCycleStart, RestTypes
  <2>4. UNCHANGED <<alarm, cycleStop, ovrStop, inflight, env, lost>>
    BY <1>32 DEF SyncLine
  <2> QED BY <1>a, <2>1, <2>2, <2>3, <2>4
<1>33. CASE CheckedLine
  BY <1>33, ConstantTypes DEF CheckedLine, RestTypes
<1>34. CASE SleepLine
  BY <1>34, ConstantTypes DEF SleepLine, ExecState, RestTypes
<1>35. CASE UnlockLine
  BY <1>35, ConstantTypes DEF UnlockLine, RestTypes
<1>36. CASE CheckLine
  <2>1. CASE UNCHANGED <<flags, alarm, timer, spindle, lost>>
    BY <1>36, <2>1 DEF CheckLine, RestTypes
  <2>2. CASE Flagged /\ Killed("reset" \notin flags) /\ alarm' = AlarmOf("reset" \notin flags)
    <3>1. flags' \subseteq ExecState /\ spindle' \in BOOLEAN /\ lost' \in BOOLEAN /\ alarm' \in ExecAlarm
      BY <2>2, ResetTypes
    <3> QED BY <1>36, <3>1 DEF CheckLine, RestTypes
  <2> QED BY <1>36, <2>1, <2>2 DEF CheckLine
<1>37. CASE BeyondLine
  <2>1. CASE UNCHANGED <<alarm, timer, spindle, lost>> /\ flags' = flags \union {"feedHold"}
    BY <1>37, <2>1 DEF BeyondLine, RestTypes, ExecState
  <2>2. CASE SoftReset
    <3>1. flags' \subseteq ExecState /\ spindle' \in BOOLEAN /\ lost' \in BOOLEAN /\ alarm' \in ExecAlarm
      BY <2>2, ResetTypes DEF SoftReset, ExecAlarm
    <3> QED BY <1>37, <3>1 DEF BeyondLine, RestTypes
  <2> QED BY <1>37, <2>1, <2>2 DEF BeyondLine
<1>38. CASE SoftWait
  <2>1. CASE UNCHANGED <<flags, alarm, timer, spindle, lost>>
    BY <1>38, <2>1 DEF SoftWait, RestTypes
  <2>2. CASE SoftReset
    <3>1. flags' \subseteq ExecState /\ spindle' \in BOOLEAN /\ lost' \in BOOLEAN /\ alarm' \in ExecAlarm
      BY <2>2, ResetTypes DEF SoftReset, ExecAlarm
    <3> QED BY <1>38, <3>1 DEF SoftWait, RestTypes
  <2> QED BY <1>38, <2>1, <2>2 DEF SoftWait
<1>39. CASE LineWaits
  <2>1. flags' \subseteq ExecState
    BY <1>39 DEF LineWaits, AutoCycleStart, ExecState, RestTypes
  <2>2. modal' \in BOOLEAN /\ spindle' \in BOOLEAN
    BY <1>39 DEF LineWaits, AutoCycleStart, RestTypes
  <2>3. asked' \in BOOLEAN /\ again' \in BOOLEAN
    BY <1>39 DEF LineWaits, AutoCycleStart, RestTypes
  <2>4. UNCHANGED <<alarm, cycleStop, ovrStop, inflight, env, lost>>
    BY <1>39 DEF LineWaits
  <2> QED BY <1>a, <2>1, <2>2, <2>3, <2>4
<1>40. CASE LineEnds
  BY <1>40, ConstantTypes DEF LineEnds, ExecState, RestTypes
<1>41. CASE JogWake
  BY <1>41, ConstantTypes DEF JogWake, RestTypes
<1>42. CASE SyncWaits
  BY <1>42, ConstantTypes DEF SyncWaits, RestTypes
<1>43. CASE SyncEnds
  <2>1. flags' \subseteq ExecState
    BY <1>43 DEF SyncEnds, SetSpindle, ExecState, RestTypes
  <2>2. modal' \in BOOLEAN /\ spindle' \in BOOLEAN
    BY <1>43 DEF SyncEnds, SetSpindle, RestTypes
  <2>3. asked' \in BOOLEAN /\ again' \in BOOLEAN
    BY <1>43 DEF SyncEnds, SetSpindle, RestTypes
  <2>4. UNCHANGED <<alarm, cycleStop, ovrStop, inflight, env, lost>>
    BY <1>43 DEF SyncEnds
  <2> QED BY <1>a, <2>1, <2>2, <2>3, <2>4
<1>44. CASE CmdReset
  <2>1. flags' \subseteq ExecState /\ spindle' \in BOOLEAN
    BY <1>44, ResetTypes DEF CmdReset
  <2>2. commands' \in 0 .. MaxCommands
    BY <1>44, ConstantTypes DEF CmdReset, Issue, RestTypes
  <2> QED BY <1>44, <2>1, <2>2 DEF CmdReset, RestTypes
<1>45. CASE CmdFlag
  BY <1>45, ConstantTypes DEF CmdFlag, Issue, ExecState, RestTypes
<1>46. CASE CmdSpindleStop
  BY <1>46, ConstantTypes DEF CmdSpindleStop, Issue, RestTypes
<1>47. CASE CmdJogCancel
  BY <1>47, ConstantTypes DEF CmdJogCancel, Issue, RestTypes
<1>48. CASE DoorSwitch
  <2>1. commands' \in 0 .. MaxCommands
    BY <1>48, ConstantTypes DEF DoorSwitch, Issue, RestTypes
  <2>2. doorOpen' \in BOOLEAN
    BY <1>48, Zenon DEF DoorSwitch
  <2>3. flags' \subseteq ExecState
    BY <1>48 DEF DoorSwitch, RestTypes, ExecState
  <2> QED BY <1>48, <2>1, <2>2, <2>3 DEF DoorSwitch, RestTypes
<1>49. CASE LimitSwitch
  <2>1. flags' \subseteq ExecState /\ spindle' \in BOOLEAN /\ lost' \in BOOLEAN
    BY <1>49, ResetTypes DEF LimitSwitch
  <2>2. commands' \in 0 .. MaxCommands
    BY <1>49, ConstantTypes DEF LimitSwitch, Issue, RestTypes
  <2>3. alarm' \in ExecAlarm
    BY <1>49 DEF LimitSwitch, ExecAlarm
  <2> QED BY <1>49, <2>1, <2>2, <2>3 DEF LimitSwitch, RestTypes
<1>50. CASE CmdResetKill
  BY <1>50, ConstantTypes DEF CmdResetKill, Killed, AlarmOf, ExecAlarm, RestTypes
<1>51. CASE CmdJogCancelFlag
  BY <1>51, ConstantTypes DEF CmdJogCancelFlag, ExecState, RestTypes
<1>52. CASE UNCHANGED vars
  BY <1>52 DEF vars, RestTypes
<1> QED
  BY <1>1, <1>2, <1>3, <1>4, <1>5, <1>6, <1>7, <1>8, <1>9, <1>10, <1>11, <1>12, <1>13, <1>14,
     <1>15, <1>16, <1>17, <1>18, <1>19, <1>20, <1>21, <1>22, <1>23, <1>24, <1>25, <1>26, <1>27,
     <1>28, <1>29, <1>30, <1>31, <1>32, <1>33, <1>34, <1>35, <1>36, <1>37, <1>38, <1>39, <1>40,
     <1>41, <1>42, <1>43, <1>44, <1>45, <1>46, <1>47, <1>48, <1>49, <1>50, <1>51, <1>52 DEF
     Next, Main, Interrupt, Clients, InCommand, ExecRtSystem, ExecRtSuspend, Program

\* The type invariant holds: of the planner, the system state and its copies, of
\* the places of the main task, and of the bounds, through every step of any task.
THEOREM TypeCorrect == Spec => []TypeOK
<1>1. Init => Types
  BY InitTypes
<1>2. Types /\ [Next]_vars => Types'
  BY SystemStep, PlaceStep, MotionStep, RestStep DEF Types
<1>3. Types => TypeOK
  BY TypesAreTypeOK
<1> QED BY <1>1, <1>2, <1>3, PTL DEF Spec

\* The parts hold of the specification, for the invariants below.
LEMMA TypesHold == Spec => []Types
<1>1. TypeOK => Types
  BY TypesAreTypeOK
<1> QED BY <1>1, TypeCorrect, PTL

-----------------------------------------------------------------------------
\* An abort has its reset pending until the system is initialised anew, or waits
\* in a critical alarm for another one: no pass of protocol_exec_rt_system() gets
\* past its test of the reset flag after an abort.
AbortPending ==
  sys.abort => /\ "reset" \in flags \/ main.step = "spin"
               /\ main.step \notin {"holds", "start", "wake", "stop", "prep", "boot"}

\* The loops of protocol_exec_rt_suspend() are left before the program goes on.
NestEnded ==
  /\ main.step \in {"reinit", "boot", "parse", "return", "jogWake"} => main.nest = "none"
  /\ main.step = "suspend" => main.nest = "suspend"
  /\ main.step = "parked" => main.nest \in ParkMotions

ControlInv == AbortPending /\ NestEnded

-----------------------------------------------------------------------------
\* What the steps do, field by field.

\* Two system states that agree on all but the state and the control bits.
Keeps(t, s) == /\ t.suspend = s.suspend /\ t.ovr = s.ovr
               /\ t.abort = s.abort /\ t.softLimit = s.softLimit

\* The place of the main task changes in its step only.
Stays == main'.nest = main.nest /\ main'.caller = main.caller /\ main'.rt = main.rt

\* A pending alarm changes the state, and a critical one takes the reset.
LEMMA AlarmSeenDoes ==
  ASSUME Types, AlarmSeen
  PROVE  /\ main.step = "alarm" /\ asked' = asked
         /\ Stays /\ Keeps(sys', sys) /\ sys'.ctl = sys.ctl
         /\ main'.step \in {"flags", "spin", "acknowledge"}
         /\ main'.step = "flags" => sys'.state = sys.state /\ alarm = "None"
         /\ main'.step # "flags" => sys'.state = "Alarm"
         /\ main'.step # "spin" => flags' = flags
         /\ flags' \subseteq flags /\ flags \ {"reset"} \subseteq flags'
<1> USE DEF Types
<1>u. main.step = "alarm" /\ asked' = asked
  BY DEF AlarmSeen, hist
<1>1. CASE alarm = "None"
  <2>1. Goto("flags") /\ sys' = sys /\ flags' = flags
    BY <1>1 DEF AlarmSeen
  <2> QED BY <1>u, <1>1, <2>1, Moves DEF Stays, Keeps, Steps
<1>2. CASE alarm # "None"
  <2>1. /\ sys' = [sys EXCEPT !.state = "Alarm"]
        /\ flags' = flags \ {f \in {"reset"} : alarm \in Critical}
        /\ Goto(IF alarm \in Critical THEN "spin" ELSE "acknowledge")
    BY <1>2 DEF AlarmSeen
  <2>2. /\ Stays /\ main'.step = IF alarm \in Critical THEN "spin" ELSE "acknowledge"
    BY <2>1, Moves DEF Stays, Steps
  <2>3. Keeps(sys', sys) /\ sys'.ctl = sys.ctl /\ sys'.state = "Alarm"
    BY <2>1 DEF Keeps, Systems
  <2> QED BY <1>u, <2>1, <2>2, <2>3
<1> QED BY <1>u, <1>1, <1>2

\* The copy of the flags goes on only without a reset.
LEMMA CopyFlagsDoes ==
  ASSUME Types, CopyFlags
  PROVE  /\ main.step = "flags" /\ flags' = flags /\ asked' = asked
         /\ main'.nest = main.nest /\ main'.rt = flags
         /\ sys'.suspend = sys.suspend /\ sys'.ovr = sys.ovr /\ sys'.state = sys.state
         /\ sys'.softLimit = sys.softLimit /\ sys'.ctl = sys.ctl
         /\ "reset" \in flags => main'.step = "back" /\ sys'.abort
         /\ "reset" \notin flags => /\ main'.step \in {"holds", "prep"}
                                    /\ flags # {} => main'.step = "holds"
                                    /\ ~sys.abort => ~sys'.abort
<1> USE DEF Types
<1>u. main.step = "flags" /\ flags' = flags /\ asked' = asked
  BY DEF CopyFlags, rtVars, hist
<1>1. /\ sys'.suspend = sys.suspend /\ sys'.ovr = sys.ovr /\ sys'.state = sys.state
      /\ sys'.softLimit = sys.softLimit /\ sys'.ctl = sys.ctl
      /\ sys'.abort = (sys.abort \/ "reset" \in flags)
  BY DEF CopyFlags, Systems
<1>3. CASE "reset" \in flags
  <2>1. main' = [main EXCEPT !.rt = flags, !.step = "back"]
    BY <1>3 DEF CopyFlags
  <2> QED BY <1>u, <1>1, <1>3, <2>1 DEF Places
<1>4. CASE "reset" \notin flags
  <2>1. PICK n \in {"holds", "prep"} : /\ main' = [main EXCEPT !.rt = flags, !.step = n]
                                       /\ flags # {} => n = "holds"
    BY <1>4 DEF CopyFlags
  <2>2. ~sys.abort => ~sys'.abort
    BY <1>1, <1>4, Zenon
  <2> QED BY <1>u, <1>1, <1>4, <2>1, <2>2 DEF Places
<1> QED BY <1>u, <1>3, <1>4

\* A cycle start that starts no motion resumes or restores only what is at rest.
LEMMA StartRefusedDoes ==
  ASSUME Types, StartRefused
  PROVE  /\ main.step = "start" /\ ~asked'
         /\ Stays /\ main'.step = "stop"
         /\ sys'.abort = sys.abort /\ sys'.softLimit = sys.softLimit
         /\ "cycleStart" \in main.rt
         /\ flags' = flags \ {"cycleStart"}
         /\ sys'.state \in {sys.state, "Idle"}
         /\ sys'.suspend \ sys.suspend \subseteq {"initiateRestore"}
         /\ sys'.ovr \ sys.ovr \subseteq {"restoreCycle"}
         /\ "initiateRestore" \in sys'.suspend \ sys.suspend =>
              /\ ~Blocked(main.rt) /\ sys.state = "SafetyDoor" /\ sys'.state = "SafetyDoor"
              /\ "retractComplete" \in sys.suspend /\ "safetyDoorAjar" \notin sys.suspend
         /\ "restoreCycle" \in sys'.ovr \ sys.ovr =>
              ~Blocked(main.rt) /\ sys.state = "Hold" /\ "holdComplete" \in sys.suspend
         /\ sys'.state # sys.state => sys'.suspend = {}
<1> USE DEF Types
<1> DEFINE s == DoorResume(sys)
<1>u. main.step = "start" /\ ~asked'
  BY DEF StartRefused
<1>1. Stays /\ main'.step = "stop" /\ "cycleStart" \in main.rt /\ flags' = flags \ {"cycleStart"}
  BY Moves DEF StartRefused, Stays, Steps
<1>2. CASE Blocked(main.rt) /\ sys' = sys
  BY <1>u, <1>1, <1>2
<1>3. CASE ~Blocked(main.rt) /\ sys' # sys
  <2>0. s \in Systems
    BY StartTypes
  <2>1. /\ s.abort = sys.abort /\ s.softLimit = sys.softLimit /\ s.ovr = sys.ovr /\ s.ctl = sys.ctl
        /\ s.state \in {sys.state, "Idle"}
        /\ s.suspend \ sys.suspend \subseteq {"initiateRestore"}
        /\ "initiateRestore" \in s.suspend \ sys.suspend =>
             /\ sys.state = "SafetyDoor" /\ s.state = "SafetyDoor"
             /\ "retractComplete" \in sys.suspend /\ "safetyDoorAjar" \notin sys.suspend
        /\ sys.state = "Hold" => s = sys
        /\ s.state = "Hold" => sys.state = "Hold"
    BY DEF DoorResume, Systems
  <2> HIDE DEF s
  <2>2. \/ ~Startable(s) /\ sys' = s
        \/ Startable(s) /\ RestoreFirst(s) /\ sys' = [s EXCEPT !.ovr = @ \union {"restoreCycle"}]
        \/ sys' = Running(s, "Idle")
    BY <1>3 DEF StartRefused, s
  <2>3. CASE ~Startable(s) /\ sys' = s
    BY <1>u, <1>1, <1>3, <2>1, <2>3 DEF Startable
  <2>4. CASE Startable(s) /\ RestoreFirst(s) /\ sys' = [s EXCEPT !.ovr = @ \union {"restoreCycle"}]
    <3>1. /\ s.state = "Hold" /\ "holdComplete" \in s.suspend
          /\ sys'.state = s.state /\ sys'.suspend = s.suspend /\ sys'.abort = s.abort
          /\ sys'.softLimit = s.softLimit /\ sys'.ovr = s.ovr \union {"restoreCycle"}
      BY <2>0, <2>4 DEF Startable, RestoreFirst, Systems
    <3> QED BY <1>u, <1>1, <1>3, <2>1, <3>1
  <2>5. CASE sys' = Running(s, "Idle")
    <3>1. /\ sys'.state = "Idle" /\ sys'.suspend = {} /\ sys'.abort = s.abort
          /\ sys'.softLimit = s.softLimit /\ sys'.ovr = s.ovr
      BY <2>0, <2>5 DEF Running, Systems
    <3> QED BY <1>u, <1>1, <2>1, <3>1
  <2> QED BY <2>2, <2>3, <2>4, <2>5
<1>4. CASE sys' = sys
  BY <1>u, <1>1, <1>4
<1> QED BY <1>u, <1>2, <1>3, <1>4 DEF StartRefused

\* A cycle starts from Idle, from a complete hold, or from a complete restore.
LEMMA StartCycleDoes ==
  ASSUME Types, StartCycle
  PROVE  /\ main.step = "start" /\ flags' = flags /\ asked' = asked
         /\ Stays /\ main'.step = "wake"
         /\ "cycleStart" \in main.rt /\ ~Blocked(main.rt)
         /\ sys'.abort = sys.abort /\ sys'.softLimit = sys.softLimit /\ sys'.ovr = sys.ovr
         /\ sys'.state = "Cycle" /\ sys'.suspend = {}
         /\ \/ sys.state = "Idle"
            \/ sys.state = "Hold" /\ "holdComplete" \in sys.suspend /\ sys.ovr = {}
            \/ sys.state = "SafetyDoor" /\ {"restoreComplete"} \subseteq sys.suspend
               /\ "safetyDoorAjar" \notin sys.suspend
<1> USE DEF Types
<1> DEFINE s == DoorResume(sys)
           t == Running(s, "Cycle")
<1>u. main.step = "start" /\ flags' = flags /\ asked' = asked
  BY DEF StartCycle, rtVars, hist
<1>1. Stays /\ main'.step = "wake" /\ "cycleStart" \in main.rt /\ ~Blocked(main.rt)
  BY Moves DEF StartCycle, Stays, Steps
<1>2. s \in Systems /\ t \in Systems
  BY StartTypes DEF State
<1>3. /\ s.abort = sys.abort /\ s.softLimit = sys.softLimit /\ s.ovr = sys.ovr
      /\ s.state = "Idle" => \/ sys.state = "Idle"
                             \/ /\ sys.state = "SafetyDoor" /\ "restoreComplete" \in sys.suspend
                                /\ "safetyDoorAjar" \notin sys.suspend
      /\ s.state = "Hold" => s = sys
  BY DEF DoorResume, Systems
<1>4. PrepBuffer(t) /\ Startable(s) /\ ~RestoreFirst(s)
  BY DEF StartCycle
<1>5. /\ t.state = "Cycle" /\ t.suspend = {} /\ t.abort = s.abort /\ t.ovr = s.ovr
      /\ t.softLimit = s.softLimit
  BY <1>2 DEF Running, Systems
<1> HIDE DEF s, t
<1>6. /\ sys'.state = "Cycle" /\ sys'.suspend = {} /\ sys'.abort = s.abort /\ sys'.ovr = s.ovr
      /\ sys'.softLimit = s.softLimit
  BY <1>2, <1>4, <1>5, PrepTypes DEF MotionTypes
<1> QED BY <1>u, <1>1, <1>3, <1>4, <1>6 DEF Startable, RestoreFirst

\* The reload takes the spindle stop override, and nothing else but control bits.
LEMMA ReloadDoes ==
  ASSUME Types, Reload
  PROVE  /\ main.step = "prep" /\ flags' = flags /\ asked' = asked
         /\ Stays /\ main'.step = "back"
         /\ sys'.state = sys.state /\ sys'.suspend = sys.suspend
         /\ sys'.abort = sys.abort /\ sys'.softLimit = sys.softLimit
         /\ sys'.ovr \subseteq sys.ovr \union {"initiate", "restore"}
<1> USE DEF Types
<1> DEFINE s == Override(sys)
<1>u. main.step = "prep" /\ flags' = flags /\ asked' = asked
  BY DEF Reload, hist
<1>1. /\ s \in Systems /\ s.state = sys.state /\ s.suspend = sys.suspend
      /\ s.abort = sys.abort /\ s.softLimit = sys.softLimit
      /\ s.ovr \subseteq sys.ovr \union {"initiate", "restore"}
  <2>1. s \in Systems
    BY StartTypes
  <2> QED BY <2>1 DEF Override, Systems
<1> HIDE DEF s
<1>2. Stays /\ main'.step = "back"
  BY Moves DEF Reload, Stays, Steps
<1>3. PrepBuffer(s) \/ sys' = s
  BY DEF Reload, s
<1>4. Keeps(sys', s) /\ sys'.state = s.state
  BY <1>1, <1>3, PrepTypes DEF MotionTypes, Keeps
<1> QED BY <1>u, <1>1, <1>2, <1>4 DEF Keeps

\* Where protocol_execute_realtime() goes back to.
LEMMA BackDoes ==
  ASSUME Types, Back
  PROVE  /\ main.step = "back" /\ sys' = sys /\ flags' = flags /\ asked' = asked
         /\ main'.caller = main.caller /\ main'.rt = main.rt
         /\ main.nest = "none" =>
              IF sys.suspend = {} THEN main'.nest = "none" /\ main'.step = "return"
              ELSE main'.nest = "suspend" /\ main'.step = "suspend"
         /\ main.nest = "suspend" => main'.nest = "suspend" /\ main'.step = "suspend"
         /\ main.nest = "sleep" =>
              IF sys.abort THEN main'.nest = "none" /\ main'.step = "return"
              ELSE main'.nest = "sleep" /\ main'.step = "alarm"
         /\ main.nest \in ParkMotions =>
              /\ main'.nest = main.nest
              /\ main'.step = IF sys.abort \/ "executeSysMotion" \notin sys.ctl THEN "parked" ELSE "alarm"
BY DEF Types, Places, Back, ParkMotions, rtVars, hist

\* The end of the retraction.
LEMMA RetractedDoes ==
  ASSUME NEW s \in Systems
  PROVE  /\ Retracted(s).state = s.state /\ Retracted(s).ovr = s.ovr
         /\ Retracted(s).abort = s.abort /\ Retracted(s).softLimit = s.softLimit
         /\ Retracted(s).suspend = (s.suspend \ {"restartRetract"}) \union {"retractComplete"}
BY DEF Retracted, Systems

\* The start of the retraction: the spindle goes off with it, unless a motion
\* pulls the tool out first.
LEMMA StartRetractDoes ==
  ASSUME Types, StartRetract
  PROVE  /\ flags' = flags /\ asked' = asked
         /\ Looping /\ InHold /\ Parked /\ ~Arrived
         /\ main'.step = "alarm" /\ main'.rt = main.rt
         /\ main'.nest \in {"pullOut", "retract", "suspend"}
         /\ sys'.state = sys.state /\ sys'.ovr = {} /\ ~sys'.abort /\ sys'.softLimit = sys.softLimit
         /\ main'.nest # "suspend" => sys'.suspend = sys.suspend
         /\ main'.nest = "suspend" =>
              sys'.suspend = (sys.suspend \ {"restartRetract"}) \union {"retractComplete"}
         /\ spindle' = IF main'.nest = "pullOut" THEN spindle ELSE FALSE
<1> USE DEF Types
<1> DEFINE s == [sys EXCEPT !.ovr = {}]
<1>u. flags' = flags /\ asked' = asked
  BY DEF StartRetract, rtVars, hist
<1>1. /\ s \in Systems /\ s.state = sys.state /\ s.suspend = sys.suspend /\ s.ovr = {}
      /\ s.abort = sys.abort /\ s.softLimit = sys.softLimit
  <2>1. s \in Systems
    BY SuspendTypes
  <2> QED BY <2>1 DEF Systems
<1>2. /\ Looping /\ InHold /\ Parked /\ ~Arrived
      /\ \/ ParkMotion("pullOut", s) /\ UNCHANGED spindle
         \/ ParkMotion("retract", s) /\ SetSpindle(FALSE)
         \/ sys' = Retracted(s) /\ SetSpindle(FALSE) /\ ExecIn("suspend")
  BY DEF StartRetract, s
<1> HIDE DEF s
<1>3. ~sys.abort
  BY <1>2 DEF Looping
<1>4. CASE ParkMotion("pullOut", s) /\ UNCHANGED spindle
  BY <1>u, <1>1, <1>2, <1>3, <1>4, ParkTypes DEF ParkMotions
<1>5. CASE ParkMotion("retract", s) /\ SetSpindle(FALSE)
  BY <1>u, <1>1, <1>2, <1>3, <1>5, ParkTypes DEF ParkMotions, SetSpindle
<1>6. CASE sys' = Retracted(s) /\ SetSpindle(FALSE) /\ ExecIn("suspend")
  <2>1. main'.step = "alarm" /\ main'.rt = main.rt /\ main'.nest = "suspend"
    BY <1>6, Moves DEF Nests
  <2>2. spindle' = FALSE
    BY <1>3, <1>6 DEF SetSpindle
  <2>3. /\ sys'.state = s.state /\ sys'.ovr = s.ovr /\ sys'.abort = s.abort
        /\ sys'.softLimit = s.softLimit
        /\ sys'.suspend = (s.suspend \ {"restartRetract"}) \union {"retractComplete"}
    BY <1>1, <1>6, RetractedDoes
  <2> QED BY <1>u, <1>1, <1>2, <1>3, <2>1, <2>2, <2>3
<1> QED BY <1>u, <1>2, <1>4, <1>5, <1>6

\* The tool is out: the spindle goes off, and the retraction goes on or is over.
LEMMA PulledOutDoes ==
  ASSUME Types, PulledOut
  PROVE  /\ flags' = flags /\ asked' = asked
         /\ main.nest = "pullOut" /\ main.step = "parked" /\ main'.rt = main.rt
         /\ main'.nest \in {"retract", "suspend"}
         /\ main'.step = IF main'.nest = "retract" /\ sys.abort THEN "parked" ELSE "alarm"
         /\ sys'.state = sys.state /\ sys'.ovr = sys.ovr
         /\ sys'.abort = sys.abort /\ sys'.softLimit = sys.softLimit
         /\ main'.nest = "retract" => sys'.suspend = sys.suspend
         /\ main'.nest = "suspend" =>
              sys'.suspend = (sys.suspend \ {"restartRetract"}) \union {"retractComplete"}
         /\ spindle' = IF sys.abort THEN spindle ELSE FALSE
<1> USE DEF Types
<1>u. flags' = flags /\ asked' = asked
  BY DEF PulledOut, rtVars, hist
<1>1. main.nest = "pullOut" /\ main.step = "parked" /\ SetSpindle(FALSE)
  BY DEF PulledOut, At
<1>2. CASE ParkMotion("retract", sys)
  BY <1>u, <1>1, <1>2, ParkTypes DEF ParkMotions, SetSpindle
<1>3. CASE sys' = Retracted(sys) /\ ExecIn("suspend")
  BY <1>u, <1>1, <1>3, RetractedDoes, Moves DEF Nests, SetSpindle
<1> QED BY <1>u, <1>2, <1>3 DEF PulledOut

\* The wait at the parking position: for the user, or the first restore motion,
\* or the whole restore where there is none.
LEMMA DoorWaitDoes ==
  ASSUME Types, DoorWait
  PROVE  /\ Looping /\ InHold /\ Arrived /\ sys.state = "SafetyDoor"
         /\ main'.step = "alarm" /\ main'.rt = main.rt
         /\ main'.nest \in {"approach", "suspend"}
         /\ sys'.state = sys.state /\ sys'.ovr = sys.ovr
         /\ ~sys'.abort /\ sys'.softLimit = sys.softLimit
         /\ sys'.suspend \ sys.suspend \subseteq {"restoreComplete"}
         /\ sys.suspend \ sys'.suspend \subseteq {"safetyDoorAjar"}
         /\ main'.nest = "approach" => spindle' = spindle /\ "initiateRestore" \in sys.suspend
         /\ "restoreComplete" \in sys'.suspend \ sys.suspend => main'.nest = "suspend"
         /\ \/ flags' = flags /\ asked' = asked
            \/ flags' = flags \union {"cycleStart"} /\ asked' = TRUE
         /\ "initiateRestore" \notin sys.suspend => spindle' = spindle
<1> USE DEF Types
<1> DEFINE s == DoorChecked
<1>1. /\ s \in Systems /\ s.state = sys.state /\ s.ovr = sys.ovr
      /\ s.abort = sys.abort /\ s.softLimit = sys.softLimit
      /\ s.suspend \subseteq sys.suspend /\ sys.suspend \ s.suspend \subseteq {"safetyDoorAjar"}
  <2>1. s \in Systems
    BY SuspendTypes
  <2> QED BY <2>1 DEF DoorChecked, Systems
<1> HIDE DEF s
<1>2. /\ Looping /\ InHold /\ Arrived /\ sys.state = "SafetyDoor"
      /\ \/ /\ "initiateRestore" \notin s.suspend /\ sys' = s /\ ExecIn("suspend")
            /\ UNCHANGED <<spindle, flags, asked>>
         \/ /\ "initiateRestore" \in s.suspend /\ ParkMotion("approach", s)
            /\ UNCHANGED <<spindle, flags, asked>>
         \/ /\ "initiateRestore" \in s.suspend /\ Restored(s) /\ ExecIn("suspend")
  BY DEF DoorWait, s
<1>3. ~sys.abort
  BY <1>2 DEF Looping
<1>4. CASE /\ "initiateRestore" \notin s.suspend /\ sys' = s /\ ExecIn("suspend")
           /\ UNCHANGED <<spindle, flags, asked>>
  BY <1>1, <1>2, <1>3, <1>4, Moves DEF Nests
<1>5. CASE /\ "initiateRestore" \in s.suspend /\ ParkMotion("approach", s)
           /\ UNCHANGED <<spindle, flags, asked>>
  BY <1>1, <1>2, <1>3, <1>5, ParkTypes DEF ParkMotions
<1>6. CASE "initiateRestore" \in s.suspend /\ Restored(s) /\ ExecIn("suspend")
  <2>1. /\ sys'.state = s.state /\ sys'.ovr = s.ovr /\ sys'.abort = s.abort
        /\ sys'.softLimit = s.softLimit
        /\ sys'.suspend \in {s.suspend, s.suspend \union {"restoreComplete"}}
        /\ \/ flags' = flags /\ asked' = asked
           \/ flags' = flags \union {"cycleStart"} /\ asked' = TRUE
    BY <1>1, <1>6 DEF Restored, Systems
  <2> QED BY <1>1, <1>2, <1>3, <1>6, <2>1, Moves DEF Nests
<1> QED BY <1>2, <1>4, <1>5, <1>6

\* The first restore motion is over: the spindle goes on, and the second one
\* begins, unless the door has opened meanwhile.
LEMMA ApproachedDoes ==
  ASSUME Types, Approached
  PROVE  /\ main.nest = "approach" /\ main.step = "parked" /\ main'.rt = main.rt
         /\ main'.nest \in {"plunge", "suspend"}
         /\ main'.step = IF main'.nest = "plunge" /\ sys.abort THEN "parked" ELSE "alarm"
         /\ sys'.state = sys.state /\ Keeps(sys', sys)
         /\ flags' = flags /\ asked' = asked
         /\ "restartRetract" \in sys.suspend <=> main'.nest = "suspend"
         /\ "restartRetract" \in sys.suspend => spindle' = spindle
         /\ sys.abort => spindle' = spindle
         /\ spindle' \in {spindle, modal}
<1> USE DEF Types
<1>1. main.nest = "approach" /\ main.step = "parked" /\ Respun(sys)
  BY DEF Approached, At
<1>2. /\ "restartRetract" \in sys.suspend => spindle' = spindle
      /\ sys.abort => spindle' = spindle
      /\ spindle' \in {spindle, modal}
  BY <1>1 DEF Respun, SetSpindle, RestTypes
<1>3. CASE /\ "restartRetract" \notin sys.suspend /\ ParkMotion("plunge", sys)
           /\ UNCHANGED <<flags, asked>>
  BY <1>1, <1>2, <1>3, ParkTypes DEF ParkMotions, Keeps
<1>4. CASE /\ "restartRetract" \in sys.suspend /\ Restored(sys) /\ ExecIn("suspend")
  BY <1>1, <1>2, <1>4, Moves DEF Nests, Restored, Keeps
<1> QED BY <1>3, <1>4 DEF Approached

\* The second restore motion is over, and with it the restore.
LEMMA PlungeEndsDoes ==
  ASSUME Types, PlungeEnds
  PROVE  /\ main.nest = "plunge" /\ main.step = "parked" /\ main'.rt = main.rt
         /\ main'.nest = "suspend" /\ main'.step = "alarm"
         /\ sys'.state = sys.state /\ sys'.ovr = sys.ovr
         /\ sys'.abort = sys.abort /\ sys'.softLimit = sys.softLimit
         /\ sys'.suspend = sys.suspend \union
              {b \in {"restoreComplete"} : "restartRetract" \notin sys.suspend}
         /\ \/ flags' = flags /\ asked' = asked
            \/ flags' = flags \union {"cycleStart"} /\ asked' = TRUE
<1> USE DEF Types
<1>1. /\ main.nest = "plunge" /\ main.step = "parked" /\ Restored(sys) /\ ExecIn("suspend")
  BY DEF PlungeEnds, At
<1>2. main'.rt = main.rt /\ main'.nest = "suspend" /\ main'.step = "alarm"
  BY <1>1, Moves DEF Nests
<1>3. CASE "restartRetract" \in sys.suspend
  BY <1>1, <1>2, <1>3 DEF Restored
<1>4. CASE "restartRetract" \notin sys.suspend
  <2>1. /\ sys' = [sys EXCEPT !.suspend = @ \union {"restoreComplete"}]
        /\ flags' = flags \union {"cycleStart"} /\ asked' = TRUE
    BY <1>1, <1>4 DEF Restored
  <2>2. /\ sys'.state = sys.state /\ sys'.ovr = sys.ovr /\ sys'.abort = sys.abort
        /\ sys'.softLimit = sys.softLimit
        /\ sys'.suspend = sys.suspend \union {"restoreComplete"}
    BY <2>1 DEF Systems
  <2> QED BY <1>1, <1>2, <1>4, <2>1, <2>2
<1> QED BY <1>3, <1>4

\* The hold manager works on the spindle and its override alone.
LEMMA HoldManagerDoes ==
  ASSUME Types, HoldManager
  PROVE  /\ Looping /\ InHold /\ ~Parked
         /\ main'.step = "alarm" /\ main'.nest = "suspend" /\ main'.rt = main.rt
         /\ sys'.state = sys.state /\ sys'.suspend = sys.suspend
         /\ ~sys'.abort /\ sys'.softLimit = sys.softLimit
         /\ sys'.ovr \subseteq sys.ovr \union {"enabled"}
         /\ \/ flags' = flags /\ asked' = asked
            \/ flags' = flags \union {"cycleStart"} /\ asked' = TRUE
<1> USE DEF Types
<1>1. Looping /\ InHold /\ ~Parked /\ ExecIn("suspend") /\ ~sys.abort
  BY DEF HoldManager, Looping
<1>2. main'.step = "alarm" /\ main'.nest = "suspend" /\ main'.rt = main.rt
  BY <1>1, Moves DEF Nests
<1>3. /\ sys'.state = sys.state /\ sys'.suspend = sys.suspend /\ sys'.abort = sys.abort
      /\ sys'.softLimit = sys.softLimit /\ sys'.ovr \subseteq sys.ovr \union {"enabled"}
  BY DEF HoldManager, Systems
<1>4. \/ flags' = flags /\ asked' = asked
      \/ flags' = flags \union {"cycleStart"} /\ asked' = TRUE
  <2>1. CASE UNCHANGED <<flags, asked>>
    BY <2>1
  <2>2. CASE /\ flags' = flags \union {f \in {"cycleStart"} : "restoreCycle" \in sys.ovr}
             /\ asked' = (asked \/ "restoreCycle" \in sys.ovr)
    <3>1. CASE "restoreCycle" \in sys.ovr
      <4>1. asked' = TRUE
        BY <2>2, <3>1, Zenon
      <4> QED BY <2>2, <3>1, <4>1
    <3>2. CASE "restoreCycle" \notin sys.ovr
      <4>1. asked' = asked
        BY <2>2, <3>2, Zenon DEF RestTypes
      <4>2. flags' = flags
        BY <2>2, <3>2
      <4> QED BY <4>1, <4>2
    <3> QED BY <3>1, <3>2
  <2> QED BY <2>1, <2>2 DEF HoldManager
<1> QED BY <1>1, <1>2, <1>3, <1>4

\* reset_variables() leaves the state alone.
LEMMA ReinitDoes ==
  ASSUME Types, Reinit
  PROVE  /\ main.step = "reinit"
         /\ main'.nest = "none" /\ main'.step = "boot" /\ main'.rt = {}
         /\ sys'.state = sys.state /\ sys'.suspend = {} /\ sys'.ovr = {} /\ sys'.ctl = {}
         /\ ~sys'.abort /\ ~sys'.softLimit
         /\ flags' = {} /\ alarm' = "None" /\ ~spindle' /\ ~timer' /\ ~asked'
BY DEF Types, Places, Systems, Reinit, SysReset

\* The start of the main loop.
LEMMA BootDoes ==
  ASSUME Types, Boot
  PROVE  /\ asked' = asked
         /\ main.step = "boot" /\ main'.nest = main.nest /\ main'.rt = main.rt
         /\ main'.step \in {"parse", "alarm"}
         /\ Keeps(sys', sys) /\ sys'.state \in {"Alarm", "Idle"}
         /\ flags \subseteq flags' /\ flags' \subseteq flags \union {"safetyDoor"}
<1> USE DEF Types
<1>u. asked' = asked
  BY DEF Boot, hist
<1>1. Keeps(sys', sys) /\ sys'.state \in {"Alarm", "Idle"}
  BY DEF Boot, Systems, Keeps
<1>2. main'.nest = main.nest /\ main'.rt = main.rt /\ main'.step \in {"parse", "alarm"}
  BY Moves DEF Boot, Callers, Steps
<1> QED BY <1>u, <1>1, <1>2 DEF Boot

\* $C enters the check mode, or leaves it by a reset.
LEMMA CheckLineDoes ==
  ASSUME Types, CheckLine
  PROVE  /\ asked' = asked
         /\ Returned({"eol"}) /\ ~sys.abort
         /\ main'.nest = main.nest /\ main'.rt = main.rt /\ main'.step = "parse"
         /\ Keeps(sys', sys) /\ sys'.ctl = sys.ctl /\ sys'.state = "CheckMode"
         /\ flags \subseteq flags' /\ flags' \subseteq flags \union {"reset"}
<1> USE DEF Types
<1>u. asked' = asked
  BY DEF CheckLine, hist
<1>1. Returned({"eol"}) /\ ~sys.abort /\ Goto("parse")
  BY DEF CheckLine, Executing
<1>2. main'.nest = main.nest /\ main'.rt = main.rt /\ main'.step = "parse"
  BY <1>1, Moves DEF Steps
<1>3. Keeps(sys', sys) /\ sys'.ctl = sys.ctl /\ sys'.state = "CheckMode"
  BY DEF CheckLine, Systems, Keeps
<1>4. flags \subseteq flags' /\ flags' \subseteq flags \union {"reset"}
  BY DEF CheckLine, Flagged
<1> QED BY <1>u, <1>1, <1>2, <1>3, <1>4

\* A target beyond the soft limits asks for a hold or for a reset.
LEMMA BeyondLineDoes ==
  ASSUME Types, BeyondLine
  PROVE  /\ asked' = asked
         /\ Returned({"eol"}) /\ ~sys.abort
         /\ main'.nest = main.nest /\ main'.rt = main.rt /\ main'.step = "alarm"
         /\ sys'.state = sys.state /\ sys'.suspend = sys.suspend /\ sys'.ovr = sys.ovr
         /\ sys'.ctl = sys.ctl /\ sys'.abort = sys.abort /\ sys'.softLimit
         /\ flags \subseteq flags' /\ flags' \subseteq flags \union {"reset", "feedHold"}
<1> USE DEF Types
<1>u. asked' = asked
  BY DEF BeyondLine, hist
<1>1. Returned({"eol"}) /\ ~sys.abort
  BY DEF BeyondLine, Executing
<1>2. Exec("soft") \/ Exec("softReset")
  BY DEF BeyondLine, SoftReset
<1>3. main'.nest = main.nest /\ main'.rt = main.rt /\ main'.step = "alarm"
  BY <1>2, Moves DEF Callers
<1>4. /\ sys'.state = sys.state /\ sys'.suspend = sys.suspend /\ sys'.ovr = sys.ovr
      /\ sys'.ctl = sys.ctl /\ sys'.abort = sys.abort /\ sys'.softLimit
  BY DEF BeyondLine, Systems
<1>5. flags \subseteq flags' /\ flags' \subseteq flags \union {"reset", "feedHold"}
  BY DEF BeyondLine, SoftReset, Flagged
<1> QED BY <1>u, <1>1, <1>3, <1>4, <1>5

\* The wait for the hold of a soft limit, and its reset.
LEMMA SoftWaitDoes ==
  ASSUME Types, SoftWait
  PROVE  /\ asked' = asked
         /\ Returned({"soft"}) /\ sys' = sys
         /\ main'.nest = main.nest /\ main'.rt = main.rt /\ main'.step \in {"parse", "alarm"}
         /\ flags \subseteq flags' /\ flags' \subseteq flags \union {"reset"}
<1> USE DEF Types
<1>u. asked' = asked
  BY DEF SoftWait, hist
<1>1. Goto("parse") \/ Exec("soft") \/ Exec("softReset")
  BY DEF SoftWait, SoftReset
<1>2. main'.nest = main.nest /\ main'.rt = main.rt /\ main'.step \in {"parse", "alarm"}
  BY <1>1, Moves DEF Callers, Steps
<1>3. flags \subseteq flags' /\ flags' \subseteq flags \union {"reset"}
  BY DEF SoftWait, SoftReset, Flagged
<1> QED BY <1>u, <1>2, <1>3 DEF SoftWait

\* The end of mc_line(), and of the line or of the jog that called it.
LEMMA LineEndsDoes ==
  ASSUME Types, LineEnds
  PROVE  /\ asked' = asked
         /\ main.step = "return"
         /\ main'.nest = main.nest /\ main'.rt = main.rt
         /\ main'.step \in {"alarm", "parse", "jogWake"}
         /\ Keeps(sys', sys) /\ sys'.state \in {sys.state, "Jog"}
         /\ sys'.state # sys.state => sys.state = "Idle" /\ ~sys.abort
         /\ flags \subseteq flags' /\ flags' \subseteq flags \union {"cycleStart"}
         /\ flags' # flags => main'.step = "alarm"
<1> USE DEF Types
<1>u. asked' = asked
  BY DEF LineEnds, hist
<1>1. main.step = "return"
  BY DEF LineEnds, Returned
<1>2. \/ Exec("syncPause") /\ sys' = sys /\ flags' = flags \union {f \in {"cycleStart"} : flags' # flags}
      \/ /\ Goto("jogWake") /\ flags' = flags /\ sys.state = "Idle" /\ ~sys.abort
         /\ \E c : sys' = [sys EXCEPT !.state = "Jog", !.ctl = c]
      \/ Goto("parse") /\ sys' = sys /\ flags' = flags
  BY DEF LineEnds
<1>3. CASE Exec("syncPause") /\ sys' = sys /\ flags' = flags \union {f \in {"cycleStart"} : flags' # flags}
  BY <1>u, <1>1, <1>3, Moves DEF Callers, Keeps
<1>4. CASE /\ Goto("jogWake") /\ flags' = flags /\ sys.state = "Idle" /\ ~sys.abort
           /\ \E c : sys' = [sys EXCEPT !.state = "Jog", !.ctl = c]
  <2>1. Keeps(sys', sys) /\ sys'.state = "Jog"
    BY <1>4 DEF Keeps, Systems
  <2> QED BY <1>u, <1>1, <1>4, <2>1, Moves DEF Steps
<1>5. CASE Goto("parse") /\ sys' = sys /\ flags' = flags
  BY <1>u, <1>1, <1>5, Moves DEF Steps, Keeps
<1> QED BY <1>u, <1>2, <1>3, <1>4, <1>5

\* The hold branch leads to the cycle start, with its flags taken.
LEMMA HoldsDoes ==
  ASSUME Types, Holds
  PROVE  /\ asked' = asked
         /\ main.step = "holds" /\ Stays /\ main'.step = "start"
         /\ flags' \subseteq flags /\ flags \ HoldFlags \subseteq flags'
         /\ IF main.rt \intersect HoldFlags = {} THEN sys' = sys
            ELSE sys' = Slept(Stopping(sys, main.rt), main.rt)
<1>u. asked' = asked
  BY DEF Holds, hist
<1>1. Stays /\ main'.step = "start"
  BY Moves DEF Types, Holds, Stays, Steps
<1> QED BY <1>u, <1>1 DEF Holds

\* What protocol_exec_rt_system() makes of a system state has its abort flag.
LEMMA AbortKept ==
  ASSUME NEW s \in Systems, NEW rt \in SUBSET ExecState
  PROVE  /\ Slept(Stopping(s, rt), rt).abort = s.abort
         /\ DoorResume(s).abort = s.abort
         /\ Stopped(s).abort = s.abort
         /\ Override(s).abort = s.abort
         /\ Retracted(s).abort = s.abort
<1>1. \A t \in Systems : /\ Decelerated(t, rt).abort = t.abort
                         /\ Rested(t).abort = t.abort
                         /\ Cancelled(t, rt).abort = t.abort
                         /\ Held(t, rt).abort = t.abort
  BY DEF Decelerated, Rested, Cancelled, Held, Systems
<1>2. \A t \in Systems : Opened(t, rt).abort = t.abort
  BY DEF Opened, Reopened, Systems
<1>3. \A t \in Systems : Slept(t, rt).abort = t.abort
  BY DEF Slept, Systems
<1>4. Stopping(s, rt).abort = s.abort
  BY <1>1, <1>2, HoldTypes DEF Stopping
<1>5. DoorResume(s).abort = s.abort /\ Stopped(s).abort = s.abort
  BY DEF DoorResume, Stopped, Systems
<1>6. Override(s).abort = s.abort /\ Retracted(s).abort = s.abort
  BY DEF Override, Retracted, Systems
<1> QED BY <1>3, <1>4, <1>5, <1>6, StopTypes

\* Every step keeps the abort and the nesting.
LEMMA ControlStep == Types /\ ControlInv /\ [Next]_vars => ControlInv'
<1> SUFFICES ASSUME Types, ControlInv, [Next]_vars PROVE ControlInv'
  OBVIOUS
<1> USE DEF Types, ControlInv, AbortPending, NestEnded, Stays, Keeps, At, Returned, Executing,
            Looping, rtVars, Places, Steps, Nests, Callers, ParkMotions
<1>1. CASE Drain
  BY <1>1 DEF Drain
<1>2. CASE RingEmpty
  BY <1>2 DEF RingEmpty
<1>3. CASE AlarmSeen
  BY <1>3, AlarmSeenDoes
<1>4. CASE AlarmDone
  BY <1>4, Moves DEF AlarmDone
<1>5. CASE CopyFlags
  BY <1>5, CopyFlagsDoes
<1>6. CASE Holds
  BY <1>6, HoldsDoes, AbortKept DEF HoldFlags
<1>7. CASE StartNothing
  BY <1>7, Moves DEF StartNothing
<1>8. CASE StartRefused
  BY <1>8, StartRefusedDoes
<1>9. CASE StartCycle
  BY <1>9, StartCycleDoes
<1>10. CASE WakeUp
  BY <1>10, Moves DEF WakeUp
<1>11. CASE CycleStop
  BY <1>11, Moves, AbortKept DEF CycleStop
<1>12. CASE Reload
  BY <1>12, ReloadDoes
<1>13. CASE Back
  BY <1>13, BackDoes
<1>14. CASE SuspendEnds
  BY <1>14, Moves DEF SuspendEnds
<1>15. CASE AwaitRest
  BY <1>15, Moves DEF AwaitRest
<1>16. CASE StartRetract
  BY <1>16, StartRetractDoes
<1>17. CASE PulledOut
  BY <1>17, PulledOutDoes
<1>18. CASE RetractEnds
  BY <1>18, Moves, AbortKept DEF RetractEnds
<1>19. CASE Asleep
  BY <1>19, Moves DEF Asleep
<1>20. CASE DoorWait
  BY <1>20, DoorWaitDoes
<1>21. CASE Approached
  BY <1>21, ApproachedDoes
<1>22. CASE PlungeEnds
  BY <1>22, PlungeEndsDoes
<1>23. CASE HoldManager
  BY <1>23, HoldManagerDoes
<1>24. CASE Reinit
  BY <1>24, ReinitDoes
<1>25. CASE Boot
  BY <1>25, BootDoes
<1>26. CASE Loop
  BY <1>26, Moves DEF Loop, AutoCycleStart
<1>27. CASE ReadLine
  BY <1>27, Moves DEF ReadLine
<1>28. CASE LoopReturns
  BY <1>28, Moves DEF LoopReturns
<1>29. CASE CallReturns
  BY <1>29, Moves DEF CallReturns
<1>30. CASE Refused
  BY <1>30, Moves DEF Refused
<1>31. CASE MotionLine
  BY <1>31, Moves DEF MotionLine
<1>32. CASE SyncLine
  BY <1>32, Moves DEF SyncLine, Synchronize, AutoCycleStart
<1>33. CASE CheckedLine
  BY <1>33, Moves DEF CheckedLine
<1>34. CASE SleepLine
  BY <1>34, Moves DEF SleepLine
<1>35. CASE UnlockLine
  BY <1>35, Moves DEF UnlockLine
<1>36. CASE CheckLine
  BY <1>36, CheckLineDoes
<1>37. CASE BeyondLine
  BY <1>37, BeyondLineDoes
<1>38. CASE SoftWait
  BY <1>38, SoftWaitDoes
<1>39. CASE LineWaits
  BY <1>39, Moves DEF LineWaits, AutoCycleStart
<1>40. CASE LineEnds
  BY <1>40, LineEndsDoes
<1>41. CASE JogWake
  BY <1>41, Moves DEF JogWake
<1>42. CASE SyncWaits
  BY <1>42, Moves DEF SyncWaits
<1>43. CASE SyncEnds
  BY <1>43, Moves DEF SyncEnds
<1>44. CASE CmdReset
  BY <1>44 DEF CmdReset, Flagged
<1>45. CASE CmdFlag
  BY <1>45 DEF CmdFlag
<1>46. CASE CmdSpindleStop
  BY <1>46 DEF CmdSpindleStop
<1>47. CASE CmdJogCancel
  BY <1>47 DEF CmdJogCancel
<1>48. CASE DoorSwitch
  BY <1>48 DEF DoorSwitch
<1>49. CASE LimitSwitch
  BY <1>49 DEF LimitSwitch, Flagged
<1>50. CASE CmdResetKill
  BY <1>50 DEF CmdResetKill
<1>51. CASE CmdJogCancelFlag
  BY <1>51 DEF CmdJogCancelFlag
<1>52. CASE UNCHANGED vars
  BY <1>52 DEF vars
<1> QED
  BY <1>1, <1>2, <1>3, <1>4, <1>5, <1>6, <1>7, <1>8, <1>9, <1>10, <1>11, <1>12, <1>13, <1>14,
     <1>15, <1>16, <1>17, <1>18, <1>19, <1>20, <1>21, <1>22, <1>23, <1>24, <1>25, <1>26, <1>27,
     <1>28, <1>29, <1>30, <1>31, <1>32, <1>33, <1>34, <1>35, <1>36, <1>37, <1>38, <1>39, <1>40,
     <1>41, <1>42, <1>43, <1>44, <1>45, <1>46, <1>47, <1>48, <1>49, <1>50, <1>51, <1>52
  DEF Next, Main, Interrupt, Clients, InCommand, ExecRtSystem, ExecRtSuspend, Program

-----------------------------------------------------------------------------
\* A start that no user asked for, pending in the flags.
AutoStart == "cycleStart" \in flags /\ ~asked

\* It is raised outside of the suspend loop, and the next pass takes it: it is
\* not pending when the machine has come to hold.
AutoTaken ==
  AutoStart => \/ sys.abort
               \/ /\ main.nest = "none"
                  /\ main.step \in {"alarm", "spin", "acknowledge", "flags", "holds", "start", "wake"}
                  /\ main.step \in {"holds", "start", "wake"} => "cycleStart" \in main.rt
StartPending ==
  main.step \in {"holds", "start"} /\ "cycleStart" \in main.rt => "cycleStart" \in flags

\* Outside of the suspend loop nothing is suspended when a pass begins, so that
\* the start branch finds no complete hold and no parked machine there.
NotSuspended ==
  /\ ~sys.abort /\ main.nest = "none"
  /\ main.step \in {"reinit", "boot", "parse", "alarm", "spin", "acknowledge", "flags", "holds",
                    "return", "jogWake"}
  => sys.suspend = {}
StartsFresh ==
  /\ ~sys.abort /\ main.nest = "none" /\ main.step = "start" /\ ~Blocked(main.rt)
  => /\ sys.state = "Hold" => "holdComplete" \notin sys.suspend
     /\ sys.state = "SafetyDoor" => "retractComplete" \notin sys.suspend

AutoInv == AutoTaken /\ StartPending /\ NotSuspended /\ StartsFresh

\* Where nothing is suspended and no hold is asked for, the hold branch neither
\* completes a hold in the state Hold nor parks in the state Door.
LEMMA QuietHold ==
  ASSUME NEW s \in Systems, s.suspend = {}, NEW rt \in SUBSET ExecState, ~Blocked(rt),
         NEW r, r = Slept(Stopping(s, rt), rt)
  PROVE  /\ r.state = "Hold" => "holdComplete" \notin r.suspend
         /\ r.state = "SafetyDoor" => "retractComplete" \notin r.suspend
<1> DEFINE t == Stopping(s, rt)
<1>1. "feedHold" \notin rt /\ "motionCancel" \notin rt /\ "safetyDoor" \notin rt
  BY DEF Blocked
<1>2. t \in Systems
  BY StopTypes
<1>3. /\ t.state = "Hold" => "holdComplete" \notin t.suspend
      /\ t.state = "SafetyDoor" => "retractComplete" \notin t.suspend
  <2>1. CASE Unstoppable(s)
    BY <2>1 DEF Stopping, Unstoppable
  <2>2. CASE ~Unstoppable(s)
    <3>1. t = Rested(Decelerated(s, rt))
      BY <1>1, <2>2 DEF Stopping, Opened, Held, Cancelled
    <3>2. Decelerated(s, rt).state = s.state /\ "retractComplete" \notin Decelerated(s, rt).suspend
          /\ "holdComplete" \notin Decelerated(s, rt).suspend
      BY DEF Decelerated, Systems
    <3>3. Decelerated(s, rt) \in Systems
      BY HoldTypes
    <3> QED BY <3>1, <3>2, <3>3 DEF Rested, Systems
  <2> QED BY <2>1, <2>2
<1> HIDE DEF t
<1>4. (r.state = t.state /\ r.suspend = t.suspend) \/ r.state = "Sleep"
  BY <1>2 DEF Slept, Systems, t
<1> QED BY <1>3, <1>4

\* Every step keeps it that a start nobody asked for is taken before a hold.
LEMMA AutoStep == Types /\ ControlInv /\ AutoInv /\ [Next]_vars => AutoInv'
<1> SUFFICES ASSUME Types, ControlInv, AutoInv, [Next]_vars PROVE AutoInv'
  OBVIOUS
<1> USE DEF Types, ControlInv, AbortPending, NestEnded, Stays, Keeps, At, Returned, Executing,
            Looping, rtVars, hist, Places, Steps, Nests, Callers, ParkMotions,
            AutoInv, AutoStart, AutoTaken, StartPending, NotSuspended, StartsFresh
<1>1. CASE Drain
  BY <1>1 DEF Drain
<1>2. CASE RingEmpty
  BY <1>2 DEF RingEmpty
<1>3. CASE AlarmSeen
  BY <1>3, AlarmSeenDoes
<1>4. CASE AlarmDone
  BY <1>4, Moves DEF AlarmDone
<1>5. CASE CopyFlags
  BY <1>5, CopyFlagsDoes
<1>6. CASE Holds
  BY <1>6, HoldsDoes, AbortKept, QuietHold DEF HoldFlags
<1>7. CASE StartNothing
  BY <1>7, Moves DEF StartNothing
<1>8. CASE StartRefused
  BY <1>8, StartRefusedDoes
<1>9. CASE StartCycle
  BY <1>9, StartCycleDoes
<1>10. CASE WakeUp
  BY <1>10, Moves DEF WakeUp
<1>11. CASE CycleStop
  BY <1>11, Moves, AbortKept DEF CycleStop
<1>12. CASE Reload
  BY <1>12, ReloadDoes
<1>13. CASE Back
  BY <1>13, BackDoes
<1>14. CASE SuspendEnds
  BY <1>14, Moves DEF SuspendEnds
<1>15. CASE AwaitRest
  BY <1>15, Moves DEF AwaitRest
<1>16. CASE StartRetract
  BY <1>16, StartRetractDoes
<1>17. CASE PulledOut
  BY <1>17, PulledOutDoes
<1>18. CASE RetractEnds
  BY <1>18, Moves, AbortKept DEF RetractEnds
<1>19. CASE Asleep
  BY <1>19, Moves DEF Asleep
<1>20. CASE DoorWait
  BY <1>20, DoorWaitDoes
<1>21. CASE Approached
  BY <1>21, ApproachedDoes
<1>22. CASE PlungeEnds
  BY <1>22, PlungeEndsDoes
<1>23. CASE HoldManager
  BY <1>23, HoldManagerDoes
<1>24. CASE Reinit
  BY <1>24, ReinitDoes
<1>25. CASE Boot
  BY <1>25, BootDoes
<1>26. CASE Loop
  BY <1>26, Moves DEF Loop, AutoCycleStart
<1>27. CASE ReadLine
  BY <1>27, Moves DEF ReadLine
<1>28. CASE LoopReturns
  BY <1>28, Moves DEF LoopReturns
<1>29. CASE CallReturns
  BY <1>29, Moves DEF CallReturns
<1>30. CASE Refused
  BY <1>30, Moves DEF Refused
<1>31. CASE MotionLine
  BY <1>31, Moves DEF MotionLine
<1>32. CASE SyncLine
  BY <1>32, Moves DEF SyncLine, Synchronize, AutoCycleStart
<1>33. CASE CheckedLine
  BY <1>33, Moves DEF CheckedLine
<1>34. CASE SleepLine
  BY <1>34, Moves DEF SleepLine
<1>35. CASE UnlockLine
  BY <1>35, Moves DEF UnlockLine
<1>36. CASE CheckLine
  BY <1>36, CheckLineDoes
<1>37. CASE BeyondLine
  BY <1>37, BeyondLineDoes
<1>38. CASE SoftWait
  BY <1>38, SoftWaitDoes
<1>39. CASE LineWaits
  BY <1>39, Moves DEF LineWaits, AutoCycleStart
<1>40. CASE LineEnds
  BY <1>40, LineEndsDoes
<1>41. CASE JogWake
  BY <1>41, Moves DEF JogWake
<1>42. CASE SyncWaits
  BY <1>42, Moves DEF SyncWaits
<1>43. CASE SyncEnds
  BY <1>43, Moves DEF SyncEnds
<1>44. CASE CmdReset
  BY <1>44 DEF CmdReset, Flagged
<1>45. CASE CmdFlag
  BY <1>45 DEF CmdFlag
<1>46. CASE CmdSpindleStop
  BY <1>46 DEF CmdSpindleStop
<1>47. CASE CmdJogCancel
  BY <1>47 DEF CmdJogCancel
<1>48. CASE DoorSwitch
  BY <1>48 DEF DoorSwitch
<1>49. CASE LimitSwitch
  BY <1>49 DEF LimitSwitch, Flagged
<1>50. CASE CmdResetKill
  BY <1>50 DEF CmdResetKill
<1>51. CASE CmdJogCancelFlag
  BY <1>51 DEF CmdJogCancelFlag
<1>52. CASE UNCHANGED vars
  BY <1>52 DEF vars
<1> QED
  BY <1>1, <1>2, <1>3, <1>4, <1>5, <1>6, <1>7, <1>8, <1>9, <1>10, <1>11, <1>12, <1>13, <1>14,
     <1>15, <1>16, <1>17, <1>18, <1>19, <1>20, <1>21, <1>22, <1>23, <1>24, <1>25, <1>26, <1>27,
     <1>28, <1>29, <1>30, <1>31, <1>32, <1>33, <1>34, <1>35, <1>36, <1>37, <1>38, <1>39, <1>40,
     <1>41, <1>42, <1>43, <1>44, <1>45, <1>46, <1>47, <1>48, <1>49, <1>50, <1>51, <1>52
  DEF Next, Main, Interrupt, Clients, InCommand, ExecRtSystem, ExecRtSuspend, Program

\* The hold branch begins no restore and no cycle, and leaves the spindle stop.
LEMMA StopKeeps ==
  ASSUME NEW s \in Systems, NEW rt \in SUBSET ExecState,
         NEW r, r = Slept(Stopping(s, rt), rt)
  PROVE  /\ r.ovr = s.ovr /\ r.softLimit = s.softLimit
         /\ "initiateRestore" \in r.suspend => "initiateRestore" \in s.suspend
         /\ "restoreComplete" \in r.suspend => "restoreComplete" \in s.suspend
         /\ r.state \in {s.state, "Hold", "SafetyDoor", "Sleep"}
<1> DEFINE Kept(t) == /\ t.ovr = s.ovr /\ t.softLimit = s.softLimit
                      /\ "initiateRestore" \in t.suspend => "initiateRestore" \in s.suspend
                      /\ "restoreComplete" \in t.suspend => "restoreComplete" \in s.suspend
                      /\ t.state \in {s.state, "Hold", "SafetyDoor", "Sleep"}
<1>1. \A t \in Systems : Kept(t) => /\ Kept(Decelerated(t, rt)) /\ Kept(Rested(t))
                                    /\ Kept(Cancelled(t, rt)) /\ Kept(Held(t, rt))
  BY DEF Decelerated, Rested, Cancelled, Held, Systems
<1>2. \A t \in Systems : Kept(t) => Kept(Opened(t, rt))
  BY DEF Opened, Reopened, Systems
<1>3. \A t \in Systems : Kept(t) => Kept(Slept(t, rt))
  BY DEF Slept, Systems
<1>4. Kept(s)
  OBVIOUS
<1> HIDE DEF Kept
<1>5. Kept(Stopping(s, rt))
  BY <1>1, <1>2, <1>4, HoldTypes DEF Stopping
<1>6. Kept(r)
  BY <1>3, <1>5, StopTypes
<1> QED BY <1>6 DEF Kept

\* The end of a motion begins no restore and no cycle, and leaves the spindle stop.
LEMMA StoppedKeeps ==
  ASSUME NEW s \in Systems
  PROVE  /\ Stopped(s).ovr = s.ovr /\ Stopped(s).softLimit = s.softLimit
         /\ Stopped(s).suspend \subseteq s.suspend \union {"holdComplete"}
         /\ Stopped(s).state \in {s.state, "SafetyDoor", "Idle"}
BY DEF Stopped, Systems

\* The invariants hold from the start.
LEMMA AutoHolds == Spec => [](Types /\ ControlInv /\ AutoInv)
<1>1. Init => ControlInv /\ AutoInv
  BY DEF Init, SysReset, ControlInv, AbortPending, NestEnded, AutoInv, AutoStart, AutoTaken,
         StartPending, NotSuspended, StartsFresh
<1>2. Types /\ ControlInv /\ AutoInv /\ [Next]_vars => ControlInv' /\ AutoInv'
  BY ControlStep, AutoStep
<1> QED BY <1>1, <1>2, TypesHold, PTL DEF Spec

\* Only a cycle start that a user asked for resumes a hold, begins the restore of
\* a parked machine or restores a spindle that was stopped in a hold.
LEMMA ResumeAsked == Types /\ ControlInv /\ AutoInv /\ [Next]_vars => [Resumes => asked]_vars
<1> SUFFICES ASSUME Types, ControlInv, AutoInv, Next, Resumes PROVE asked
  BY DEF vars, Resumes
<1>1. ASSUME main.step = "start", "cycleStart" \in main.rt, ~Blocked(main.rt),
             \/ sys.state = "Hold" /\ "holdComplete" \in sys.suspend
             \/ sys.state = "SafetyDoor" /\ "retractComplete" \in sys.suspend
      PROVE  asked
  <2>1. ~sys.abort
    BY <1>1 DEF ControlInv, AbortPending
  <2>2. main.nest # "none"
    BY <1>1, <2>1 DEF AutoInv, StartsFresh
  <2>3. "cycleStart" \in flags
    BY <1>1 DEF AutoInv, StartPending
  <2> QED BY <2>1, <2>2, <2>3 DEF AutoInv, AutoTaken, AutoStart
<1>m. main.rt \in SUBSET ExecState
  BY DEF Types, Places
<1>s. sys \in Systems
  BY DEF Types
<1> USE DEF Keeps, Resumes
<1>2. CASE Drain
  BY <1>2 DEF Drain
<1>3. CASE RingEmpty
  BY <1>3 DEF RingEmpty
<1>4. CASE AlarmSeen
  BY <1>4, AlarmSeenDoes
<1>5. CASE AlarmDone
  BY <1>5 DEF AlarmDone
<1>6. CASE CopyFlags
  BY <1>6, CopyFlagsDoes
<1>7. CASE Holds
  BY <1>7, HoldsDoes, <1>s, <1>m, StopKeeps
<1>8. CASE StartNothing
  BY <1>8 DEF StartNothing
<1>9. CASE StartRefused
  BY <1>9, StartRefusedDoes, <1>1
<1>10. CASE StartCycle
  BY <1>10, StartCycleDoes, <1>1
<1>11. CASE WakeUp
  BY <1>11 DEF WakeUp
<1>12. CASE CycleStop
  BY <1>12, <1>s, StoppedKeeps DEF CycleStop
<1>13. CASE Reload
  BY <1>13, ReloadDoes
<1>14. CASE Back
  BY <1>14, BackDoes
<1>15. CASE SuspendEnds
  BY <1>15 DEF SuspendEnds
<1>16. CASE AwaitRest
  BY <1>16 DEF AwaitRest
<1>17. CASE StartRetract
  BY <1>17, StartRetractDoes
<1>18. CASE PulledOut
  BY <1>18, PulledOutDoes
<1>19. CASE RetractEnds
  BY <1>19, <1>s, RetractedDoes DEF RetractEnds
<1>20. CASE Asleep
  BY <1>20 DEF Asleep
<1>21. CASE DoorWait
  BY <1>21, DoorWaitDoes
<1>22. CASE Approached
  BY <1>22, ApproachedDoes
<1>23. CASE PlungeEnds
  BY <1>23, PlungeEndsDoes
<1>24. CASE HoldManager
  BY <1>24, HoldManagerDoes
<1>25. CASE Reinit
  BY <1>25, ReinitDoes
<1>26. CASE Boot
  BY <1>26, BootDoes
<1>27. CASE Loop
  BY <1>27 DEF Loop
<1>28. CASE ReadLine
  BY <1>28 DEF ReadLine
<1>29. CASE LoopReturns
  BY <1>29 DEF LoopReturns
<1>30. CASE CallReturns
  BY <1>30 DEF CallReturns
<1>31. CASE Refused
  BY <1>31 DEF Refused
<1>32. CASE MotionLine
  BY <1>32 DEF MotionLine
<1>33. CASE SyncLine
  BY <1>33 DEF SyncLine
<1>34. CASE CheckedLine
  BY <1>34 DEF CheckedLine
<1>35. CASE SleepLine
  BY <1>35 DEF SleepLine
<1>36. CASE UnlockLine
  BY <1>36, <1>s DEF UnlockLine, Systems
<1>37. CASE CheckLine
  BY <1>37, CheckLineDoes
<1>38. CASE BeyondLine
  BY <1>38, BeyondLineDoes
<1>39. CASE SoftWait
  BY <1>39, SoftWaitDoes
<1>40. CASE LineWaits
  BY <1>40 DEF LineWaits
<1>41. CASE LineEnds
  BY <1>41, LineEndsDoes
<1>42. CASE JogWake
  BY <1>42 DEF JogWake
<1>43. CASE SyncWaits
  BY <1>43 DEF SyncWaits
<1>44. CASE SyncEnds
  BY <1>44 DEF SyncEnds
<1>45. CASE CmdReset
  BY <1>45 DEF CmdReset
<1>46. CASE CmdFlag
  BY <1>46 DEF CmdFlag
<1>47. CASE CmdSpindleStop
  BY <1>47 DEF CmdSpindleStop
<1>48. CASE CmdJogCancel
  BY <1>48 DEF CmdJogCancel
<1>49. CASE DoorSwitch
  BY <1>49 DEF DoorSwitch
<1>50. CASE LimitSwitch
  BY <1>50 DEF LimitSwitch
<1>51. CASE CmdResetKill
  BY <1>51 DEF CmdResetKill
<1>52. CASE CmdJogCancelFlag
  BY <1>52 DEF CmdJogCancelFlag
<1> QED
  BY <1>2, <1>3, <1>4, <1>5, <1>6, <1>7, <1>8, <1>9, <1>10, <1>11, <1>12, <1>13, <1>14, <1>15,
     <1>16, <1>17, <1>18, <1>19, <1>20, <1>21, <1>22, <1>23, <1>24, <1>25, <1>26, <1>27, <1>28,
     <1>29, <1>30, <1>31, <1>32, <1>33, <1>34, <1>35, <1>36, <1>37, <1>38, <1>39, <1>40, <1>41,
     <1>42, <1>43, <1>44, <1>45, <1>46, <1>47, <1>48, <1>49, <1>50, <1>51, <1>52
  DEF Next, Main, Interrupt, Clients, InCommand, ExecRtSystem, ExecRtSuspend, Program

\* Only a user's start resumes a hold, whatever starts the main loop, a buffer
\* synchronisation or a full planner flag by themselves.
THEOREM NoAutoResume == Spec => HoldNotAutoResumed
<1>1. Types /\ ControlInv /\ AutoInv /\ [Next]_vars => [Resumes => asked]_vars
  BY ResumeAsked
<1> QED BY <1>1, AutoHolds, PTL DEF Spec, HoldNotAutoResumed

-----------------------------------------------------------------------------
(***************************************************************************)
(* The safety door: the spindle of a machine that has parked, and the      *)
(* state it parks in.                                                      *)
(***************************************************************************)

\* What the steps leave alone.

\* The pending alarm, the input task, the history of restores, the caller.
Spares == alarm' = alarm /\ client' = client /\ again' = again /\ main'.caller = main.caller

\* A parking motion has the same caller.
LEMMA ParkCaller ==
  ASSUME main \in Places, NEW s, NEW n, ParkMotion(n, s)
  PROVE  main'.caller = main.caller
BY DEF Places, ParkMotion, ExecIn

\* protocol_exec_rt_system() after the alarm, and the return from it.
LEMMA SystemSpares ==
  ASSUME Types, CopyFlags \/ Holds \/ StartRefused \/ StartCycle \/ Reload \/ Back \/ AlarmSeen
  PROVE  Spares /\ spindle' = spindle
<1> USE DEF Spares, Types, Places
<1>1. CASE CopyFlags
  BY <1>1 DEF CopyFlags, rtVars, power, env, hist
<1>2. CASE Holds
  BY <1>2 DEF Holds, Goto, power, env, hist
<1>3. CASE StartRefused
  BY <1>3 DEF StartRefused, Goto, power, env
<1>4. CASE StartCycle
  BY <1>4 DEF StartCycle, Goto, rtVars, power, env, hist
<1>5. CASE Reload
  BY <1>5 DEF Reload, Goto, power, env, hist
<1>6. CASE Back
  BY <1>6 DEF Back, rtVars, power, env, hist
<1>7. CASE AlarmSeen
  BY <1>7 DEF AlarmSeen, Goto, power, env, hist
<1> QED BY <1>1, <1>2, <1>3, <1>4, <1>5, <1>6, <1>7

\* The loop of protocol_exec_rt_suspend().
LEMMA SuspendSpares ==
  ASSUME Types,
         StartRetract \/ PulledOut \/ Approached \/ PlungeEnds \/ HoldManager
  PROVE  Spares
<1> USE DEF Spares, Types, Places, ExecIn
<1>1. CASE StartRetract
  BY <1>1, ParkCaller DEF StartRetract, rtVars, env, hist
<1>2. CASE PulledOut
  BY <1>2, ParkCaller DEF PulledOut, rtVars, env, hist
<1>3. CASE Approached
  BY <1>3, ParkCaller DEF Approached, env
<1>4. CASE PlungeEnds
  BY <1>4 DEF PlungeEnds, env
<1>5. CASE HoldManager
  BY <1>5 DEF HoldManager, env
<1> QED BY <1>1, <1>2, <1>3, <1>4, <1>5

\* The wait behind the door: a restore that runs again is remembered, and the
\* spindle runs only in one that the user has asked for.
LEMMA DoorWaitSpares ==
  ASSUME Types, DoorWait
  PROVE  /\ alarm' = alarm /\ client' = client /\ main'.caller = main.caller
         /\ again => again'
         /\ main'.nest = "approach" /\ ~again' => "restoreComplete" \notin sys'.suspend
<1> USE DEF Types
<1>1. alarm' = alarm /\ client' = client
  BY DEF DoorWait, env
<1>2. main'.caller = main.caller
  BY ParkCaller DEF DoorWait, ExecIn, Places
<1>3. again => again'
  BY Zenon DEF DoorWait
<1>4. ASSUME main'.nest = "approach", ~again' PROVE "restoreComplete" \notin sys'.suspend
  <2>1. ~({"initiateRestore", "restoreComplete"} \subseteq DoorChecked.suspend)
    BY <1>4, Zenon DEF DoorWait
  <2>2. CASE "initiateRestore" \notin DoorChecked.suspend
    <3>1. ExecIn("suspend")
      BY <2>2 DEF DoorWait
    <3> QED BY <1>4, <3>1 DEF ExecIn, Places
  <2>3. CASE ParkMotion("approach", DoorChecked) /\ "initiateRestore" \in DoorChecked.suspend
    <3>1. DoorChecked \in Systems
      BY SuspendTypes
    <3>2. sys'.suspend = DoorChecked.suspend
      BY <2>3, <3>1, ParkTypes DEF ParkMotions
    <3> QED BY <2>1, <2>3, <3>2
  <2>4. CASE ExecIn("suspend")
    BY <1>4, <2>4 DEF ExecIn, Places
  <2> QED BY <2>2, <2>3, <2>4 DEF DoorWait
<1> QED BY <1>1, <1>2, <1>3, <1>4

\* The program: the main loop and the lines.
LEMMA ProgramSpares ==
  ASSUME Types
  PROVE  /\ Boot \/ LineEnds => /\ alarm' = alarm /\ client' = client /\ again' = again
                                /\ spindle' = spindle
         /\ Reinit => client' = client /\ ~again'
<1>1. ASSUME Boot
      PROVE  alarm' = alarm /\ client' = client /\ again' = again /\ spindle' = spindle
  BY <1>1 DEF Boot, env, hist, power
<1>2. ASSUME LineEnds
      PROVE  alarm' = alarm /\ client' = client /\ again' = again /\ spindle' = spindle
  BY <1>2 DEF LineEnds, env, hist, power
<1>3. ASSUME Reinit PROVE client' = client /\ ~again'
  BY <1>3 DEF Reinit, env
<1> QED BY <1>1, <1>2, <1>3

\* A reset by the main task itself: it is pending afterwards, the spindle is off,
\* and its alarm is set.
Resets(a) == /\ "reset" \in flags' /\ spindle' = (IF "reset" \in flags THEN spindle ELSE FALSE)
             /\ alarm' = a

\* The lines that reset the machine, and those that only ask for a hold.
LEMMA ResetSpares ==
  ASSUME Types
  PROVE  /\ CheckLine \/ BeyondLine \/ SoftWait => client' = client /\ again' = again
         /\ CheckLine => \/ UNCHANGED <<flags, alarm, spindle>>
                         \/ Resets(alarm) \/ Resets("AbortCycle")
         /\ BeyondLine => \/ UNCHANGED <<alarm, spindle>> /\ main'.caller = "soft"
                          \/ Resets("SoftLimit") /\ main'.caller = "softReset"
         /\ SoftWait => \/ UNCHANGED <<flags, alarm, spindle>> /\ main'.caller = main.caller
                        \/ Resets("SoftLimit") /\ main'.caller = "softReset"
<1> USE DEF Types, Places, Resets
<1>1. ASSUME CheckLine
      PROVE  /\ client' = client /\ again' = again
             /\ \/ UNCHANGED <<flags, alarm, spindle>>
                \/ Resets(alarm) \/ Resets("AbortCycle")
  BY <1>1 DEF CheckLine, env, Flagged, AlarmOf
<1>2. ASSUME BeyondLine
      PROVE  /\ client' = client /\ again' = again
             /\ \/ UNCHANGED <<alarm, spindle>> /\ main'.caller = "soft"
                \/ Resets("SoftLimit") /\ main'.caller = "softReset"
  BY <1>2 DEF BeyondLine, env, SoftReset, Flagged, Exec
<1>3. ASSUME SoftWait
      PROVE  /\ client' = client /\ again' = again
             /\ \/ UNCHANGED <<flags, alarm, spindle>> /\ main'.caller = main.caller
                \/ Resets("SoftLimit") /\ main'.caller = "softReset"
  BY <1>3 DEF SoftWait, env, SoftReset, Flagged, Exec, Goto, Returned
<1> QED BY <1>1, <1>2, <1>3

-----------------------------------------------------------------------------
\* A reset that stops the motors raises its alarm with the reset flag still
\* pending, unless the main task is in the critical alarm that has taken it.
KillPending ==
  alarm = "AbortCycle" \/ client = "kill" => "reset" \in flags \/ main.step = "spin"

\* A reset is pending where the state Alarm has been entered by an alarm; else the
\* machine has come up in it, and there is neither a suspension nor a motion line.
AlarmQuiet ==
  sys.state = "Alarm" /\ ~sys.abort =>
    \/ main.step = "spin"
    \/ main.step \in {"acknowledge", "flags"} /\ "reset" \in flags
    \/ /\ main.nest = "none" /\ sys.suspend = {}
       /\ main.step \in {"boot", "parse"} \/ main.caller \in {"loop", "eol"}

\* A sleep is asked for by a line, and the next pass takes it.
SleepPending ==
  "sleep" \in flags =>
    \/ sys.abort
    \/ /\ main.nest = "none"
       /\ main.step \in {"parse", "alarm", "spin", "acknowledge", "flags", "holds"}
       /\ main.step = "holds" => "sleep" \in main.rt
       /\ sys.state \in {"Idle", "Alarm"} /\ ~sys.softLimit
SleepCopied == main.step = "holds" /\ "sleep" \in main.rt => "sleep" \in flags

\* The soft limit is set while limits_soft_check() waits for the hold it has asked
\* for or for the reset it has issued.
SoftPending ==
  sys.softLimit /\ ~sys.abort =>
    \/ main.caller = "soft" /\ main.step \notin {"parse", "reinit", "boot", "jogWake"}
    \/ /\ main.caller = "softReset"
       /\ \/ main.step = "alarm" /\ alarm \in Critical
          \/ main.step = "alarm" /\ alarm # "None" /\ "reset" \in flags
          \/ main.step = "spin"
          \/ main.step \in {"acknowledge", "flags"} /\ "reset" \in flags

ResetInv == KillPending /\ AlarmQuiet /\ SleepPending /\ SleepCopied /\ SoftPending

\* Which alarm leads where.
LEMMA AlarmTaken ==
  ASSUME Types, AlarmSeen
  PROVE  /\ main'.step = "flags" => alarm = "None"
         /\ main'.step = "acknowledge" => alarm = "AbortCycle"
<1>1. alarm \in ExecAlarm
  BY DEF Types, RestTypes
<1>2. CASE alarm = "None"
  <2>1. main'.step = "flags"
    BY <1>2, Moves DEF Types, AlarmSeen, Steps
  <2> QED BY <1>2, <2>1
<1>3. CASE alarm # "None"
  <2>1. main'.step = IF alarm \in Critical THEN "spin" ELSE "acknowledge"
    BY <1>3, Moves DEF Types, AlarmSeen, Steps
  <2>2. alarm \in Critical \/ alarm = "AbortCycle"
    BY <1>1, <1>3 DEF Critical, ExecAlarm
  <2> QED BY <2>1, <2>2
<1> QED BY <1>2, <1>3

\* The hold branch neither enters nor leaves the state Alarm but for a sleep, and
\* leaves the soft limit.
LEMMA HoldAlarm ==
  ASSUME NEW s \in Systems, NEW rt \in SUBSET ExecState,
         NEW r, r = Slept(Stopping(s, rt), rt)
  PROVE  /\ r.softLimit = s.softLimit
         /\ r.state = "Alarm" => s.state = "Alarm" /\ r.suspend = s.suspend
         /\ s.state = "Alarm" /\ "sleep" \notin rt => r = s
         /\ "sleep" \in rt => r.state = "Sleep"
         /\ r \in Systems
<1> DEFINE t == Stopping(s, rt)
<1>1. t \in Systems /\ r \in Systems
  BY StopTypes
<1>2. t.softLimit = s.softLimit /\ (t.state = "Alarm" => s.state = "Alarm")
      /\ (s.state = "Alarm" => t = s)
  <2>1. CASE Unstoppable(s)
    BY <2>1 DEF Stopping
  <2>2. CASE ~Unstoppable(s)
    <3> DEFINE a == Decelerated(s, rt)
               b == Rested(a)
               c == Cancelled(b, rt)
               d == Held(c, rt)
    <3>1. a \in Systems /\ a.softLimit = s.softLimit /\ a.state = s.state
      BY HoldTypes DEF Decelerated, Systems
    <3>2. b \in Systems /\ b.softLimit = a.softLimit /\ b.state = a.state
      BY <3>1, HoldTypes DEF Rested, Systems
    <3>3. c \in Systems /\ c.softLimit = b.softLimit /\ c.state = b.state
      BY <3>2, HoldTypes DEF Cancelled, Systems
    <3>4. d \in Systems /\ d.softLimit = c.softLimit /\ d.state \in {c.state, "Hold"}
      BY <3>3, HoldTypes DEF Held, Systems
    <3>5. t = Opened(d, rt)
      BY <2>2 DEF Stopping
    <3> HIDE DEF a, b, c, d, t
    <3>6. t.softLimit = d.softLimit /\ t.state \in {d.state, "SafetyDoor"}
      BY <3>4, <3>5 DEF Opened, Reopened, Systems
    <3> QED BY <2>2, <3>1, <3>2, <3>3, <3>4, <3>6 DEF Unstoppable
  <2> QED BY <2>1, <2>2
<1> HIDE DEF t
<1>3. r = Slept(t, rt)
  BY DEF t
<1> QED BY <1>1, <1>2, <1>3 DEF Slept, Systems

\* The cycle stop ends in another state than Alarm.
LEMMA StoppedAlarm ==
  ASSUME NEW s \in Systems
  PROVE  /\ Stopped(s).softLimit = s.softLimit
         /\ Stopped(s).abort = s.abort
         /\ Stopped(s).state # "Alarm"
BY DEF Stopped, Systems

\* Every step keeps it that resets, sleeps and soft limits are taken in the pass that
\* follows them.
LEMMA ResetStep ==
  ASSUME ~Overtaken, Types, ControlInv, AutoInv, ResetInv, [Next]_vars
  PROVE  ResetInv'
<1> USE DEF Types, ControlInv, AbortPending, NestEnded, Stays, Keeps, Spares, At, Returned, Executing,
            Looping, rtVars, env, hist, Places, Steps, Nests, Callers, ParkMotions, Critical,
            ResetInv, KillPending, AlarmQuiet, SleepPending, SleepCopied, SoftPending
<1>1. CASE Drain
  BY <1>1 DEF Drain
<1>2. CASE RingEmpty
  BY <1>2 DEF RingEmpty
<1>3. CASE AlarmSeen
  BY <1>3, AlarmSeenDoes, AlarmTaken, SystemSpares
<1>4. CASE AlarmDone
  BY <1>4, Moves DEF AlarmDone
<1>5. CASE CopyFlags
  BY <1>5, CopyFlagsDoes, SystemSpares
<1>6. CASE Holds
  <2>1. main.step = "holds" /\ Stays /\ main'.step = "start" /\ ~sys.abort /\ UNCHANGED <<alarm, client>>
    BY <1>6, HoldsDoes, SystemSpares
  <2>2. flags' \subseteq flags /\ flags \ HoldFlags \subseteq flags'
    BY <1>6, HoldsDoes
  <2>3. "sleep" \notin flags'
    BY <1>6 DEF Holds, HoldFlags, Handled
  <2>4. CASE sys' = sys
    BY <2>1, <2>2, <2>3, <2>4 DEF HoldFlags
  <2>5. CASE sys' = Slept(Stopping(sys, main.rt), main.rt)
    <3>1. /\ sys'.softLimit = sys.softLimit /\ sys'.abort = sys.abort
          /\ sys'.state = "Alarm" => sys.state = "Alarm" /\ sys'.suspend = sys.suspend
      BY <2>5, HoldAlarm, AbortKept
    <3> QED BY <2>1, <2>2, <2>3, <3>1 DEF HoldFlags
  <2> QED BY <1>6, <2>4, <2>5, HoldsDoes
<1>7. CASE StartNothing
  BY <1>7, Moves DEF StartNothing
<1>8. CASE StartRefused
  BY <1>8, StartRefusedDoes, SystemSpares
<1>9. CASE StartCycle
  BY <1>9, StartCycleDoes, SystemSpares
<1>10. CASE WakeUp
  BY <1>10, Moves DEF WakeUp
<1>11. CASE CycleStop
  <2>1. main.step = "stop" /\ Goto("prep") /\ UNCHANGED <<flags, alarm, client>>
        /\ (sys' = sys \/ sys' = Stopped(sys))
    BY <1>11 DEF CycleStop
  <2>2. /\ sys'.softLimit = sys.softLimit /\ sys'.abort = sys.abort
        /\ sys'.state = "Alarm" => sys' = sys
    BY <2>1, StoppedAlarm
  <2> QED BY <2>1, <2>2, Moves
<1>12. CASE Reload
  BY <1>12, ReloadDoes, SystemSpares
<1>13. CASE Back
  BY <1>13, BackDoes, SystemSpares
<1>14. CASE SuspendEnds
  BY <1>14, Moves DEF SuspendEnds
<1>15. CASE AwaitRest
  BY <1>15, Moves DEF AwaitRest
<1>16. CASE StartRetract
  BY <1>16, StartRetractDoes, SuspendSpares
<1>17. CASE PulledOut
  BY <1>17, PulledOutDoes, SuspendSpares
<1>18. CASE RetractEnds
  BY <1>18, Moves, RetractedDoes DEF RetractEnds
<1>19. CASE Asleep
  BY <1>19, Moves DEF Asleep
<1>20. CASE DoorWait
  BY <1>20, DoorWaitDoes, DoorWaitSpares
<1>21. CASE Approached
  BY <1>21, ApproachedDoes, SuspendSpares
<1>22. CASE PlungeEnds
  BY <1>22, PlungeEndsDoes, SuspendSpares
<1>23. CASE HoldManager
  BY <1>23, HoldManagerDoes, SuspendSpares
<1>24. CASE Reinit
  <2>1. client # "kill"
    BY <1>24 DEF Reinit
  <2> QED BY <1>24, <2>1, ReinitDoes, ProgramSpares
<1>25. CASE Boot
  <2>1. main'.step = "parse" \/ sys'.state = "Idle"
    <3>1. CASE sys.state \in {"Alarm", "Sleep"}
      BY <1>25, <3>1, Moves DEF Boot
    <3>2. CASE sys.state \notin {"Alarm", "Sleep"}
      BY <1>25, <3>2 DEF Boot, Systems
    <3> QED BY <3>1, <3>2
  <2>2. sys.suspend = {}
    BY <1>25, BootDoes DEF AutoInv, NotSuspended
  <2> QED BY <1>25, <2>1, <2>2, BootDoes, ProgramSpares
<1>26. CASE Loop
  BY <1>26, Moves DEF Loop, AutoCycleStart
<1>27. CASE ReadLine
  BY <1>27, Moves DEF ReadLine
<1>28. CASE LoopReturns
  BY <1>28, Moves DEF LoopReturns
<1>29. CASE CallReturns
  BY <1>29, Moves DEF CallReturns
<1>30. CASE Refused
  BY <1>30, Moves DEF Refused
<1>31. CASE MotionLine
  <2>1. /\ main.step = "return" /\ main.caller = "eol" /\ ~sys.abort /\ sys.state # "Alarm"
        /\ UNCHANGED <<sys, flags, alarm, client>>
    BY <1>31 DEF MotionLine, Accepts
  <2>2. \E c \in {"line", "linePause", "jog"} : Exec(c)
    BY <1>31 DEF MotionLine
  <2> QED BY <2>1, <2>2, Moves
<1>32. CASE SyncLine
  <2>1. /\ main.step = "return" /\ main.caller = "eol" /\ ~sys.abort /\ sys.state # "Alarm"
        /\ UNCHANGED <<sys, alarm, client>>
    BY <1>32 DEF SyncLine, Accepts
  <2>2. \E c \in {"syncPause", "syncSpindle"} : Exec(c)
    BY <1>32 DEF SyncLine, Synchronize
  <2>3. flags \subseteq flags' /\ flags' \subseteq flags \union {"cycleStart"}
    BY <1>32 DEF SyncLine, Synchronize, AutoCycleStart
  <2> QED BY <2>1, <2>2, <2>3, Moves
<1>33. CASE CheckedLine
  BY <1>33, Moves DEF CheckedLine
<1>34. CASE SleepLine
  BY <1>34, Moves DEF SleepLine, Accepts
<1>35. CASE UnlockLine
  BY <1>35, Moves DEF UnlockLine
<1>36. CASE CheckLine
  BY <1>36, CheckLineDoes, ResetSpares DEF Resets
<1>37. CASE BeyondLine
  <2>1. sys.state # "Alarm"
    BY <1>37 DEF BeyondLine, Accepts
  <2> QED BY <1>37, <2>1, BeyondLineDoes, ResetSpares DEF Resets
<1>38. CASE SoftWait
  <2>1. main.caller = "soft"
    BY <1>38 DEF SoftWait
  <2>2. ~sys.abort => main'.step = "alarm"
    BY <1>38, Moves DEF SoftWait, SoftReset
  <2> QED BY <1>38, <2>1, <2>2, SoftWaitDoes, ResetSpares DEF Resets
<1>39. CASE LineWaits
  BY <1>39, Moves DEF LineWaits, AutoCycleStart
<1>40. CASE LineEnds
  <2>1. main.caller \in {"line", "linePause", "jog"}
    BY <1>40 DEF LineEnds
  <2> QED BY <1>40, <2>1, LineEndsDoes, ProgramSpares
<1>41. CASE JogWake
  BY <1>41, Moves DEF JogWake
<1>42. CASE SyncWaits
  BY <1>42, Moves DEF SyncWaits
<1>43. CASE SyncEnds
  BY <1>43, Moves DEF SyncEnds
<1>44. CASE CmdReset
  BY <1>44 DEF CmdReset, Flagged
<1>45. CASE CmdFlag
  BY <1>45 DEF CmdFlag
<1>46. CASE CmdSpindleStop
  BY <1>46 DEF CmdSpindleStop
<1>47. CASE CmdJogCancel
  BY <1>47 DEF CmdJogCancel
<1>48. CASE DoorSwitch
  BY <1>48 DEF DoorSwitch
<1>49. CASE LimitSwitch
  BY <1>49 DEF LimitSwitch, Flagged
<1>50. CASE CmdResetKill
  BY <1>50 DEF CmdResetKill, AlarmOf
<1>51. CASE CmdJogCancelFlag
  BY <1>51 DEF CmdJogCancelFlag
<1>52. CASE UNCHANGED vars
  BY <1>52 DEF vars
<1> QED
  BY <1>1, <1>2, <1>3, <1>4, <1>5, <1>6, <1>7, <1>8, <1>9, <1>10, <1>11, <1>12, <1>13, <1>14,
     <1>15, <1>16, <1>17, <1>18, <1>19, <1>20, <1>21, <1>22, <1>23, <1>24, <1>25, <1>26, <1>27,
     <1>28, <1>29, <1>30, <1>31, <1>32, <1>33, <1>34, <1>35, <1>36, <1>37, <1>38, <1>39, <1>40,
     <1>41, <1>42, <1>43, <1>44, <1>45, <1>46, <1>47, <1>48, <1>49, <1>50, <1>51, <1>52
  DEF Next, Main, Interrupt, Clients, InCommand, ExecRtSystem, ExecRtSuspend, Program

-----------------------------------------------------------------------------
\* The suspend flags of a system state that is in the door state, in none other
\* and not half way: a restore only behind a shut door, a retraction only where
\* the machine parks, a door that is open until the machine has parked, a sleep at
\* rest.
DoorState(s) ==
  /\ "jogCancel" \in s.suspend => s.state \in {"Jog", "Alarm"}
  /\ "initiateRestore" \in s.suspend =>
       \/ s.state = "Alarm"
       \/ s.state = "SafetyDoor" /\ "safetyDoorAjar" \notin s.suspend
  /\ "retractComplete" \in s.suspend => s.state \in {"SafetyDoor", "Sleep", "Alarm"}
  /\ s.state = "SafetyDoor" /\ "retractComplete" \notin s.suspend => "safetyDoorAjar" \in s.suspend
  /\ s.state = "Sleep" => /\ "holdComplete" \in s.suspend
                          /\ "initiateRestore" \notin s.suspend /\ ~s.softLimit

\* At the boot only the state is left.
DoorHolds == main.step # "boot" => DoorState(sys)

\* On its way to the parking position the machine sleeps or its door is open.
AwayDoor ==
  main.nest \in {"pullOut", "retract"} =>
    \/ sys.state \in {"Sleep", "Alarm"}
    \/ sys.state = "SafetyDoor" /\ "safetyDoorAjar" \in sys.suspend

\* On its way back it is in the door state, and a restore is under way unless the
\* door has opened again.
BackDoor ==
  main.nest \in {"approach", "plunge"} =>
    /\ {"retractComplete"} \subseteq sys.suspend /\ "restartRetract" \notin sys.suspend
         => "initiateRestore" \in sys.suspend
    /\ Undisturbed => sys.state \in {"SafetyDoor", "Alarm"} /\ "restoreComplete" \notin sys.suspend

DoorInv == DoorHolds /\ AwayDoor /\ BackDoor

\* The hold branch keeps the door state; its parts first.
LEMMA DeceleratedDoor ==
  ASSUME NEW s \in Systems, NEW rt \in SUBSET ExecState, DoorState(s),
         NEW r, r = Cancelled(Rested(Decelerated(s, rt)), rt)
  PROVE  /\ r \in Systems /\ DoorState(r) /\ r.state = s.state
         /\ s.state # "Idle" => s.suspend \subseteq r.suspend
         /\ s.state = "Idle" => r.suspend \subseteq {"holdComplete", "motionCancel"}
         /\ s.state = "Idle" => "holdComplete" \in r.suspend
         /\ r.suspend \ s.suspend \subseteq {"jogCancel", "holdComplete", "motionCancel"}
<1> DEFINE a == Decelerated(s, rt)
           b == Rested(a)
<1>1. /\ a \in Systems /\ a.state = s.state /\ a.softLimit = s.softLimit
      /\ s.suspend \subseteq a.suspend /\ a.suspend \ s.suspend \subseteq {"jogCancel"}
      /\ a.suspend # s.suspend => s.state = "Jog"
  BY HoldTypes DEF Decelerated, Systems
<1>2. /\ b \in Systems /\ b.state = a.state /\ b.softLimit = a.softLimit
      /\ b.suspend = IF a.state = "Idle" THEN {"holdComplete"} ELSE a.suspend
  BY <1>1, HoldTypes DEF Rested, Systems
<1>3. /\ r \in Systems /\ r.state = b.state /\ r.softLimit = b.softLimit
      /\ b.suspend \subseteq r.suspend /\ r.suspend \ b.suspend \subseteq {"motionCancel"}
  BY <1>2, HoldTypes DEF Cancelled, Systems
<1> HIDE DEF a, b
<1>4. DoorState(r)
  BY <1>1, <1>2, <1>3 DEF DoorState
<1> QED BY <1>1, <1>2, <1>3, <1>4

\* So does the door branch, which makes the machine retract once more.
LEMMA OpenedDoor ==
  ASSUME NEW s \in Systems, NEW rt \in SUBSET ExecState, DoorState(s),
         s.state \notin {"Alarm", "CheckMode"},
         NEW r, r = Opened(Held(s, rt), rt)
  PROVE  /\ r \in Systems /\ DoorState(r)
         /\ s.state \in {"SafetyDoor", "Sleep"} => r.state = s.state
         /\ s.state \in {"SafetyDoor", "Sleep"} /\ "safetyDoorAjar" \in s.suspend
              => "safetyDoorAjar" \in r.suspend
         /\ r.suspend \ s.suspend \subseteq {"restartRetract", "safetyDoorAjar"}
         /\ "holdComplete" \in s.suspend => "holdComplete" \in r.suspend \/ s.state = "SafetyDoor"
         /\ "initiateRestore" \in s.suspend \ r.suspend =>
              "retractComplete" \notin r.suspend /\ "restartRetract" \in r.suspend
<1> DEFINE d == Held(s, rt)
<1>1. /\ d \in Systems /\ d.suspend = s.suspend /\ d.softLimit = s.softLimit
      /\ d.state = IF "feedHold" \in rt /\ s.state \notin {"SafetyDoor", "Jog", "Sleep"}
                   THEN "Hold" ELSE s.state
  BY HoldTypes DEF Held, Systems
<1>2. DoorState(d)
  BY <1>1 DEF DoorState
<1>3. r = Opened(d, rt)
  OBVIOUS
<1> HIDE DEF d
<1>4. CASE "safetyDoor" \notin rt
  BY <1>1, <1>2, <1>3, <1>4 DEF Opened
<1>5. CASE "safetyDoor" \in rt /\ "jogCancel" \in d.suspend
  <2>1. /\ r \in Systems /\ r.state = d.state /\ r.softLimit = d.softLimit
        /\ r.suspend = d.suspend \union {"safetyDoorAjar"}
    <3>1. r = [d EXCEPT !.state = @, !.suspend = @ \union {"safetyDoorAjar"}]
      BY <1>3, <1>5 DEF Opened
    <3>2. r \in Systems
      BY <1>1, <1>3, DoorTypes
    <3> QED BY <1>1, <3>1, <3>2 DEF Systems
  <2>2. d.state = "Jog"
    BY <1>1, <1>2, <1>5 DEF DoorState
  <2>3. DoorState(r)
    BY <1>2, <2>1, <2>2 DEF DoorState
  <2> QED BY <1>1, <2>1, <2>2, <2>3
<1>6. CASE "safetyDoor" \in rt /\ "jogCancel" \notin d.suspend
  <2> DEFINE e == Reopened(d)
  <2>1. /\ e \in Systems /\ e.state = d.state /\ e.softLimit = d.softLimit
        /\ e.suspend \ d.suspend \subseteq {"restartRetract"}
        /\ d.state = "SafetyDoor" => "initiateRestore" \notin e.suspend
        /\ e.suspend # d.suspend => /\ d.state = "SafetyDoor"
                                    /\ "retractComplete" \notin e.suspend /\ "restartRetract" \in e.suspend
        /\ "safetyDoorAjar" \in d.suspend => "safetyDoorAjar" \in e.suspend
    BY <1>1, DoorTypes DEF Reopened, Systems
  <2>2. /\ r \in Systems /\ r.softLimit = e.softLimit
        /\ r.state = IF d.state = "Sleep" THEN "Sleep" ELSE "SafetyDoor"
        /\ r.suspend = e.suspend \union {"safetyDoorAjar"}
    <3>1. r = [e EXCEPT !.state = IF @ = "Sleep" THEN @ ELSE "SafetyDoor",
                        !.suspend = @ \union {"safetyDoorAjar"}]
      BY <1>3, <1>6 DEF Opened
    <3>2. r \in Systems
      BY <1>1, <1>3, DoorTypes
    <3> QED BY <2>1, <3>1, <3>2 DEF Systems
  <2> HIDE DEF e
  <2>3. d.state # "SafetyDoor" => "initiateRestore" \notin d.suspend
    BY <1>1, <1>2 DEF DoorState
  <2>4. DoorState(r)
    <3>1. "jogCancel" \notin r.suspend
      BY <1>6, <2>1, <2>2
    <3>2. "initiateRestore" \notin r.suspend
      BY <2>1, <2>2, <2>3
    <3>3. r.state = "Sleep" => "holdComplete" \in r.suspend /\ ~r.softLimit
      BY <1>2, <2>1, <2>2 DEF DoorState
    <3> QED BY <2>2, <3>1, <3>2, <3>3 DEF DoorState
  <2> QED BY <1>1, <2>1, <2>2, <2>3, <2>4
<1> QED BY <1>4, <1>5, <1>6

\* The whole of it.  A sleep is asked for at rest only.
LEMMA HoldDoor ==
  ASSUME NEW s \in Systems, NEW rt \in SUBSET ExecState, DoorState(s),
         s.state = "Alarm" => s.suspend = {},
         "sleep" \in rt => s.state \in {"Idle", "Alarm"} /\ s.suspend = {} /\ ~s.softLimit,
         NEW r, r = Slept(Stopping(s, rt), rt)
  PROVE  /\ DoorState(r)
         /\ s.state = "SafetyDoor" => r.state = "SafetyDoor"
         /\ s.state = "Sleep" => r.state = "Sleep"
         /\ s.state \in {"SafetyDoor", "Sleep"} /\ "safetyDoorAjar" \in s.suspend
              => "safetyDoorAjar" \in r.suspend
         /\ "restoreComplete" \in r.suspend => "restoreComplete" \in s.suspend
         /\ "initiateRestore" \in r.suspend => "initiateRestore" \in s.suspend
         /\ "retractComplete" \in r.suspend => \/ "retractComplete" \in s.suspend
                                               \/ s.state = "Alarm" /\ "sleep" \in rt
         /\ "initiateRestore" \in s.suspend \ r.suspend =>
              "retractComplete" \notin r.suspend /\ "restartRetract" \in r.suspend
         /\ "restartRetract" \in s.suspend => "restartRetract" \in r.suspend \/ s.state = "Idle"
<1> DEFINE t == Stopping(s, rt)
<1>1. CASE Unstoppable(s)
  <2>1. t = s
    BY <1>1 DEF Stopping
  <2> HIDE DEF t
  <2>2. r = Slept(s, rt)
    BY <2>1 DEF t
  <2>3. CASE "sleep" \notin rt
    <3>1. r = s
      BY <2>2, <2>3 DEF Slept
    <3>2. DoorState(r)
      BY <3>1, Zenon
    <3> QED BY <2>3, <3>1, <3>2
  <2>4. CASE "sleep" \in rt
    <3>1. s.state = "Alarm"
      BY <1>1, <2>4 DEF Unstoppable
    <3>2. /\ r.state = "Sleep" /\ r.suspend = {"retractComplete", "holdComplete"} /\ ~r.softLimit
      <4>1. r = [s EXCEPT !.state = "Sleep",
                         !.suspend = @ \union {b \in {"retractComplete", "holdComplete"} : s.state = "Alarm"}]
        BY <2>2, <2>4 DEF Slept
      <4>2. /\ r.state = "Sleep" /\ r.softLimit = s.softLimit
            /\ r.suspend = s.suspend \union {b \in {"retractComplete", "holdComplete"} : s.state = "Alarm"}
        BY <4>1 DEF Systems
      <4> QED BY <2>4, <3>1, <4>2
    <3>3. DoorState(r)
      BY <3>2 DEF DoorState
    <3> QED BY <2>4, <3>1, <3>2, <3>3
  <2> QED BY <2>3, <2>4
<1>2. CASE ~Unstoppable(s)
  <2> DEFINE c == Cancelled(Rested(Decelerated(s, rt)), rt)
  <2>1. /\ c \in Systems /\ DoorState(c) /\ c.state = s.state
        /\ s.state # "Idle" => s.suspend \subseteq c.suspend
        /\ s.state = "Idle" => c.suspend \subseteq {"holdComplete", "motionCancel"}
        /\ s.state = "Idle" => "holdComplete" \in c.suspend
        /\ c.suspend \ s.suspend \subseteq {"jogCancel", "holdComplete", "motionCancel"}
    BY DeceleratedDoor
  <2>2. t = Opened(Held(c, rt), rt)
    BY <1>2 DEF Stopping
  <2> HIDE DEF c, t
  <2>3. /\ t \in Systems /\ DoorState(t)
        /\ c.state \in {"SafetyDoor", "Sleep"} => t.state = c.state
        /\ c.state \in {"SafetyDoor", "Sleep"} /\ "safetyDoorAjar" \in c.suspend
             => "safetyDoorAjar" \in t.suspend
        /\ t.suspend \ c.suspend \subseteq {"restartRetract", "safetyDoorAjar"}
        /\ "holdComplete" \in c.suspend => "holdComplete" \in t.suspend \/ c.state = "SafetyDoor"
        /\ "initiateRestore" \in c.suspend \ t.suspend =>
             "retractComplete" \notin t.suspend /\ "restartRetract" \in t.suspend
    BY <1>2, <2>1, <2>2, OpenedDoor DEF Unstoppable
  <2>r. "restartRetract" \in c.suspend => "restartRetract" \in t.suspend
    <3>1. Held(c, rt) \in Systems /\ Held(c, rt).suspend = c.suspend
      BY <2>1, HoldTypes DEF Held, Systems
    <3> QED BY <2>2, <3>1 DEF Opened, Reopened, Systems
  <2>4. r = Slept(t, rt)
    BY DEF t
  <2>5. CASE "sleep" \notin rt
    <3>1. r = t
      BY <2>4, <2>5 DEF Slept
    <3>2. DoorState(r)
      BY <2>3, <3>1, Zenon
    <3>3. "initiateRestore" \in s.suspend => s.state # "Idle"
      BY DEF DoorState
    <3> QED BY <2>1, <2>3, <2>r, <2>5, <3>1, <3>2, <3>3
  <2>6. CASE "sleep" \in rt
    <3>1. s.state = "Idle" /\ s.suspend = {} /\ ~s.softLimit
      BY <1>2, <2>6 DEF Unstoppable
    <3>2. t.softLimit = s.softLimit /\ t.state # "Alarm"
      <4>1. t.softLimit = r.softLimit
        BY <2>3, <2>4 DEF Slept, Systems
      <4>2. r.softLimit = s.softLimit
        BY HoldAlarm
      <4>3. t.state # "Alarm"
        <5>1. Slept(t, {}) = t
          BY DEF Slept
        <5>2. Held(c, rt) \in Systems /\ Held(c, rt).state \in {c.state, "Hold"}
          BY <2>1, HoldTypes DEF Held, Systems
        <5> QED BY <2>1, <2>2, <3>1, <5>2 DEF Opened, Reopened, Systems
      <4> QED BY <4>1, <4>2, <4>3
    <3>3. t.suspend \subseteq {"holdComplete", "motionCancel", "restartRetract", "safetyDoorAjar"}
          /\ "holdComplete" \in t.suspend
      BY <2>1, <2>3, <3>1
    <3>4. r.state = "Sleep" /\ r.suspend = t.suspend /\ ~r.softLimit
      <4>1. r = [t EXCEPT !.state = "Sleep",
                         !.suspend = @ \union {b \in {"retractComplete", "holdComplete"} : t.state = "Alarm"}]
        BY <2>4, <2>6 DEF Slept
      <4>2. /\ r.state = "Sleep" /\ r.softLimit = t.softLimit
            /\ r.suspend = t.suspend \union {b \in {"retractComplete", "holdComplete"} : t.state = "Alarm"}
        BY <2>3, <4>1 DEF Systems
      <4> QED BY <3>1, <3>2, <4>2
    <3>5. DoorState(r)
      BY <3>3, <3>4 DEF DoorState
    <3> QED BY <2>6, <3>1, <3>3, <3>4, <3>5
  <2> QED BY <2>5, <2>6
<1> QED BY <1>1, <1>2

\* So does the cycle stop.
LEMMA StoppedDoor ==
  ASSUME NEW s \in Systems, DoorState(s), s.state = "Alarm" => s.suspend = {},
         NEW t, t = Stopped(s)
  PROVE  /\ DoorState(t)
         /\ s.state = "SafetyDoor" /\ ("safetyDoorAjar" \in s.suspend \/ ~s.softLimit)
              => t.state = "SafetyDoor"
         /\ s.state = "Sleep" => t.state = "Sleep"
         /\ s.state \in {"SafetyDoor", "Sleep"} /\ "safetyDoorAjar" \in s.suspend
              => "safetyDoorAjar" \in t.suspend
         /\ t.state \in {"SafetyDoor", "Sleep"} =>
              /\ s.suspend \ t.suspend \subseteq {"jogCancel"}
              /\ t.suspend \ s.suspend \subseteq {"holdComplete"}
         /\ t.state \notin {"SafetyDoor", "Sleep"} =>
              t.suspend = {} \/ (t.suspend \ s.suspend \subseteq {"holdComplete"} /\ s.suspend \subseteq t.suspend)
<1>1. CASE /\ s.state \in {"Hold", "SafetyDoor", "Sleep"}
           /\ ~s.softLimit /\ "jogCancel" \notin s.suspend
  <2>1. /\ t.state = s.state /\ t.softLimit = s.softLimit
        /\ s.suspend \subseteq t.suspend /\ t.suspend \ s.suspend \subseteq {"holdComplete"}
    BY <1>1 DEF Stopped, Systems
  <2>2. DoorState(t)
    BY <2>1 DEF DoorState
  <2> QED BY <1>1, <2>1, <2>2
<1>2. CASE ~(/\ s.state \in {"Hold", "SafetyDoor", "Sleep"}
             /\ ~s.softLimit /\ "jogCancel" \notin s.suspend)
  <2>1. s.state # "Sleep"
    BY <1>2 DEF DoorState
  <2>2. CASE "safetyDoorAjar" \in s.suspend
    <3>1. /\ t.state = "SafetyDoor"
          /\ t.suspend = (s.suspend \ {"jogCancel"}) \union {"holdComplete"}
      BY <1>2, <2>2 DEF Stopped, Systems
    <3>2. "initiateRestore" \notin s.suspend
      BY <2>2 DEF DoorState
    <3>3. DoorState(t)
      BY <2>2, <3>1, <3>2 DEF DoorState
    <3> QED BY <2>1, <2>2, <3>1, <3>3
  <2>3. CASE "safetyDoorAjar" \notin s.suspend
    <3>1. t.state = "Idle" /\ t.suspend = {}
      BY <1>2, <2>3 DEF Stopped, Systems
    <3>2. DoorState(t)
      BY <3>1 DEF DoorState
    <3>3. s.state = "SafetyDoor" => s.softLimit
      BY <1>2 DEF DoorState
    <3>4. ~(s.state = "SafetyDoor" /\ ("safetyDoorAjar" \in s.suspend \/ ~s.softLimit))
      BY <2>3, <3>3, Zenon
    <3> QED BY <2>1, <2>3, <3>1, <3>2, <3>4
  <2> QED BY <2>2, <2>3
<1> QED BY <1>1, <1>2

\* A cycle start without a motion: nothing, a restore that begins, or Idle.
LEMMA StartRefusedDoor ==
  ASSUME Types, StartRefused
  PROVE  \/ sys'.state = sys.state /\ sys'.suspend = sys.suspend /\ sys'.ctl = sys.ctl
         \/ /\ sys.state = "SafetyDoor" /\ sys'.state = "SafetyDoor"
            /\ "retractComplete" \in sys.suspend /\ "safetyDoorAjar" \notin sys.suspend
            /\ sys'.suspend = sys.suspend \union {"initiateRestore"} /\ sys'.ctl = sys.ctl
         \/ /\ sys'.state = "Idle" /\ sys'.suspend = {} /\ sys'.ctl = {}
            /\ sys.state = "Hold" => "holdComplete" \in sys.suspend
            /\ sys.state = "SafetyDoor" => /\ "restoreComplete" \in sys.suspend
                                           /\ "safetyDoorAjar" \notin sys.suspend
            /\ sys.state \in {"Idle", "Hold", "SafetyDoor"}
<1> USE DEF Types
<1> DEFINE s == DoorResume(sys)
<1>1. /\ s \in Systems /\ s.ctl = sys.ctl
      /\ \/ s.state = sys.state /\ s.suspend = sys.suspend
         \/ /\ sys.state = "SafetyDoor" /\ s.state = "SafetyDoor"
            /\ "retractComplete" \in sys.suspend /\ "safetyDoorAjar" \notin sys.suspend
            /\ s.suspend = sys.suspend \union {"initiateRestore"}
         \/ /\ sys.state = "SafetyDoor" /\ s.state = "Idle"
            /\ "restoreComplete" \in sys.suspend /\ "safetyDoorAjar" \notin sys.suspend
  BY StartTypes DEF DoorResume, Systems
<1>2. \/ sys' = sys
      \/ ~Startable(s) /\ sys' = s
      \/ Startable(s) /\ RestoreFirst(s) /\ sys' = [s EXCEPT !.ovr = @ \union {"restoreCycle"}]
      \/ Startable(s) /\ sys' = Running(s, "Idle")
  BY DEF StartRefused
<1> HIDE DEF s
<1>3. CASE sys' = sys
  BY <1>3
<1>4. CASE ~Startable(s) /\ sys' = s
  BY <1>1, <1>4 DEF Startable
<1>5. CASE Startable(s) /\ RestoreFirst(s) /\ sys' = [s EXCEPT !.ovr = @ \union {"restoreCycle"}]
  <2>1. sys'.state = s.state /\ sys'.suspend = s.suspend /\ sys'.ctl = s.ctl /\ s.state = "Hold"
    BY <1>1, <1>5 DEF RestoreFirst, Systems
  <2> QED BY <1>1, <2>1
<1>6. CASE Startable(s) /\ sys' = Running(s, "Idle")
  <2>1. /\ sys'.state = "Idle" /\ sys'.suspend = {} /\ sys'.ctl = {} /\ s.state \in {"Idle", "Hold"}
        /\ s.state = "Hold" => "holdComplete" \in s.suspend
    BY <1>1, <1>6 DEF Running, Systems, Startable
  <2> QED BY <1>1, <2>1
<1> QED BY <1>2, <1>3, <1>4, <1>5, <1>6

\* Every step keeps the door state.
LEMMA DoorStep ==
  ASSUME Types, ControlInv, AutoInv, ResetInv, DoorInv, [Next]_vars
  PROVE  DoorInv'
<1> USE DEF Types, Stays, Keeps, Spares, At, Returned, Executing,
            Looping, Parked, Arrived, InHold, rtVars, env, hist, Places, Steps, Nests, Callers, ParkMotions,
            DoorInv, DoorHolds, AwayDoor, BackDoor, Undisturbed, DoorState
<1>c. ControlInv /\ AbortPending /\ NestEnded /\ AutoInv /\ NotSuspended /\ ResetInv /\ AlarmQuiet
  BY DEF ControlInv, AutoInv, ResetInv
<1>s. /\ main.step \in {"boot", "parse", "return", "jogWake"} => main.nest = "none"
      /\ main.step \in {"boot", "parse", "return", "jogWake"} /\ ~sys.abort => sys.suspend = {}
      /\ main.step \in {"holds", "start", "wake", "stop", "prep", "boot"} => ~sys.abort
      /\ main.step = "suspend" => main.nest = "suspend"
  BY <1>c DEF AbortPending, NestEnded, NotSuspended
<1>1. CASE Drain
  BY <1>1 DEF Drain
<1>2. CASE RingEmpty
  BY <1>2 DEF RingEmpty
<1>3. CASE AlarmSeen
  BY <1>3, AlarmSeenDoes, SystemSpares
<1>4. CASE AlarmDone
  BY <1>4, Moves DEF AlarmDone
<1>5. CASE CopyFlags
  BY <1>5, CopyFlagsDoes, SystemSpares
<1>6. CASE Holds
  <2>1. main.step = "holds" /\ Stays /\ main'.step = "start" /\ ~sys.abort /\ again' = again
    BY <1>6, <1>s, HoldsDoes, SystemSpares
  <2>2. CASE sys' = sys
    BY <2>1, <2>2
  <2>3. CASE sys' = Slept(Stopping(sys, main.rt), main.rt)
    <3>1. sys.state = "Alarm" => sys.suspend = {} /\ main.nest = "none"
      BY <1>c, <2>1 DEF AlarmQuiet
    <3>2. "sleep" \in main.rt => /\ sys.state \in {"Idle", "Alarm"} /\ sys.suspend = {}
                                 /\ ~sys.softLimit /\ main.nest = "none"
      BY <1>c, <2>1 DEF ResetInv, SleepPending, SleepCopied, NotSuspended
    <3>3. DoorState(sys)
      BY <2>1
    <3>4. sys'.softLimit = sys.softLimit
      BY <2>3, HoldAlarm
    <3> DEFINE r == sys'
    <3>5. /\ DoorState(r)
          /\ sys.state = "SafetyDoor" => r.state = "SafetyDoor"
          /\ sys.state = "Sleep" => r.state = "Sleep"
          /\ sys.state \in {"SafetyDoor", "Sleep"} /\ "safetyDoorAjar" \in sys.suspend
               => "safetyDoorAjar" \in r.suspend
          /\ "restoreComplete" \in r.suspend => "restoreComplete" \in sys.suspend
          /\ "retractComplete" \in r.suspend => "retractComplete" \in sys.suspend \/ "sleep" \in main.rt
          /\ "initiateRestore" \in sys.suspend \ r.suspend => "retractComplete" \notin r.suspend
          /\ "restartRetract" \in sys.suspend => "restartRetract" \in r.suspend \/ sys.state = "Idle"
      <4> HIDE DEF DoorState
      <4> QED BY <2>3, <3>1, <3>2, <3>3, HoldDoor
    <3>6. DoorHolds'
      BY <3>5
    <3>7. AwayDoor'
      BY <2>1, <3>1, <3>5
    <3>8. BackDoor'
      <4> SUFFICES ASSUME main.nest \in {"approach", "plunge"} PROVE BackDoor'
        BY <2>1
      <4>1. "retractComplete" \in r.suspend => "retractComplete" \in sys.suspend
        BY <3>2, <3>5
      <4>2. "retractComplete" \in sys.suspend => sys.state # "Idle"
        BY <3>3
      <4> QED BY <2>1, <3>1, <3>4, <3>5, <4>1, <4>2
    <3> QED BY <3>6, <3>7, <3>8
  <2> QED BY <1>6, <2>2, <2>3, HoldsDoes
<1>7. CASE StartNothing
  BY <1>7, Moves DEF StartNothing
<1>8. CASE StartRefused
  BY <1>8, StartRefusedDoes, StartRefusedDoor, SystemSpares
<1>9. CASE StartCycle
  BY <1>9, StartCycleDoes, SystemSpares
<1>10. CASE WakeUp
  BY <1>10, Moves DEF WakeUp
<1>11. CASE CycleStop
  <2>1. main.step = "stop" /\ Goto("prep") /\ again' = again /\ (sys' = sys \/ sys' = Stopped(sys))
    BY <1>11 DEF CycleStop
  <2>2. Stays /\ main'.step = "prep"
    BY <2>1, Moves
  <2>3. CASE sys' = sys
    BY <2>1, <2>2, <2>3
  <2>4. CASE sys' = Stopped(sys)
    <3>1. sys.state = "Alarm" => sys.suspend = {} /\ main.nest = "none"
      BY <1>c, <1>s, <2>1 DEF AlarmQuiet
    <3>3. DoorState(sys)
      BY <2>1
    <3>4. sys'.softLimit = sys.softLimit
      BY <2>4, StoppedAlarm
    <3>5. /\ DoorState(sys')
          /\ sys.state = "SafetyDoor" /\ ("safetyDoorAjar" \in sys.suspend \/ ~sys.softLimit)
               => sys'.state = "SafetyDoor"
          /\ sys.state = "Sleep" => sys'.state = "Sleep"
          /\ sys.state \in {"SafetyDoor", "Sleep"} /\ "safetyDoorAjar" \in sys.suspend
               => "safetyDoorAjar" \in sys'.suspend
          /\ \/ sys'.suspend = {}
             \/ /\ sys.suspend \ sys'.suspend \subseteq {"jogCancel"}
                /\ sys'.suspend \ sys.suspend \subseteq {"holdComplete"}
      <4> HIDE DEF DoorState
      <4> QED BY <2>4, <3>1, <3>3, StoppedDoor
    <3> QED BY <2>1, <2>2, <3>1, <3>3, <3>4, <3>5
  <2> QED BY <2>1, <2>3, <2>4
<1>12. CASE Reload
  BY <1>12, ReloadDoes, SystemSpares
<1>13. CASE Back
  BY <1>13, BackDoes, SystemSpares, <1>s
<1>14. CASE SuspendEnds
  BY <1>14, Moves, <1>s DEF SuspendEnds
<1>15. CASE AwaitRest
  BY <1>15, Moves DEF AwaitRest
<1>16. CASE StartRetract
  BY <1>16, StartRetractDoes, SuspendSpares
<1>17. CASE PulledOut
  BY <1>17, PulledOutDoes, SuspendSpares
<1>18. CASE RetractEnds
  BY <1>18, Moves, RetractedDoes DEF RetractEnds
<1>19. CASE Asleep
  BY <1>19, Moves DEF Asleep
<1>20. CASE DoorWait
  <2>1. DoorHolds'
    <3>1. main.step # "boot" /\ sys'.state = "SafetyDoor" /\ sys.state = "SafetyDoor"
      BY <1>20, DoorWaitDoes
    <3>2. DoorState(sys)
      BY <3>1
    <3>3. /\ sys'.suspend \ sys.suspend \subseteq {"restoreComplete"}
          /\ sys.suspend \ sys'.suspend \subseteq {"safetyDoorAjar"}
          /\ "retractComplete" \in sys.suspend
      <4> HIDE DEF DoorState
      <4> QED BY <1>20, DoorWaitDoes
    <3>4. DoorState(sys')
      BY <3>1, <3>2, <3>3
    <3> QED BY <3>4
  <2>2. AwayDoor'
    BY <1>20, DoorWaitDoes
  <2>3. BackDoor'
    <3> SUFFICES ASSUME main'.nest = "approach" PROVE BackDoor'
      BY <1>20, DoorWaitDoes
    <3>1. /\ "initiateRestore" \in sys'.suspend /\ sys'.state = "SafetyDoor"
      BY <1>20, DoorWaitDoes
    <3>2. ~again' => "restoreComplete" \notin sys'.suspend
      BY <1>20, DoorWaitSpares
    <3> QED BY <3>1, <3>2
  <2> QED BY <2>1, <2>2, <2>3
<1>21. CASE Approached
  BY <1>21, ApproachedDoes, SuspendSpares
<1>22. CASE PlungeEnds
  BY <1>22, PlungeEndsDoes, SuspendSpares
<1>23. CASE HoldManager
  BY <1>23, HoldManagerDoes, SuspendSpares
<1>24. CASE Reinit
  BY <1>24, ReinitDoes, ProgramSpares, <1>s
<1>25. CASE Boot
  BY <1>25, BootDoes, ProgramSpares, <1>s
<1>26. CASE Loop
  BY <1>26, Moves, <1>s DEF Loop, AutoCycleStart
<1>27. CASE ReadLine
  BY <1>27, Moves, <1>s DEF ReadLine
<1>28. CASE LoopReturns
  BY <1>28, Moves, <1>s DEF LoopReturns
<1>29. CASE CallReturns
  BY <1>29, Moves, <1>s DEF CallReturns
<1>30. CASE Refused
  BY <1>30, Moves, <1>s DEF Refused
<1>31. CASE MotionLine
  BY <1>31, Moves, <1>s DEF MotionLine
<1>32. CASE SyncLine
  BY <1>32, Moves, <1>s DEF SyncLine, Synchronize, AutoCycleStart
<1>33. CASE CheckedLine
  BY <1>33, Moves, <1>s DEF CheckedLine
<1>34. CASE SleepLine
  BY <1>34, Moves, <1>s DEF SleepLine
<1>35. CASE UnlockLine
  BY <1>35, Moves, <1>s DEF UnlockLine
<1>36. CASE CheckLine
  BY <1>36, CheckLineDoes, ResetSpares, <1>s
<1>37. CASE BeyondLine
  BY <1>37, BeyondLineDoes, ResetSpares, <1>s
<1>38. CASE SoftWait
  BY <1>38, SoftWaitDoes, ResetSpares, <1>s
<1>39. CASE LineWaits
  BY <1>39, Moves, <1>s DEF LineWaits, AutoCycleStart
<1>40. CASE LineEnds
  BY <1>40, LineEndsDoes, ProgramSpares, <1>s
<1>41. CASE JogWake
  BY <1>41, Moves, <1>s DEF JogWake
<1>42. CASE SyncWaits
  BY <1>42, Moves, <1>s DEF SyncWaits
<1>43. CASE SyncEnds
  BY <1>43, Moves, <1>s DEF SyncEnds
<1>44. CASE CmdReset
  BY <1>44 DEF CmdReset, Flagged
<1>45. CASE CmdFlag
  BY <1>45 DEF CmdFlag
<1>46. CASE CmdSpindleStop
  BY <1>46 DEF CmdSpindleStop
<1>47. CASE CmdJogCancel
  BY <1>47 DEF CmdJogCancel
<1>48. CASE DoorSwitch
  BY <1>48 DEF DoorSwitch
<1>49. CASE LimitSwitch
  BY <1>49 DEF LimitSwitch, Flagged
<1>50. CASE CmdResetKill
  BY <1>50 DEF CmdResetKill
<1>51. CASE CmdJogCancelFlag
  BY <1>51 DEF CmdJogCancelFlag
<1>52. CASE UNCHANGED vars
  BY <1>52 DEF vars
<1> QED
  BY <1>1, <1>2, <1>3, <1>4, <1>5, <1>6, <1>7, <1>8, <1>9, <1>10, <1>11, <1>12, <1>13, <1>14,
     <1>15, <1>16, <1>17, <1>18, <1>19, <1>20, <1>21, <1>22, <1>23, <1>24, <1>25, <1>26, <1>27,
     <1>28, <1>29, <1>30, <1>31, <1>32, <1>33, <1>34, <1>35, <1>36, <1>37, <1>38, <1>39, <1>40,
     <1>41, <1>42, <1>43, <1>44, <1>45, <1>46, <1>47, <1>48, <1>49, <1>50, <1>51, <1>52
  DEF Next, Main, Interrupt, Clients, InCommand, ExecRtSystem, ExecRtSuspend, Program

-----------------------------------------------------------------------------
\* A reset that is pending has switched the spindle off, or the next test of the
\* reset flag comes before anything that looks at the spindle.
ResetOff ==
  "reset" \in flags /\ spindle =>
    sys.abort \/ main.step \in {"parse", "alarm", "acknowledge", "flags"}

\* The machine comes up with the spindle off, and stays so in the state Alarm.
AlarmOff ==
  /\ main.step = "boot" => ~spindle
  /\ sys.state = "Alarm" /\ ~sys.abort =>
       \/ ~spindle
       \/ main.step = "spin"
       \/ main.step \in {"acknowledge", "flags"} /\ "reset" \in flags

\* A retraction goes on with the spindle off, also one that a reset has cut short.
RetractOff ==
  /\ main.nest = "pullOut" /\ (sys.abort \/ "reset" \in flags) => ~spindle
  /\ main.nest = "retract" => ~spindle

\* A machine that has parked has its spindle off until a restore begins.
ParkedOff ==
  /\ sys.state \in {"SafetyDoor", "Sleep"} /\ "retractComplete" \in sys.suspend /\ spindle
  => "initiateRestore" \in sys.suspend

SpindleInv == ResetOff /\ AlarmOff /\ RetractOff /\ ParkedOff

\* The end of a restore leaves the spindle as it is.
LEMMA PlungeSpares == PlungeEnds => spindle' = spindle
BY DEF PlungeEnds, power

\* Every step keeps it that a machine that has parked has its spindle off.
LEMMA SpindleStep ==
  ASSUME Types, ControlInv, AutoInv, ResetInv, DoorInv, SpindleInv, [Next]_vars
  PROVE  SpindleInv'
<1> USE DEF Types, Stays, Keeps, Spares, At, Returned, Executing, power,
            Looping, Parked, Arrived, InHold, rtVars, env, hist, Places, Steps, Nests, Callers, ParkMotions,
            SpindleInv, ResetOff, AlarmOff, RetractOff, ParkedOff
<1>c. /\ ControlInv /\ AbortPending /\ NestEnded /\ AutoInv /\ NotSuspended /\ ResetInv /\ AlarmQuiet
      /\ KillPending /\ DoorInv /\ BackDoor /\ DoorHolds
  BY DEF ControlInv, AutoInv, ResetInv, DoorInv
<1>s. /\ main.step \in {"boot", "parse", "return", "jogWake"} => main.nest = "none"
      /\ main.step \in {"boot", "parse", "return", "jogWake"} /\ ~sys.abort => sys.suspend = {}
      /\ main.step \in {"holds", "start", "wake", "stop", "prep", "boot"} => ~sys.abort
      /\ main.step = "suspend" => main.nest = "suspend"
      /\ main.step \in {"parked"} => main.nest \in ParkMotions
  BY <1>c DEF AbortPending, NestEnded, NotSuspended
<1>a. sys.state = "Alarm" /\ ~sys.abort /\ main.step \notin {"spin", "acknowledge", "flags"} =>
        /\ main.nest = "none" /\ sys.suspend = {}
        /\ main.step \in {"boot", "parse"} \/ main.caller \notin {"syncPause", "syncSpindle"}
  BY <1>c DEF AlarmQuiet
<1>1. CASE Drain
  BY <1>1 DEF Drain
<1>2. CASE RingEmpty
  BY <1>2 DEF RingEmpty
<1>3. CASE AlarmSeen
  <2>1. \/ main'.step = "spin"
        \/ main'.step = "acknowledge" /\ "reset" \in flags
        \/ sys'.state = sys.state /\ main'.step = "flags"
    BY <1>3, <1>c, AlarmSeenDoes, AlarmTaken DEF KillPending
  <2>2. /\ main.step = "alarm" /\ flags' \subseteq flags /\ (main'.step # "spin" => flags' = flags)
        /\ sys'.abort = sys.abort /\ sys'.suspend = sys.suspend /\ main'.nest = main.nest
        /\ main'.step # "flags" => sys'.state = "Alarm"
    BY <1>3, AlarmSeenDoes
  <2>3. spindle' = spindle
    BY <1>3, SystemSpares
  <2>r. main'.step = "spin" => "reset" \notin flags'
    BY <1>3, Moves DEF AlarmSeen, Critical
  <2>4. ResetOff'
    BY <2>1, <2>2, <2>3, <2>r
  <2>5. AlarmOff'
    BY <2>1, <2>2, <2>3
  <2>6. RetractOff' /\ ParkedOff'
    BY <2>1, <2>2, <2>3
  <2> QED BY <2>4, <2>5, <2>6
<1>4. CASE AlarmDone
  BY <1>4, Moves, <1>s DEF AlarmDone
<1>5. CASE CopyFlags
  <2>1. sys.abort => sys'.abort
    BY <1>5 DEF CopyFlags, Systems
  <2> QED BY <1>5, <2>1, CopyFlagsDoes, SystemSpares
<1>6. CASE Holds
  <2>1. /\ main.step = "holds" /\ Stays /\ main'.step = "start" /\ ~sys.abort /\ spindle' = spindle
        /\ flags' \subseteq flags
    BY <1>6, <1>s, HoldsDoes, SystemSpares
  <2>2. CASE sys' = sys
    BY <2>1, <2>2
  <2>3. CASE sys' = Slept(Stopping(sys, main.rt), main.rt)
    <3>1. sys.state = "Alarm" => sys.suspend = {} /\ ~spindle
      BY <1>a, <2>1
    <3>2. "sleep" \in main.rt => /\ sys.state \in {"Idle", "Alarm"} /\ sys.suspend = {}
                                 /\ ~sys.softLimit
      BY <1>c, <2>1 DEF ResetInv, SleepPending, SleepCopied, NotSuspended
    <3>3. DoorState(sys)
      BY <1>c, <2>1 DEF DoorHolds
    <3>4. /\ sys'.abort = sys.abort
          /\ sys'.state = "Alarm" => sys.state = "Alarm"
      BY <2>3, HoldAlarm, AbortKept
    <3>5. /\ "retractComplete" \in sys'.suspend => \/ "retractComplete" \in sys.suspend
                                                   \/ sys.state = "Alarm"
          /\ "initiateRestore" \in sys.suspend \ sys'.suspend => "retractComplete" \notin sys'.suspend
      BY <2>3, <3>1, <3>2, <3>3, HoldDoor
    <3>6. "retractComplete" \in sys.suspend => sys.state \in {"SafetyDoor", "Sleep", "Alarm"}
      BY <3>3 DEF DoorState
    <3>7. ParkedOff'
      BY <2>1, <3>1, <3>5, <3>6
    <3> QED BY <2>1, <3>1, <3>4, <3>7
  <2> QED BY <1>6, <2>2, <2>3, HoldsDoes
<1>7. CASE StartNothing
  BY <1>7, Moves, <1>s DEF StartNothing
<1>8. CASE StartRefused
  <2>1. Stays /\ main'.step = "stop" /\ main.step = "start" /\ flags' \subseteq flags /\ spindle' = spindle
        /\ ~sys.abort /\ ~sys'.abort
    BY <1>8, <1>s, StartRefusedDoes, SystemSpares
  <2> QED BY <1>8, <2>1, StartRefusedDoor
<1>9. CASE StartCycle
  BY <1>9, StartCycleDoes, SystemSpares, <1>s
<1>10. CASE WakeUp
  BY <1>10, Moves, <1>s DEF WakeUp
<1>11. CASE CycleStop
  <2>1. /\ main.step = "stop" /\ Goto("prep") /\ UNCHANGED <<flags, spindle>> /\ ~sys.abort
        /\ sys' = sys \/ sys' = Stopped(sys)
    BY <1>11, <1>s DEF CycleStop
  <2>2. Stays /\ main'.step = "prep"
    BY <2>1, Moves
  <2>3. CASE sys' = sys
    BY <2>1, <2>2, <2>3
  <2>4. CASE sys' = Stopped(sys)
    <3>1. sys.state = "Alarm" => sys.suspend = {}
      BY <1>a, <2>1
    <3>2. DoorState(sys)
      BY <1>c, <2>1 DEF DoorHolds
    <3>3. sys'.state # "Alarm" /\ ~sys'.abort
      BY <2>1, <2>4, StoppedAlarm
    <3>4. sys'.state \in {"SafetyDoor", "Sleep"} => /\ sys.suspend \ sys'.suspend \subseteq {"jogCancel"}
                                                    /\ sys'.suspend \ sys.suspend \subseteq {"holdComplete"}
      BY <2>4, <3>1, <3>2, StoppedDoor
    <3>5. "retractComplete" \in sys.suspend => sys.state \in {"SafetyDoor", "Sleep", "Alarm"}
      BY <3>2 DEF DoorState
    <3>6. ParkedOff'
      BY <2>1, <3>1, <3>4, <3>5
    <3> QED BY <2>1, <2>2, <3>3, <3>6
  <2> QED BY <2>1, <2>3, <2>4
<1>12. CASE Reload
  BY <1>12, ReloadDoes, SystemSpares, <1>s
<1>13. CASE Back
  BY <1>13, BackDoes, SystemSpares, <1>s
<1>14. CASE SuspendEnds
  BY <1>14, Moves, <1>s DEF SuspendEnds
<1>15. CASE AwaitRest
  BY <1>15, Moves, <1>s DEF AwaitRest
<1>16. CASE StartRetract
  BY <1>16, StartRetractDoes, SuspendSpares, <1>s
<1>17. CASE PulledOut
  BY <1>17, PulledOutDoes, SuspendSpares, <1>s
<1>18. CASE RetractEnds
  BY <1>18, Moves, <1>s DEF RetractEnds
<1>19. CASE Asleep
  BY <1>19, Moves, <1>s DEF Asleep, SetSpindle
<1>20. CASE DoorWait
  <2>1. /\ main.nest = "suspend" /\ main'.nest \in {"approach", "suspend"} /\ main'.step = "alarm"
        /\ sys.state = "SafetyDoor" /\ sys'.state = "SafetyDoor"
        /\ sys'.suspend \ sys.suspend \subseteq {"restoreComplete"}
        /\ sys.suspend \ sys'.suspend \subseteq {"safetyDoorAjar"}
        /\ "retractComplete" \in sys.suspend
    BY <1>20, DoorWaitDoes
  <2>2. spindle' => spindle \/ "initiateRestore" \in sys.suspend
    BY <1>20, DoorWaitDoes, Zenon
  <2>3. ParkedOff'
    BY <2>1, <2>2
  <2> QED BY <2>1, <2>3
<1>21. CASE Approached
  <2>1. /\ main.nest = "approach" /\ main.step = "parked" /\ main'.nest \in {"plunge", "suspend"}
        /\ main'.step \in {"parked", "alarm"} /\ (main'.step = "parked" => sys.abort)
        /\ sys'.state = sys.state /\ sys'.suspend = sys.suspend /\ sys'.abort = sys.abort
        /\ "restartRetract" \in sys.suspend => spindle' = spindle
        /\ sys.abort => spindle' = spindle
    BY <1>21, ApproachedDoes
  <2>2. "retractComplete" \in sys.suspend /\ "restartRetract" \notin sys.suspend
          => "initiateRestore" \in sys.suspend
    BY <1>c, <2>1 DEF BackDoor
  <2>3. sys.state = "Alarm" => sys.abort
    BY <1>a, <2>1
  <2>4. ParkedOff'
    BY <2>1, <2>2
  <2> QED BY <2>1, <2>3, <2>4
<1>22. CASE PlungeEnds
  <2>1. /\ main.nest = "plunge" /\ main'.nest = "suspend" /\ main'.step = "alarm" /\ spindle' = spindle
        /\ sys'.state = sys.state /\ sys'.abort = sys.abort
        /\ sys.suspend \subseteq sys'.suspend /\ sys'.suspend \ sys.suspend \subseteq {"restoreComplete"}
        /\ main.step = "parked"
    BY <1>22, PlungeSpares, PlungeEndsDoes
  <2>2. sys.state = "Alarm" => sys.abort
    BY <1>a, <2>1
  <2>3. ParkedOff'
    BY <2>1
  <2> QED BY <2>1, <2>2, <2>3
<1>23. CASE HoldManager
  <2>1. /\ Looping /\ ~Parked /\ sys'.state = sys.state
        /\ main'.step = "alarm" /\ main'.nest = "suspend"
    BY <1>23, HoldManagerDoes
  <2>2. sys.state # "Alarm"
    BY <1>a, <2>1
  <2> QED BY <2>1, <2>2
<1>24. CASE Reinit
  BY <1>24, ReinitDoes, ProgramSpares, <1>s
<1>25. CASE Boot
  BY <1>25, BootDoes, ProgramSpares, <1>s
<1>26. CASE Loop
  BY <1>26, Moves, <1>s DEF Loop, AutoCycleStart
<1>27. CASE ReadLine
  BY <1>27, Moves, <1>s DEF ReadLine
<1>28. CASE LoopReturns
  BY <1>28, Moves, <1>s DEF LoopReturns
<1>29. CASE CallReturns
  BY <1>29, Moves, <1>s DEF CallReturns
<1>30. CASE Refused
  BY <1>30, Moves, <1>s DEF Refused
<1>31. CASE MotionLine
  BY <1>31, Moves, <1>s DEF MotionLine
<1>32. CASE SyncLine
  BY <1>32, Moves, <1>s DEF SyncLine, Synchronize, AutoCycleStart
<1>33. CASE CheckedLine
  BY <1>33, Moves, <1>s DEF CheckedLine
<1>34. CASE SleepLine
  BY <1>34, Moves, <1>s DEF SleepLine
<1>35. CASE UnlockLine
  BY <1>35, Moves, <1>s DEF UnlockLine
<1>36. CASE CheckLine
  BY <1>36, CheckLineDoes, ResetSpares, <1>s
<1>37. CASE BeyondLine
  <2>1. UNCHANGED spindle \/ ~spindle' \/ spindle' = spindle
    BY <1>37, ResetSpares DEF Resets
  <2>2. /\ main.step = "return" /\ main.nest = "none" /\ main'.nest = "none" /\ ~sys.abort
        /\ main'.step = "alarm" /\ sys'.state = sys.state /\ sys'.suspend = {}
    BY <1>37, <1>s, BeyondLineDoes
  <2>3. sys.state = "Alarm" => ~spindle
    BY <1>a, <2>2
  <2> QED BY <2>1, <2>2, <2>3
<1>38. CASE SoftWait
  <2>1. ~spindle' \/ spindle' = spindle
    BY <1>38, ResetSpares DEF Resets
  <2>2. /\ main.step = "return" /\ main.nest = "none" /\ main'.nest = "none" /\ sys' = sys
        /\ main'.step \in {"parse", "alarm"}
    BY <1>38, <1>s, SoftWaitDoes
  <2>3. sys.state = "Alarm" /\ ~sys.abort => ~spindle
    BY <1>a, <2>2
  <2> QED BY <2>1, <2>2, <2>3
<1>39. CASE LineWaits
  BY <1>39, Moves, <1>s DEF LineWaits, AutoCycleStart
<1>40. CASE LineEnds
  BY <1>40, LineEndsDoes, ProgramSpares, <1>s
<1>41. CASE JogWake
  BY <1>41, Moves, <1>s DEF JogWake
<1>42. CASE SyncWaits
  BY <1>42, Moves, <1>s DEF SyncWaits
<1>43. CASE SyncEnds
  <2>1. /\ main.step = "return" /\ main.caller \in {"syncPause", "syncSpindle"} /\ sys' = sys
        /\ main.nest = "none" /\ main'.nest = "none" /\ main'.step \in {"parse", "alarm"}
        /\ sys.abort => spindle' = spindle
    BY <1>43, <1>s, Moves DEF SyncEnds, SetSpindle
  <2>2. sys.state = "Alarm" => sys.abort
    BY <1>a, <2>1
  <2>3. sys.abort \/ sys.suspend = {}
    BY <1>s, <2>1
  <2> QED BY <2>1, <2>2, <2>3
<1>44. CASE CmdReset
  BY <1>44 DEF CmdReset, Flagged
<1>45. CASE CmdFlag
  BY <1>45 DEF CmdFlag
<1>46. CASE CmdSpindleStop
  BY <1>46 DEF CmdSpindleStop
<1>47. CASE CmdJogCancel
  BY <1>47 DEF CmdJogCancel
<1>48. CASE DoorSwitch
  BY <1>48 DEF DoorSwitch
<1>49. CASE LimitSwitch
  BY <1>49 DEF LimitSwitch, Flagged
<1>50. CASE CmdResetKill
  BY <1>50 DEF CmdResetKill
<1>51. CASE CmdJogCancelFlag
  BY <1>51 DEF CmdJogCancelFlag
<1>52. CASE UNCHANGED vars
  BY <1>52 DEF vars
<1> QED
  BY <1>1, <1>2, <1>3, <1>4, <1>5, <1>6, <1>7, <1>8, <1>9, <1>10, <1>11, <1>12, <1>13, <1>14,
     <1>15, <1>16, <1>17, <1>18, <1>19, <1>20, <1>21, <1>22, <1>23, <1>24, <1>25, <1>26, <1>27,
     <1>28, <1>29, <1>30, <1>31, <1>32, <1>33, <1>34, <1>35, <1>36, <1>37, <1>38, <1>39, <1>40,
     <1>41, <1>42, <1>43, <1>44, <1>45, <1>46, <1>47, <1>48, <1>49, <1>50, <1>51, <1>52
  DEF Next, Main, Interrupt, Clients, InCommand, ExecRtSystem, ExecRtSuspend, Program

-----------------------------------------------------------------------------
\* The machine comes up at rest, with its spindle off and nothing pending.
LEMMA DoorInit == Init => ResetInv /\ DoorInv /\ SpindleInv
BY DEF Init, SysReset, ResetInv, KillPending, AlarmQuiet, SleepPending, SleepCopied, SoftPending,
       DoorInv, DoorHolds, DoorState, AwayDoor, BackDoor, SpindleInv, ResetOff, AlarmOff,
       RetractOff, ParkedOff

\* Where no reset is overtaken, every state has its resets taken in time, its door
\* flags in the door state and its spindle off where the machine has parked.
LEMMA DoorInvHolds ==
  ASSUME ~Overtaken
  PROVE  Spec => [](Types /\ ResetInv /\ DoorInv /\ SpindleInv)
<1>1. Init => ResetInv /\ DoorInv /\ SpindleInv
  BY DoorInit
<1>2. Types /\ ControlInv /\ AutoInv /\ ResetInv /\ DoorInv /\ SpindleInv /\ [Next]_vars
        => ResetInv' /\ DoorInv' /\ SpindleInv'
  BY ResetStep, DoorStep, SpindleStep
<1> QED BY <1>1, <1>2, AutoHolds, PTL DEF Spec

\* The spindle of a machine that has parked is off for as long as its door is open,
\* however often the door is opened on the way back (protocol_exec_rt_suspend()
\* retracts before it looks at the door, and restores only behind a door that is
\* shut), whatever resets, alarms and lines come in between.
THEOREM DoorStopsSpindle ==
  ASSUME ~Overtaken
  PROVE  Spec => []DoorSpindleOff
<1>1. Types /\ ResetInv /\ DoorInv /\ SpindleInv => DoorSpindleOff
  BY DEF DoorSpindleOff, DoorInv, DoorHolds, DoorState, SpindleInv, ParkedOff, AlarmOff, Types
<1> QED BY <1>1, DoorInvHolds, PTL

\* The machine that goes to its parking position or comes back from it is in the door
\* or the sleep state, or a pending alarm has taken it from there: no other real-time
\* command and no cycle stop resumes the program in the middle of the motion.
THEOREM ParkingInDoorState ==
  ASSUME ~Overtaken
  PROVE  Spec => []ParkingKeepsState
<1>1. Types /\ ResetInv /\ DoorInv /\ SpindleInv => ParkingKeepsState
  BY DEF ParkingKeepsState, ParkMotions, DoorInv, AwayDoor, BackDoor, Types
<1> QED BY <1>1, DoorInvHolds, PTL

-----------------------------------------------------------------------------
(***************************************************************************)
(* A hold at rest: when the stepper interrupt runs.                        *)
(***************************************************************************)

\* The stepper interrupt is on, or has ended and waits to be seen, in a motion of the
\* program, in a parking motion, or while a hold decelerates.
TimerOn ==
  Undisturbed /\ (timer \/ cycleStop) =>
    \/ sys.state \in {"Cycle", "Jog", "Alarm"}
    \/ "executeSysMotion" \in sys.ctl
    \/ sys.state \in {"Hold", "SafetyDoor", "Sleep"} /\ "holdComplete" \notin sys.suspend
StopStill == Undisturbed /\ cycleStop => ~timer

\* A motion of the program is not a complete hold.
MovingNotHeld == sys.state \in {"Cycle", "Jog"} => "holdComplete" \notin sys.suspend

\* The timer is woken up in a motion of the program only.
WakeRuns ==
  main.step \in {"wake", "jogWake"} =>
    /\ sys.state \in {"Cycle", "Jog"}
    /\ Undisturbed => ~timer /\ ~cycleStop

\* A parking motion is waited for.
MotionNest ==
  Undisturbed /\ "executeSysMotion" \in sys.ctl => main.nest \in ParkMotions \/ sys.abort
MotionEnds == main.step = "parked" /\ ~sys.abort => "executeSysMotion" \notin sys.ctl

\* The machine comes up with the timer off, and stays so in the state Alarm.
AlarmStill ==
  /\ main.step = "boot" => ~timer /\ ~cycleStop
  /\ sys.state = "Alarm" /\ ~sys.abort =>
       \/ ~timer /\ ~cycleStop
       \/ main.step = "spin"
       \/ main.step \in {"acknowledge", "flags"} /\ "reset" \in flags

\* The machine parks at the end of a hold, and what comes after the parking is a
\* complete hold still.
ArrivedHeld ==
  /\ Undisturbed /\ sys.state = "SafetyDoor"
  /\ "retractComplete" \in sys.suspend \/ main.nest \in {"pullOut", "retract"}
  => "holdComplete" \in sys.suspend
ReturnsParked ==
  /\ Undisturbed /\ sys.state = "SafetyDoor"
  /\ main.nest \in {"approach", "plunge"} /\ "restartRetract" \notin sys.suspend
  => "retractComplete" \in sys.suspend
RestoredParked ==
  Undisturbed /\ "restoreComplete" \in sys.suspend /\ sys.state # "Alarm" =>
    sys.state = "SafetyDoor" /\ {"retractComplete", "initiateRestore"} \subseteq sys.suspend

MotionInv == /\ TimerOn /\ StopStill /\ MovingNotHeld /\ WakeRuns /\ MotionNest /\ MotionEnds
             /\ AlarmStill /\ ArrivedHeld /\ ReturnsParked /\ RestoredParked

-----------------------------------------------------------------------------
\* What the steps leave of the motion.

\* Neither the timer goes on nor a cycle ends.
Turns == (timer' => timer) /\ (cycleStop' => cycleStop)

\* st_prep_buffer() neither begins nor ends a parking motion.
LEMMA PreparedKeeps ==
  ASSUME NEW ctl \in SUBSET StepControl, NEW q \in 0 .. QueueSize, NEW r \in BOOLEAN,
         NEW p \in Prepared(ctl, q, r)
  PROVE  p.ctl = ctl \/ p.ctl = ctl \union {"endMotion"}
<1>q. q \in Nat
  BY RealtimeAssumption DEF RealtimeAssumption
<1>1. CASE "endMotion" \in ctl
  BY <1>1 DEF Prepared
<1>2. CASE "endMotion" \notin ctl /\ "executeSysMotion" \in ctl
  <2>1. p \in [queue : {q}, ring : {TRUE}, ctl : {ctl, ctl \union {"endMotion"}}]
    BY <1>2 DEF Prepared
  <2> QED BY <2>1
<1>3. CASE "endMotion" \notin ctl /\ "executeSysMotion" \notin ctl /\ q > 0
  <2>1. \/ p \in [queue : 0 .. q, ring : {TRUE}, ctl : {ctl}]
        \/ p = [queue |-> q, ring |-> TRUE, ctl |-> ctl \union {"endMotion"}]
    BY <1>3 DEF Prepared
  <2>2. CASE p \in [queue : 0 .. q, ring : {TRUE}, ctl : {ctl}]
    <3>1. p.ctl \in {ctl}
      BY <2>2
    <3> QED BY <3>1
  <2>3. CASE p = [queue |-> q, ring |-> TRUE, ctl |-> ctl \union {"endMotion"}]
    BY <2>3
  <2> QED BY <2>1, <2>2, <2>3
<1>4. CASE "endMotion" \notin ctl /\ "executeSysMotion" \notin ctl /\ ~(q > 0)
  BY <1>4, <1>q DEF Prepared
<1> QED BY <1>1, <1>2, <1>3, <1>4

\* So it leaves the system state in this.
LEMMA PrepKeepsMotion ==
  ASSUME NEW s \in Systems, queue \in 0 .. QueueSize, ring \in BOOLEAN, PrepBuffer(s)
  PROVE  "executeSysMotion" \in sys'.ctl <=> "executeSysMotion" \in s.ctl
<1>1. PICK p \in Prepared(s.ctl, queue, ring) : sys' = [s EXCEPT !.ctl = p.ctl]
  BY DEF PrepBuffer
<1>2. p.ctl = s.ctl \/ p.ctl = s.ctl \union {"endMotion"}
  <2>1. s.ctl \in SUBSET StepControl
    BY DEF Systems
  <2> QED BY <1>1, <2>1, PreparedKeeps
<1> QED BY <1>1, <1>2 DEF Systems

\* A parking motion runs, or it is none.
LEMMA ParkTurns ==
  ASSUME NEW s \in Systems, queue \in 0 .. QueueSize, ring \in BOOLEAN, NEW n, ParkMotion(n, s)
  PROVE  /\ \/ s.abort /\ (timer' => timer) /\ sys' = s
            \/ ~s.abort /\ timer' = TRUE /\ "executeSysMotion" \in sys'.ctl
            \/ ~s.abort /\ (timer' => timer) /\ sys'.ctl = s.ctl \ {"executeSysMotion"}
<1>1. CASE s.abort /\ sys' = s /\ UNCHANGED motion
  BY <1>1 DEF motion
<1>2. CASE ~s.abort /\ PrepBuffer([s EXCEPT !.ctl = (@ \union {"executeSysMotion"}) \ {"endMotion"}])
           /\ timer' = TRUE
  <2> DEFINE t == [s EXCEPT !.ctl = (@ \union {"executeSysMotion"}) \ {"endMotion"}]
  <2>1. t \in Systems /\ "executeSysMotion" \in t.ctl
    BY DEF Systems, StepControl
  <2>2. PrepBuffer(t)
    BY <1>2
  <2> HIDE DEF t
  <2> QED BY <1>2, <2>1, <2>2, PrepKeepsMotion
<1>3. CASE ~s.abort /\ sys' = [s EXCEPT !.ctl = @ \ {"executeSysMotion"}] /\ UNCHANGED motion
  BY <1>3 DEF motion, Systems
<1> QED BY <1>1, <1>2, <1>3 DEF ParkMotion

\* protocol_exec_rt_system() switches nothing on but in WakeUp.
LEMMA SystemTurns ==
  ASSUME Types, CopyFlags \/ Holds \/ StartRefused \/ StartCycle \/ Reload \/ Back \/ AlarmSeen
  PROVE  /\ Turns
         /\ CopyFlags \/ Reload \/ Back \/ AlarmSeen =>
              ("executeSysMotion" \in sys'.ctl <=> "executeSysMotion" \in sys.ctl)
         /\ StartCycle => "executeSysMotion" \notin sys'.ctl
         /\ AlarmSeen => sys'.state = sys.state \/ sys'.state = "Alarm"
<1> USE DEF Types, Turns
<1>q. queue \in 0 .. QueueSize /\ ring \in BOOLEAN
  BY DEF MotionTypes
<1>1. CASE CopyFlags
  <2>1. Turns
    BY <1>1 DEF CopyFlags, rtVars, motion
  <2>2. sys'.ctl = sys.ctl
    BY <1>1, CopyFlagsDoes
  <2>3. ~StartCycle /\ ~AlarmSeen
    BY <1>1 DEF CopyFlags, StartCycle, AlarmSeen
  <2> QED BY <2>1, <2>2, <2>3
<1>2. CASE Holds
  <2>1. Turns
    BY <1>2 DEF Holds, motion
  <2>2. ~CopyFlags /\ ~Reload /\ ~Back /\ ~AlarmSeen /\ ~StartCycle
    BY <1>2 DEF Holds, CopyFlags, StartCycle, AlarmSeen, Reload, Back
  <2> QED BY <2>1, <2>2
<1>3. CASE StartRefused
  <2>1. Turns
    BY <1>3 DEF StartRefused, motion
  <2>2. ~CopyFlags /\ ~Reload /\ ~Back /\ ~AlarmSeen
    BY <1>3 DEF StartRefused, CopyFlags, AlarmSeen, Reload, Back
  <2>3. ~StartCycle
    BY <1>3, StartRefusedDoes, StartCycleDoes
  <2> QED BY <2>1, <2>2, <2>3
<1>4. CASE StartCycle
  <2>1. Turns
    BY <1>4 DEF StartCycle, rtVars
  <2>2. ~CopyFlags /\ ~Reload /\ ~Back /\ ~AlarmSeen
    BY <1>4 DEF StartCycle, CopyFlags, AlarmSeen, Reload, Back
  <2>3. Running(DoorResume(sys), "Cycle") \in Systems
    BY StartTypes DEF State
  <2>4. "executeSysMotion" \notin Running(DoorResume(sys), "Cycle").ctl
    <3>1. \A s \in Systems : Running(s, "Cycle").ctl = {}
      BY DEF Running, Systems
    <3>2. DoorResume(sys) \in Systems
      BY StartTypes
    <3> QED BY <3>1, <3>2
  <2>5. "executeSysMotion" \notin sys'.ctl
    <3>1. PrepBuffer(Running(DoorResume(sys), "Cycle"))
      BY <1>4 DEF StartCycle
    <3>2. queue \in 0 .. QueueSize /\ ring \in BOOLEAN
      BY <1>q
    <3> QED BY <2>3, <2>4, <3>1, <3>2, PrepKeepsMotion
  <2> QED BY <2>1, <2>2, <2>5
<1>5. CASE Reload
  <2>1. Turns
    BY <1>5 DEF Reload
  <2>2. Override(sys) \in Systems /\ Override(sys).ctl = sys.ctl
    BY StartTypes DEF Override, Systems
  <2>3. PrepBuffer(Override(sys)) \/ sys' = Override(sys)
    BY <1>5 DEF Reload
  <2>4. "executeSysMotion" \in sys'.ctl <=> "executeSysMotion" \in sys.ctl
    BY <1>q, <2>2, <2>3, PrepKeepsMotion
  <2>5. ~StartCycle /\ ~AlarmSeen
    BY <1>5 DEF Reload, StartCycle, AlarmSeen
  <2> QED BY <2>1, <2>4, <2>5
<1>6. CASE Back
  <2>1. Turns /\ sys' = sys
    BY <1>6 DEF Back, rtVars, motion
  <2>2. ~StartCycle /\ ~AlarmSeen
    BY <1>6 DEF Back, StartCycle, AlarmSeen
  <2> QED BY <2>1, <2>2
<1>7. CASE AlarmSeen
  <2>1. Turns
    BY <1>7 DEF AlarmSeen, motion
  <2>2. sys'.ctl = sys.ctl /\ (sys'.state = sys.state \/ sys'.state = "Alarm") /\ ~StartCycle
    BY <1>7, AlarmSeenDoes DEF AlarmSeen, StartCycle
  <2> QED BY <2>1, <2>2
<1> QED BY <1>1, <1>2, <1>3, <1>4, <1>5, <1>6, <1>7

\* A step of the suspend loop that may begin a parking motion: it leaves the motion
\* alone, begins one with the timer on, or makes none.
Parks ==
  /\ cycleStop' => cycleStop
  /\ \/ (timer' => timer) /\ sys'.ctl = sys.ctl /\ (main'.nest = "suspend" \/ sys.abort)
     \/ ~sys.abort /\ "executeSysMotion" \in sys'.ctl /\ main'.nest \in ParkMotions
     \/ ~sys.abort /\ (timer' => timer) /\ "executeSysMotion" \notin sys'.ctl

\* Parking or not, mc_parking_motion() keeps that.
LEMMA ParkOrNot ==
  ASSUME Types, NEW s \in Systems, s.ctl = sys.ctl, s.abort = sys.abort, NEW n \in ParkMotions,
         cycleStop' = cycleStop,
         \/ ParkMotion(n, s)
         \/ ExecIn("suspend") /\ UNCHANGED motion /\ sys'.ctl = s.ctl
  PROVE  Parks
<1> USE DEF Types
<1>1. CASE ParkMotion(n, s)
  <2>1. queue \in 0 .. QueueSize /\ ring \in BOOLEAN
    BY DEF MotionTypes
  <2>2. \/ s.abort /\ (timer' => timer) /\ sys' = s
        \/ ~s.abort /\ timer' = TRUE /\ "executeSysMotion" \in sys'.ctl
        \/ ~s.abort /\ (timer' => timer) /\ sys'.ctl = s.ctl \ {"executeSysMotion"}
    BY <1>1, <2>1, ParkTurns
  <2>3. main'.nest = n
    BY <1>1, ParkTypes
  <2>4. sys'.ctl = s.ctl \ {"executeSysMotion"} => "executeSysMotion" \notin sys'.ctl
    OBVIOUS
  <2> QED BY <2>2, <2>3, <2>4 DEF Parks
<1>2. CASE ExecIn("suspend") /\ UNCHANGED motion /\ sys'.ctl = s.ctl
  <2>1. main'.nest = "suspend"
    BY <1>2 DEF ExecIn, Places
  <2> QED BY <1>2, <2>1 DEF Parks, motion
<1> QED BY <1>1, <1>2

\* So do the steps of the suspend loop.
LEMMA SuspendTurns ==
  ASSUME Types
  PROVE  /\ StartRetract \/ PulledOut \/ DoorWait \/ Approached => Parks
         /\ PlungeEnds \/ HoldManager => Turns /\ sys'.ctl = sys.ctl
<1> USE DEF Types
<1>s. /\ [sys EXCEPT !.ovr = {}] \in Systems /\ DoorChecked \in Systems
  BY SuspendTypes
<1>t. /\ Retracted(sys).ctl = sys.ctl
      /\ DoorChecked.ctl = sys.ctl /\ DoorChecked.abort = sys.abort
      /\ [sys EXCEPT !.ovr = {}].ctl = sys.ctl /\ [sys EXCEPT !.ovr = {}].abort = sys.abort
  BY DEF Retracted, DoorChecked, Systems
<1>u. Retracted([sys EXCEPT !.ovr = {}]).ctl = sys.ctl
  BY DEF Retracted, Systems
<1>r. ASSUME NEW s \in Systems, Restored(s) PROVE sys'.ctl = s.ctl
  BY <1>r DEF Restored, Systems
<1>1. ASSUME StartRetract PROVE Parks
  <2> DEFINE s == [sys EXCEPT !.ovr = {}]
  <2>1. cycleStop' = cycleStop
    BY <1>1 DEF StartRetract, rtVars
  <2>2. \/ ParkMotion("pullOut", s) \/ ParkMotion("retract", s)
        \/ ExecIn("suspend") /\ UNCHANGED motion /\ sys' = Retracted(s)
    BY <1>1 DEF StartRetract
  <2>3. s \in Systems /\ s.ctl = sys.ctl /\ s.abort = sys.abort /\ Retracted(s).ctl = s.ctl
    BY <1>s, <1>t, <1>u
  <2> HIDE DEF s
  <2> QED BY <2>1, <2>2, <2>3, ParkOrNot DEF ParkMotions
<1>2. ASSUME PulledOut PROVE Parks
  <2>1. cycleStop' = cycleStop
    BY <1>2 DEF PulledOut, rtVars
  <2>2. \/ ParkMotion("retract", sys)
        \/ ExecIn("suspend") /\ UNCHANGED motion /\ sys' = Retracted(sys)
    BY <1>2 DEF PulledOut
  <2> QED BY <1>t, <2>1, <2>2, ParkOrNot DEF ParkMotions
<1>3. ASSUME DoorWait PROVE Parks
  <2> DEFINE s == DoorChecked
  <2>1. cycleStop' = cycleStop
    BY <1>3 DEF DoorWait
  <2>2. \/ ParkMotion("approach", s)
        \/ ExecIn("suspend") /\ UNCHANGED motion /\ (sys' = s \/ Restored(s))
    BY <1>3 DEF DoorWait
  <2>3. s \in Systems /\ s.ctl = sys.ctl /\ s.abort = sys.abort
    BY <1>s, <1>t
  <2> HIDE DEF s
  <2>4. sys' = s \/ Restored(s) => sys'.ctl = s.ctl
    BY <1>r, <2>3
  <2> QED BY <2>1, <2>2, <2>3, <2>4, ParkOrNot DEF ParkMotions
<1>4. ASSUME Approached PROVE Parks
  <2>1. cycleStop' = cycleStop
    BY <1>4 DEF Approached
  <2>2. \/ ParkMotion("plunge", sys)
        \/ ExecIn("suspend") /\ UNCHANGED motion /\ Restored(sys)
    BY <1>4 DEF Approached
  <2>3. Restored(sys) => sys'.ctl = sys.ctl
    BY <1>r
  <2> QED BY <2>1, <2>2, <2>3, ParkOrNot DEF ParkMotions
<1>5. ASSUME PlungeEnds PROVE Turns /\ sys'.ctl = sys.ctl
  BY <1>5, <1>r DEF PlungeEnds, Turns, motion
<1>6. ASSUME HoldManager PROVE Turns /\ sys'.ctl = sys.ctl
  BY <1>6 DEF HoldManager, Turns, motion, Systems
<1> QED BY <1>1, <1>2, <1>3, <1>4, <1>5, <1>6

\* The program never switches the timer on, but for a jog.
LEMMA ProgramTurns ==
  ASSUME Types
  PROVE  /\ Boot => Turns /\ sys'.ctl = sys.ctl
         /\ LineEnds => Turns /\ ("executeSysMotion" \in sys'.ctl <=> "executeSysMotion" \in sys.ctl)
         /\ CheckLine \/ BeyondLine \/ SoftWait =>
              Turns /\ sys'.ctl = sys.ctl
         /\ Reinit => ~timer' /\ ~cycleStop' /\ ~modal'
<1> USE DEF Types
<1>1. ASSUME Boot PROVE Turns /\ sys'.ctl = sys.ctl
  BY <1>1 DEF Boot, Turns, motion, Systems
<1>2. ASSUME LineEnds
      PROVE Turns /\ ("executeSysMotion" \in sys'.ctl <=> "executeSysMotion" \in sys.ctl)
  <2>1. Turns
    BY <1>2 DEF LineEnds, Turns
  <2>2. CASE sys' = sys
    BY <2>1, <2>2
  <2>3. CASE sys' # sys
    <3>1. PICK q \in {queue, queue + 1} : \E p \in Prepared(sys.ctl, q, ring) :
                         sys' = [sys EXCEPT !.state = "Jog", !.ctl = p.ctl]
      BY <1>2, <2>3 DEF LineEnds
    <3>2. q \in 0 .. QueueSize
      <4>1. queue \in 0 .. QueueSize /\ queue # QueueSize
        BY <1>2, <2>3 DEF LineEnds, Full, MotionTypes
      <4> QED BY <3>1, <4>1, ConstantTypes
    <3>3. PICK p \in Prepared(sys.ctl, q, ring) : sys' = [sys EXCEPT !.state = "Jog", !.ctl = p.ctl]
      BY <3>1
    <3>4. sys.ctl \in SUBSET StepControl /\ ring \in BOOLEAN
      BY DEF Systems, MotionTypes
    <3>5. p.ctl = sys.ctl \/ p.ctl = sys.ctl \union {"endMotion"}
      BY <3>2, <3>3, <3>4, PreparedKeeps
    <3> QED BY <2>1, <3>3, <3>5 DEF Systems
  <2> QED BY <2>2, <2>3
<1>3. ASSUME CheckLine PROVE Turns /\ sys'.ctl = sys.ctl
  <2>1. timer' => timer
    BY <1>3, Zenon DEF CheckLine, Killed
  <2>2. cycleStop' => cycleStop
    BY <1>3 DEF CheckLine
  <2>3. sys'.ctl = sys.ctl
    BY <1>3, CheckLineDoes
  <2> QED BY <2>1, <2>2, <2>3 DEF Turns
<1>4. ASSUME BeyondLine PROVE Turns /\ sys'.ctl = sys.ctl
  <2>1. timer' => timer
    BY <1>4, Zenon DEF BeyondLine, SoftReset, Killed
  <2>2. cycleStop' => cycleStop
    BY <1>4 DEF BeyondLine
  <2>3. sys'.ctl = sys.ctl
    BY <1>4, BeyondLineDoes
  <2> QED BY <2>1, <2>2, <2>3 DEF Turns
<1>5. ASSUME SoftWait PROVE Turns /\ sys'.ctl = sys.ctl
  <2>1. timer' => timer
    BY <1>5, Zenon DEF SoftWait, SoftReset, Killed
  <2>2. cycleStop' => cycleStop
    BY <1>5 DEF SoftWait
  <2>3. sys'.ctl = sys.ctl
    BY <1>5, SoftWaitDoes
  <2> QED BY <2>1, <2>2, <2>3 DEF Turns
<1>6. ASSUME Reinit PROVE ~timer' /\ ~cycleStop' /\ ~modal'
  BY <1>6 DEF Reinit
<1> QED BY <1>1, <1>2, <1>3, <1>4, <1>5, <1>6

\* The hold branch: a motion of the program decelerates, and is no complete hold
\* afterwards; what is at rest is one; a restore that the door interrupts is to be
\* begun anew, and a hold that was complete stays so unless its parking motion runs.
LEMMA DeceleratedRuns ==
  ASSUME NEW s \in Systems, NEW rt \in SUBSET ExecState,
         NEW c, c = Cancelled(Rested(Decelerated(s, rt)), rt)
  PROVE  /\ c \in Systems /\ c.state = s.state
         /\ c.ctl = s.ctl \/ (s.state \in {"Cycle", "Jog"} /\ c.ctl = {"executeHold"})
         /\ s.state = "Idle" => /\ "holdComplete" \in c.suspend
                                /\ c.suspend \subseteq {"holdComplete", "motionCancel"}
         /\ s.state # "Idle" => /\ s.suspend \subseteq c.suspend
                                /\ c.suspend \ s.suspend \subseteq {"jogCancel", "motionCancel"}
<1> DEFINE a == Decelerated(s, rt)
           b == Rested(a)
<1>1. /\ a \in Systems /\ a.state = s.state
      /\ s.suspend \subseteq a.suspend /\ a.suspend \ s.suspend \subseteq {"jogCancel"}
      /\ a.ctl = s.ctl \/ (s.state \in {"Cycle", "Jog"} /\ a.ctl = {"executeHold"})
  <2> DEFINE j == {x \in {"jogCancel"} : s.state = "Jog" /\ "sleep" \notin rt}
  <2>1. CASE a = s
    BY <2>1
  <2>2. CASE /\ s.state \in {"Cycle", "Jog"}
             /\ a = [s EXCEPT !.ctl = {"executeHold"}, !.suspend = @ \union j]
    <3>1. a.state = s.state /\ a.ctl = {"executeHold"} /\ a.suspend = s.suspend \union j
      BY <2>2 DEF Systems
    <3>2. a \in Systems
      BY HoldTypes
    <3> QED BY <2>2, <3>1, <3>2
  <2> QED BY <2>1, <2>2 DEF Decelerated
<1>2. /\ b \in Systems /\ b.state = a.state /\ b.ctl = a.ctl
      /\ b.suspend = IF a.state = "Idle" THEN {"holdComplete"} ELSE a.suspend
  BY <1>1, HoldTypes DEF Rested, Systems
<1>3. /\ c \in Systems /\ c.state = b.state /\ c.ctl = b.ctl
      /\ b.suspend \subseteq c.suspend /\ c.suspend \ b.suspend \subseteq {"motionCancel"}
  BY <1>2, HoldTypes DEF Cancelled, Systems
<1> HIDE DEF a, b
<1> QED BY <1>1, <1>2, <1>3

\* What the door takes back when it opens during a restore.
Reopens(s, r) ==
  /\ "executeSysMotion" \in r.ctl <=> "executeSysMotion" \in s.ctl
  /\ r.suspend \ s.suspend \subseteq {"restartRetract", "safetyDoorAjar"}
  /\ s.suspend \ r.suspend \subseteq
       {"retractComplete", "initiateRestore", "restoreComplete", "holdComplete"}
  /\ "holdComplete" \in s.suspend \ r.suspend => "executeSysMotion" \in s.ctl
  /\ s.suspend \ r.suspend # {} =>
       /\ s.state = "SafetyDoor" /\ "initiateRestore" \in s.suspend
       /\ "retractComplete" \notin r.suspend /\ "restoreComplete" \notin r.suspend
       /\ "restartRetract" \in r.suspend

\* A feed hold and a door of one pass do so.
LEMMA OpenedRuns ==
  ASSUME NEW s \in Systems, NEW rt \in SUBSET ExecState,
         s.state \notin {"Alarm", "CheckMode"},
         NEW r, r = Opened(Held(s, rt), rt)
  PROVE  /\ r \in Systems /\ Reopens(s, r)
         /\ r.state \in {s.state, "Hold", "SafetyDoor"}
         /\ s.state \in {"SafetyDoor", "Sleep"} => r.state = s.state
<1> DEFINE d == Held(s, rt)
<1>1. /\ d \in Systems /\ d.suspend = s.suspend /\ d.ctl = s.ctl
      /\ d.state = IF "feedHold" \in rt /\ s.state \notin {"SafetyDoor", "Jog", "Sleep"}
                   THEN "Hold" ELSE s.state
  BY HoldTypes DEF Held, Systems
<1>2. r = Opened(d, rt) /\ r \in Systems
  BY <1>1, DoorTypes
<1> HIDE DEF d
<1>4. CASE "safetyDoor" \notin rt
  BY <1>1, <1>2, <1>4 DEF Opened, Reopens
<1>5. CASE "safetyDoor" \in rt /\ "jogCancel" \in d.suspend
  <2>1. r = [d EXCEPT !.state = @, !.suspend = @ \union {"safetyDoorAjar"}]
    BY <1>2, <1>5 DEF Opened
  <2>2. r.state = d.state /\ r.ctl = d.ctl /\ r.suspend = d.suspend \union {"safetyDoorAjar"}
    BY <1>1, <1>2, <2>1 DEF Systems
  <2> QED BY <1>1, <1>2, <2>2 DEF Reopens
<1>6. CASE "safetyDoor" \in rt /\ "jogCancel" \notin d.suspend
  <2> DEFINE e == Reopened(d)
  <2>1. /\ e \in Systems /\ e.state = d.state
        /\ \/ e = d
           \/ /\ d.state = "SafetyDoor" /\ "initiateRestore" \in d.suspend
              /\ e.ctl = IF "executeSysMotion" \in d.ctl THEN {"executeHold", "executeSysMotion"} ELSE d.ctl
              /\ e.suspend = (d.suspend \ ({"retractComplete", "initiateRestore", "restoreComplete"} \union
                                    {b \in {"holdComplete"} : "executeSysMotion" \in d.ctl}))
                             \union {"restartRetract"}
    BY <1>1, DoorTypes DEF Reopened, Systems
  <2>2. /\ r.state = IF d.state = "Sleep" THEN "Sleep" ELSE "SafetyDoor"
        /\ r.suspend = e.suspend \union {"safetyDoorAjar"} /\ r.ctl = e.ctl
    <3>1. r = [e EXCEPT !.state = IF @ = "Sleep" THEN @ ELSE "SafetyDoor",
                        !.suspend = @ \union {"safetyDoorAjar"}]
      BY <1>2, <1>6 DEF Opened
    <3> QED BY <2>1, <3>1 DEF Systems
  <2> HIDE DEF e
  <2>3. s.state = "SafetyDoor" <=> d.state = "SafetyDoor"
    BY <1>1
  <2>4. Reopens(s, r)
    BY <1>1, <2>1, <2>2, <2>3 DEF Reopens
  <2> QED BY <1>1, <1>2, <2>2, <2>4
<1> QED BY <1>4, <1>5, <1>6

\* The whole of it.
LEMMA HoldRuns ==
  ASSUME NEW s \in Systems, NEW rt \in SUBSET ExecState,
         s.state = "Alarm" => s.suspend = {},
         "sleep" \in rt => s.state \in {"Idle", "Alarm"},
         NEW r, r = Slept(Stopping(s, rt), rt)
  PROVE  /\ "executeSysMotion" \in r.ctl => "executeSysMotion" \in s.ctl
         /\ s.state \notin {"Cycle", "Jog"} /\ "executeSysMotion" \in s.ctl => "executeSysMotion" \in r.ctl
         /\ s.state \notin {"Idle", "Alarm"} /\ "holdComplete" \in r.suspend => "holdComplete" \in s.suspend
         /\ s.state \in {"Cycle", "Jog"} => r.state \in {s.state, "Hold", "SafetyDoor"}
         /\ s.state \in {"Hold", "SafetyDoor", "Sleep"} => r.state \in {s.state, "Hold", "SafetyDoor"}
         /\ s.state \in {"SafetyDoor", "Sleep"} => r.state = s.state
         /\ s.state = "Idle" => r.state \notin {"Cycle", "Jog"}
         /\ s.state = "Idle" => r.suspend \intersect {"retractComplete", "restoreComplete"} = {}
         /\ s.state = "CheckMode" => r = s
         /\ s.state # "Idle" /\ ~(s.suspend \subseteq r.suspend) =>
              /\ s.state = "SafetyDoor" /\ "initiateRestore" \in s.suspend
              /\ "retractComplete" \notin r.suspend /\ "restoreComplete" \notin r.suspend
              /\ "restartRetract" \in r.suspend
<1> DEFINE t == Stopping(s, rt)
<1>1. CASE s.state \in {"Alarm", "CheckMode"}
  <2>1. t = s
    BY <1>1 DEF Stopping, Unstoppable
  <2> HIDE DEF t
  <2>2. r = Slept(s, rt)
    BY <2>1 DEF t
  <2>3. CASE "sleep" \notin rt
    <3>1. r = s
      BY <2>2, <2>3 DEF Slept
    <3> QED BY <1>1, <3>1
  <2>4. CASE "sleep" \in rt
    <3>1. s.state = "Alarm" /\ s.suspend = {}
      BY <1>1, <2>4
    <3>2. r.ctl = s.ctl
      <4>1. r = [s EXCEPT !.state = "Sleep",
                         !.suspend = @ \union {b \in {"retractComplete", "holdComplete"} : s.state = "Alarm"}]
        BY <2>2, <2>4 DEF Slept
      <4> QED BY <4>1 DEF Systems
    <3> QED BY <2>4, <3>1, <3>2
  <2> QED BY <2>3, <2>4
<1>2. CASE s.state \notin {"Alarm", "CheckMode"}
  <2> DEFINE c == Cancelled(Rested(Decelerated(s, rt)), rt)
  <2>1. /\ c \in Systems /\ c.state = s.state
        /\ c.ctl = s.ctl \/ (s.state \in {"Cycle", "Jog"} /\ c.ctl = {"executeHold"})
        /\ s.state = "Idle" => /\ "holdComplete" \in c.suspend
                               /\ c.suspend \subseteq {"holdComplete", "motionCancel"}
        /\ s.state # "Idle" => /\ s.suspend \subseteq c.suspend
                               /\ c.suspend \ s.suspend \subseteq {"jogCancel", "motionCancel"}
    BY DeceleratedRuns
  <2>2. t = Opened(Held(c, rt), rt)
    BY <1>2 DEF Stopping, Unstoppable
  <2> HIDE DEF c, t
  <2>3. /\ t \in Systems /\ Reopens(c, t)
        /\ t.state \in {c.state, "Hold", "SafetyDoor"}
        /\ c.state \in {"SafetyDoor", "Sleep"} => t.state = c.state
    BY <1>2, <2>1, <2>2, OpenedRuns
  <2>4. r = Slept(t, rt)
    BY DEF t
  <2>5. /\ r.ctl = t.ctl /\ r.suspend = t.suspend
        /\ r.state = t.state \/ (s.state = "Idle" /\ r.state = "Sleep")
    <3>1. CASE "sleep" \notin rt
      BY <2>4, <3>1 DEF Slept
    <3>2. CASE "sleep" \in rt
      <4>1. r = [t EXCEPT !.state = "Sleep",
                         !.suspend = @ \union {b \in {"retractComplete", "holdComplete"} : t.state = "Alarm"}]
        BY <2>4, <3>2 DEF Slept
      <4>2. t.state # "Alarm" /\ s.state = "Idle"
        BY <1>2, <2>1, <2>3, <3>2
      <4> QED BY <2>3, <4>1, <4>2 DEF Systems
    <3> QED BY <3>1, <3>2
  <2>6. CASE s.state = "Idle"
    BY <2>1, <2>3, <2>5, <2>6 DEF Reopens
  <2>7. CASE s.state # "Idle"
    BY <1>2, <2>1, <2>3, <2>5, <2>7 DEF Reopens
  <2> QED BY <2>6, <2>7
<1> QED BY <1>1, <1>2

\* The cycle stop ends parking motions and every state but a hold.
LEMMA StoppedRuns ==
  ASSUME NEW s \in Systems, NEW t, t = Stopped(s)
  PROVE  /\ "executeSysMotion" \in t.ctl => "executeSysMotion" \in s.ctl
         /\ \/ /\ s.state \in {"Hold", "SafetyDoor", "Sleep"} /\ ~s.softLimit /\ "jogCancel" \notin s.suspend
               /\ t.state = s.state /\ s.suspend \subseteq t.suspend
               /\ t.suspend \ s.suspend \subseteq {"holdComplete"}
               /\ "executeSysMotion" \notin t.ctl
            \/ /\ s.state \notin {"Hold", "SafetyDoor", "Sleep"} \/ s.softLimit \/ "jogCancel" \in s.suspend
               /\ \/ t.state = "Idle" /\ t.suspend = {}
                  \/ /\ t.state = "SafetyDoor" /\ "safetyDoorAjar" \in s.suspend
                     /\ t.suspend = (s.suspend \ {"jogCancel"}) \union {"holdComplete"}
<1>1. CASE s.state \in {"Hold", "SafetyDoor", "Sleep"} /\ ~s.softLimit /\ "jogCancel" \notin s.suspend
  <2>1. t = [s EXCEPT !.suspend = @ \union {b \in {"holdComplete"} : "executeHold" \in s.ctl},
                      !.ctl = @ \ {"executeHold", "executeSysMotion"}]
    BY <1>1 DEF Stopped
  <2>2. /\ t.state = s.state /\ t.ctl = s.ctl \ {"executeHold", "executeSysMotion"}
        /\ t.suspend = s.suspend \union {b \in {"holdComplete"} : "executeHold" \in s.ctl}
    BY <2>1 DEF Systems
  <2> QED BY <1>1, <2>2
<1>2. CASE s.state \notin {"Hold", "SafetyDoor", "Sleep"} \/ s.softLimit \/ "jogCancel" \in s.suspend
  <2> DEFINE c == IF "jogCancel" \in s.suspend THEN {} ELSE s.ctl
  <2>1. t = IF "safetyDoorAjar" \in s.suspend
            THEN [s EXCEPT !.ctl = c, !.state = "SafetyDoor",
                           !.suspend = (@ \ {"jogCancel"}) \union {"holdComplete"}]
            ELSE [s EXCEPT !.ctl = c, !.state = "Idle", !.suspend = {}]
    BY <1>2 DEF Stopped
  <2>2. c \subseteq s.ctl
    OBVIOUS
  <2> HIDE DEF c
  <2>3. t.ctl = c
    BY <2>1 DEF Systems
  <2>4. \/ t.state = "Idle" /\ t.suspend = {}
        \/ /\ t.state = "SafetyDoor" /\ "safetyDoorAjar" \in s.suspend
           /\ t.suspend = (s.suspend \ {"jogCancel"}) \union {"holdComplete"}
    BY <2>1 DEF Systems
  <2> QED BY <1>2, <2>2, <2>3, <2>4
<1> QED BY <1>1, <1>2

\* Whatever a cycle start starts from is at rest.
LEMMA StartsAtRest ==
  ASSUME Types, DoorInv, MotionInv, Undisturbed, ~sys.abort, main.step # "boot",
         \/ sys.state = "Idle"
         \/ sys.state = "Hold" /\ "holdComplete" \in sys.suspend
         \/ /\ sys.state = "SafetyDoor" /\ "restoreComplete" \in sys.suspend
            /\ "safetyDoorAjar" \notin sys.suspend
  PROVE  ~timer /\ ~cycleStop /\ "executeSysMotion" \notin sys.ctl
<1>1. main.nest \in {"pullOut", "retract"} =>
        sys.state \in {"Sleep", "Alarm"} \/ (sys.state = "SafetyDoor" /\ "safetyDoorAjar" \in sys.suspend)
  BY DEF DoorInv, AwayDoor
<1>2. main.nest \in {"approach", "plunge"} =>
        sys.state \in {"SafetyDoor", "Alarm"} /\ "restoreComplete" \notin sys.suspend
  BY DEF DoorInv, BackDoor
<1>3. "executeSysMotion" \in sys.ctl => main.nest \in ParkMotions
  BY DEF MotionInv, MotionNest
<1>4. "executeSysMotion" \notin sys.ctl
  BY <1>1, <1>2, <1>3 DEF ParkMotions
<1>5. sys.state = "SafetyDoor" => "holdComplete" \in sys.suspend
  BY DEF MotionInv, RestoredParked, ArrivedHeld
<1>6. timer \/ cycleStop =>
        \/ sys.state \in {"Cycle", "Jog", "Alarm"}
        \/ "executeSysMotion" \in sys.ctl
        \/ sys.state \in {"Hold", "SafetyDoor", "Sleep"} /\ "holdComplete" \notin sys.suspend
  BY DEF MotionInv, TimerOn
<1>7. ~(timer \/ cycleStop)
  BY <1>4, <1>5, <1>6
<1> QED BY <1>4, <1>7

\* A restore without parking motions is complete only after it has begun.
LEMMA RestoreBegun ==
  ASSUME Types, DoorWait
  PROVE  "restoreComplete" \in sys'.suspend \ sys.suspend => "initiateRestore" \in sys.suspend
<1>1. CASE "initiateRestore" \in sys.suspend
  BY <1>1
<1>2. CASE "initiateRestore" \notin sys.suspend
  <2>1. DoorChecked.suspend \subseteq sys.suspend
    BY DEF DoorChecked, Types, Systems
  <2>2. sys' = DoorChecked
    <3>1. "initiateRestore" \notin DoorChecked.suspend
      BY <1>2, <2>1
    <3>2. \/ "initiateRestore" \notin DoorChecked.suspend /\ sys' = DoorChecked
          \/ "initiateRestore" \in DoorChecked.suspend
      BY Zenon DEF DoorWait
    <3> QED BY <3>1, <3>2
  <2> QED BY <2>1, <2>2
<1> QED BY <1>1, <1>2

\* Every step keeps it: the timer runs in a motion only.
LEMMA MotionInvStep ==
  ASSUME Types, ControlInv, AutoInv, ResetInv, DoorInv, MotionInv, [Next]_vars
  PROVE  MotionInv'
<1> USE DEF Types, Stays, Keeps, Spares, Turns, At, Returned, Executing, motion,
            Looping, Parked, Arrived, InHold, rtVars, env, hist, Places, Steps, Nests, Callers, ParkMotions,
            MotionInv, TimerOn, StopStill, MovingNotHeld, WakeRuns, MotionNest, MotionEnds, AlarmStill,
            ArrivedHeld, ReturnsParked, RestoredParked, Undisturbed
<1>c. /\ ControlInv /\ AbortPending /\ NestEnded /\ AutoInv /\ NotSuspended /\ ResetInv /\ AlarmQuiet
      /\ KillPending /\ DoorInv /\ BackDoor /\ DoorHolds /\ AwayDoor
  BY DEF ControlInv, AutoInv, ResetInv, DoorInv
<1>s. /\ main.step \in {"boot", "parse", "return", "jogWake", "reinit"} => main.nest = "none"
      /\ main.step \in {"parse", "return", "jogWake", "reinit"} /\ ~sys.abort => sys.suspend = {}
      /\ main.step \in {"holds", "start", "wake", "stop", "prep", "boot"} => ~sys.abort
      /\ main.step = "suspend" => main.nest = "suspend"
      /\ main.step \in {"parked"} => main.nest \in ParkMotions
  BY <1>c DEF AbortPending, NestEnded, NotSuspended
<1>a. sys.state = "Alarm" /\ ~sys.abort /\ main.step \notin {"spin", "acknowledge", "flags"} =>
        main.nest = "none" /\ sys.suspend = {}
  BY <1>c DEF AlarmQuiet
<1>1. CASE Drain
  BY <1>1 DEF Drain
<1>2. CASE RingEmpty
  BY <1>2 DEF RingEmpty
<1>3. CASE AlarmSeen
  <2>1. /\ main.step = "alarm" /\ main'.nest = main.nest /\ sys'.suspend = sys.suspend
        /\ sys'.softLimit = sys.softLimit /\ again' = again
        /\ sys.abort => sys'.abort
        /\ sys'.abort => sys.abort
        /\ "executeSysMotion" \in sys'.ctl => "executeSysMotion" \in sys.ctl
        /\ "executeSysMotion" \in sys.ctl => "executeSysMotion" \in sys'.ctl
    BY <1>3, AlarmSeenDoes, SystemTurns, SystemSpares
  <2>2. Turns
    BY <1>3, SystemTurns
  <2>3. \/ main'.step = "flags" /\ sys'.state = sys.state
        \/ main'.step = "spin" /\ sys'.state = "Alarm"
        \/ main'.step = "acknowledge" /\ sys'.state = "Alarm" /\ "reset" \in flags'
    BY <1>3, <1>c, AlarmSeenDoes, AlarmTaken DEF KillPending
  <2> QED BY <2>1, <2>2, <2>3
<1>4. CASE AlarmDone
  BY <1>4, Moves, <1>s DEF AlarmDone
<1>5. CASE CopyFlags
  <2>1. /\ main.step = "flags" /\ main'.nest = main.nest /\ sys'.suspend = sys.suspend
        /\ sys'.softLimit = sys.softLimit /\ again' = again
        /\ sys'.state = sys.state /\ sys'.ctl = sys.ctl
        /\ "reset" \in flags => sys'.abort
        /\ main'.step \in {"holds", "prep", "back"}
    BY <1>5, CopyFlagsDoes, SystemSpares
  <2>2. Turns
    BY <1>5, SystemTurns
  <2>3. sys.abort => sys'.abort
    BY <1>5 DEF CopyFlags, Systems
  <2> QED BY <2>1, <2>2, <2>3
<1>6. CASE Holds
  <2>1. /\ main.step = "holds" /\ main'.nest = main.nest /\ main'.step = "start" /\ ~sys.abort
        /\ again' = again
    BY <1>6, <1>s, HoldsDoes, SystemSpares
  <2>2. Turns
    BY <1>6, SystemTurns
  <2>3. CASE sys' = sys
    BY <2>1, <2>2, <2>3
  <2>4. CASE sys' = Slept(Stopping(sys, main.rt), main.rt)
    <3> DEFINE r == sys'
               s == sys
    <3>1. sys.state = "Alarm" => sys.suspend = {} /\ ~timer /\ ~cycleStop /\ main.nest = "none"
      BY <1>a, <2>1
    <3>2. "sleep" \in main.rt => /\ sys.state \in {"Idle", "Alarm"} /\ sys.suspend = {}
                                 /\ ~sys.softLimit
      BY <1>c, <2>1 DEF ResetInv, SleepPending, SleepCopied, NotSuspended
    <3>3. DoorState(sys)
      BY <1>c, <2>1 DEF DoorHolds
    <3>4. /\ r.softLimit = s.softLimit /\ ~r.abort
          /\ r.state = "Alarm" => s.state = "Alarm"
          /\ s.state = "Alarm" => r.state \in {"Alarm", "Sleep"}
          /\ "sleep" \in main.rt => r.state = "Sleep"
      BY <2>1, <2>4, HoldAlarm, AbortKept
    <3>5. /\ "executeSysMotion" \in r.ctl => "executeSysMotion" \in s.ctl
          /\ s.state \notin {"Cycle", "Jog"} /\ "executeSysMotion" \in s.ctl => "executeSysMotion" \in r.ctl
          /\ s.state \notin {"Idle", "Alarm"} /\ "holdComplete" \in r.suspend => "holdComplete" \in s.suspend
          /\ s.state \in {"Cycle", "Jog"} => r.state \in {s.state, "Hold", "SafetyDoor"}
          /\ s.state \in {"Hold", "SafetyDoor", "Sleep"} => r.state \in {s.state, "Hold", "SafetyDoor"}
          /\ s.state \in {"SafetyDoor", "Sleep"} => r.state = s.state
          /\ s.state = "Idle" => r.state \notin {"Cycle", "Jog"}
          /\ s.state = "Idle" => r.suspend \intersect {"retractComplete", "restoreComplete"} = {}
          /\ s.state = "CheckMode" => r = s
          /\ s.state # "Idle" /\ ~(s.suspend \subseteq r.suspend) =>
               /\ s.state = "SafetyDoor" /\ "initiateRestore" \in s.suspend
               /\ "retractComplete" \notin r.suspend /\ "restoreComplete" \notin r.suspend
               /\ "restartRetract" \in r.suspend
      BY <2>4, <3>1, <3>2, HoldRuns
    <3>6. /\ "restoreComplete" \in r.suspend => "restoreComplete" \in s.suspend
          /\ "retractComplete" \in r.suspend => \/ "retractComplete" \in s.suspend
                                                \/ s.state = "Alarm" /\ "sleep" \in main.rt
          /\ "restartRetract" \in s.suspend => "restartRetract" \in r.suspend \/ s.state = "Idle"
      BY <2>4, <3>1, <3>2, <3>3, HoldDoor
    <3>7. /\ "retractComplete" \in s.suspend => s.state \in {"SafetyDoor", "Sleep", "Alarm"}
          /\ "initiateRestore" \in s.suspend /\ s.state = "SafetyDoor" => "safetyDoorAjar" \notin s.suspend
      BY <3>3 DEF DoorState
    <3>8. TimerOn' /\ StopStill'
      BY <2>1, <2>2, <3>1, <3>4, <3>5
    <3>9. MovingNotHeld' /\ WakeRuns' /\ MotionEnds' /\ AlarmStill'
      <4>1. r.state \in {"Cycle", "Jog"} => s.state \in {"Cycle", "Jog"}
        BY <3>4, <3>5 DEF Systems, State
      <4>2. MovingNotHeld'
        BY <3>5, <4>1
      <4> QED BY <2>1, <2>2, <3>1, <3>4, <4>2
    <3>10. MotionNest'
      BY <2>1, <3>4, <3>5
    <3>11. ArrivedHeld'
      <4> SUFFICES ASSUME Undisturbed', r.state = "SafetyDoor",
                          "retractComplete" \in r.suspend \/ main.nest \in {"pullOut", "retract"}
                   PROVE  "holdComplete" \in r.suspend
        BY <2>1
      <4>1. "sleep" \notin main.rt
        BY <3>4
      <4>2. s.state = "SafetyDoor"
        BY <1>c, <3>1, <3>5, <3>6, <3>7, <4>1 DEF AwayDoor
      <4>3. "holdComplete" \in s.suspend
        BY <2>1, <3>1, <3>4, <3>6, <4>1, <4>2
      <4>4. main.nest \in {"pullOut", "retract"} => "initiateRestore" \notin s.suspend
        BY <1>c, <3>7, <4>2 DEF AwayDoor
      <4> QED BY <3>5, <4>2, <4>3, <4>4
    <3>12. ReturnsParked'
      <4> SUFFICES ASSUME Undisturbed', r.state = "SafetyDoor", main.nest \in {"approach", "plunge"},
                          "restartRetract" \notin r.suspend
                   PROVE  "retractComplete" \in r.suspend
        BY <2>1
      <4>1. s.state = "SafetyDoor"
        BY <1>c, <2>1, <3>1, <3>4 DEF BackDoor
      <4>2. "retractComplete" \in s.suspend
        BY <2>1, <3>4, <3>6, <4>1
      <4> QED BY <3>5, <4>1, <4>2
    <3>13. RestoredParked'
      BY <2>1, <3>1, <3>4, <3>5, <3>6
    <3> QED BY <3>8, <3>9, <3>10, <3>11, <3>12, <3>13
  <2> QED BY <1>6, <2>3, <2>4, HoldsDoes
<1>7. CASE StartNothing
  BY <1>7, Moves, <1>s DEF StartNothing
<1>8. CASE StartRefused
  <2>1. /\ main.step = "start" /\ main'.nest = main.nest /\ main'.step = "stop" /\ ~sys.abort
        /\ again' = again /\ sys'.softLimit = sys.softLimit
    BY <1>8, <1>s, StartRefusedDoes, SystemSpares
  <2>2. Turns
    BY <1>8, SystemTurns
  <2>3. CASE sys'.state = sys.state /\ sys'.suspend = sys.suspend /\ sys'.ctl = sys.ctl
    BY <2>1, <2>2, <2>3
  <2>4. CASE /\ sys.state = "SafetyDoor" /\ sys'.state = "SafetyDoor"
             /\ sys'.suspend = sys.suspend \union {"initiateRestore"} /\ sys'.ctl = sys.ctl
    BY <2>1, <2>2, <2>4
  <2>5. CASE /\ sys'.state = "Idle" /\ sys'.suspend = {} /\ sys'.ctl = {}
             /\ sys.state = "Hold" => "holdComplete" \in sys.suspend
             /\ sys.state = "SafetyDoor" => /\ "restoreComplete" \in sys.suspend
                                            /\ "safetyDoorAjar" \notin sys.suspend
             /\ sys.state \in {"Idle", "Hold", "SafetyDoor"}
    <3>1. Undisturbed => ~timer /\ ~cycleStop
      BY <1>c, <2>1, <2>5, StartsAtRest
    <3> QED BY <2>1, <2>2, <2>5, <3>1
  <2> QED BY <1>8, <2>3, <2>4, <2>5, StartRefusedDoor
<1>9. CASE StartCycle
  <2>1. /\ main.step = "start" /\ main'.nest = main.nest /\ main'.step = "wake" /\ ~sys.abort
        /\ again' = again /\ sys'.softLimit = sys.softLimit
        /\ sys'.state = "Cycle" /\ sys'.suspend = {}
        /\ \/ sys.state = "Idle"
           \/ sys.state = "Hold" /\ "holdComplete" \in sys.suspend
           \/ sys.state = "SafetyDoor" /\ {"restoreComplete"} \subseteq sys.suspend
              /\ "safetyDoorAjar" \notin sys.suspend
    BY <1>9, <1>s, StartCycleDoes, SystemSpares
  <2>2. Turns /\ "executeSysMotion" \notin sys'.ctl
    BY <1>9, SystemTurns
  <2>3. Undisturbed => ~timer /\ ~cycleStop
    BY <1>c, <2>1, StartsAtRest
  <2> QED BY <2>1, <2>2, <2>3
<1>10. CASE WakeUp
  BY <1>10, Moves, <1>s DEF WakeUp
<1>11. CASE CycleStop
  <2>1. /\ main.step = "stop" /\ again' = again /\ ~sys.abort
        /\ main'.nest = main.nest /\ main'.step = "prep"
    BY <1>11, <1>s, Moves DEF CycleStop
  <2>2. Turns /\ ~cycleStop'
    BY <1>11 DEF CycleStop
  <2>3. CASE sys' = sys
    BY <2>1, <2>2, <2>3
  <2>4. CASE cycleStop /\ sys' = Stopped(sys)
    <3> DEFINE t == sys'
               s == sys
    <3>1. sys.state = "Alarm" => sys.suspend = {} /\ main.nest = "none"
      BY <1>a, <2>1
    <3>2. DoorState(sys)
      BY <1>c, <2>1 DEF DoorHolds
    <3>3. t.state # "Alarm" /\ ~t.abort /\ t.softLimit = s.softLimit
      BY <2>1, <2>4, StoppedAlarm
    <3>4. "executeSysMotion" \in t.ctl => "executeSysMotion" \in s.ctl
      BY <2>4, StoppedRuns
    <3>5. \/ /\ s.state \in {"Hold", "SafetyDoor", "Sleep"}
             /\ t.state = s.state /\ s.suspend \subseteq t.suspend
             /\ t.suspend \ s.suspend \subseteq {"holdComplete"}
          \/ /\ s.state \notin {"Hold", "SafetyDoor", "Sleep"} \/ s.softLimit \/ "jogCancel" \in s.suspend
             /\ \/ t.state = "Idle" /\ t.suspend = {}
                \/ /\ t.state = "SafetyDoor"
                   /\ t.suspend = (s.suspend \ {"jogCancel"}) \union {"holdComplete"}
      BY <2>4, StoppedRuns
    <3>6. "jogCancel" \in s.suspend => s.state \in {"Jog", "Alarm"}
      BY <3>2 DEF DoorState
    <3>7. Undisturbed => ~timer
      BY <2>4
    <3>8. TimerOn' /\ StopStill' /\ WakeRuns' /\ MotionEnds' /\ AlarmStill'
      BY <2>1, <2>2, <3>3, <3>7
    <3>9. MovingNotHeld' /\ MotionNest'
      BY <2>1, <3>3, <3>4, <3>5
    <3>10. ArrivedHeld'
      BY <2>1, <3>3, <3>5
    <3>11. Undisturbed /\ main.nest \in {"approach", "plunge"} => sys.state = "SafetyDoor"
      BY <1>c, <2>1, <3>1 DEF BackDoor
    <3>12. ReturnsParked'
      BY <2>1, <3>3, <3>5, <3>6, <3>11
    <3>13. RestoredParked'
      BY <2>1, <3>1, <3>3, <3>5, <3>6
    <3> QED BY <3>8, <3>9, <3>10, <3>12, <3>13
  <2> QED BY <1>11, <2>3, <2>4 DEF CycleStop
<1>12. CASE Reload
  <2>1. /\ main.step = "prep" /\ main'.nest = main.nest /\ main'.step = "back"
        /\ again' = again /\ sys'.softLimit = sys.softLimit
        /\ sys'.state = sys.state /\ sys'.suspend = sys.suspend
        /\ sys.abort => sys'.abort
        /\ sys'.abort => sys.abort
        /\ "executeSysMotion" \in sys'.ctl => "executeSysMotion" \in sys.ctl
        /\ "executeSysMotion" \in sys.ctl => "executeSysMotion" \in sys'.ctl
    BY <1>12, ReloadDoes, SystemTurns, SystemSpares
  <2>2. Turns
    BY <1>12, SystemTurns
  <2> QED BY <2>1, <2>2
<1>13. CASE Back
  <2>1. /\ main.step = "back" /\ sys' = sys /\ again' = again /\ flags' = flags
        /\ main'.step \in {"return", "suspend", "alarm", "parked"}
        /\ main.nest \in ParkMotions \/ main'.nest \in ParkMotions => main'.nest = main.nest
        /\ main'.step = "parked" => sys.abort \/ "executeSysMotion" \notin sys.ctl
    BY <1>13, BackDoes, SystemSpares
  <2>2. Turns
    BY <1>13, SystemTurns
  <2> QED BY <2>1, <2>2
<1>14. CASE SuspendEnds
  BY <1>14, Moves, <1>s DEF SuspendEnds
<1>15. CASE AwaitRest
  BY <1>15, Moves, <1>s DEF AwaitRest
<1>16. CASE StartRetract
  <2>1. /\ Looping /\ InHold /\ Parked /\ ~Arrived /\ main'.step = "alarm"
        /\ main'.nest \in {"pullOut", "retract", "suspend"}
        /\ sys'.state = sys.state /\ ~sys'.abort /\ sys'.softLimit = sys.softLimit /\ again' = again
        /\ main'.nest # "suspend" => sys'.suspend = sys.suspend
        /\ main'.nest = "suspend" =>
             sys'.suspend = (sys.suspend \ {"restartRetract"}) \union {"retractComplete"}
    BY <1>16, StartRetractDoes, SuspendSpares
  <2>2. Parks
    BY <1>16, SuspendTurns
  <2>3. main.nest = "suspend" /\ main.step = "suspend" /\ ~sys.abort
        /\ sys.state \in {"SafetyDoor", "Sleep"} /\ "holdComplete" \in sys.suspend
    BY <2>1
  <2>4. Undisturbed => ~timer /\ ~cycleStop /\ "executeSysMotion" \notin sys.ctl
    BY <2>3
  <2>5. TimerOn' /\ StopStill'
    BY <2>1, <2>2, <2>4 DEF Parks
  <2>6. MotionNest'
    BY <2>1, <2>2, <2>4 DEF Parks
  <2>7. ArrivedHeld' /\ ReturnsParked' /\ MovingNotHeld' /\ AlarmStill' /\ WakeRuns' /\ MotionEnds'
    BY <2>1, <2>3
  <2>8. RestoredParked'
    BY <2>1, <2>3
  <2> QED BY <2>5, <2>6, <2>7, <2>8
<1>17. CASE PulledOut
  <2>1. /\ main.nest = "pullOut" /\ main.step = "parked"
        /\ main'.nest \in {"retract", "suspend"}
        /\ main'.step = IF main'.nest = "retract" /\ sys.abort THEN "parked" ELSE "alarm"
        /\ sys'.state = sys.state /\ sys'.softLimit = sys.softLimit /\ again' = again
        /\ sys'.abort = sys.abort
        /\ main'.nest = "retract" => sys'.suspend = sys.suspend
        /\ main'.nest = "suspend" =>
             sys'.suspend = (sys.suspend \ {"restartRetract"}) \union {"retractComplete"}
    BY <1>17, PulledOutDoes, SuspendSpares
  <2>2. Parks
    BY <1>17, SuspendTurns
  <2>3. sys.state \in {"SafetyDoor", "Sleep", "Alarm"}
    BY <1>c, <2>1 DEF AwayDoor
  <2>4. ~sys.abort => "executeSysMotion" \notin sys.ctl
    BY <2>1
  <2>5. TimerOn' /\ StopStill'
    <3>1. "holdComplete" \in sys'.suspend <=> "holdComplete" \in sys.suspend
      BY <2>1
    <3>2. Undisturbed' <=> Undisturbed
      BY <2>1
    <3>3. CASE sys.abort
      BY <2>1, <2>2, <3>1, <3>2, <3>3 DEF Parks
    <3>4. CASE ~sys.abort
      <4>1. sys.state # "Alarm"
        BY <1>a, <2>1, <3>4
      <4>2. sys.state = "Sleep" => "holdComplete" \in sys.suspend
        BY <1>c, <2>1 DEF DoorHolds, DoorState
      <4>3. Undisturbed => "holdComplete" \in sys.suspend
        BY <2>1, <2>3, <4>1, <4>2
      <4>4. Undisturbed => ~timer /\ ~cycleStop
        BY <2>3, <2>4, <3>4, <4>1, <4>3
      <4> QED BY <2>1, <2>2, <3>1, <3>2, <4>4 DEF Parks
    <3> QED BY <3>3, <3>4
  <2>6. MotionNest' /\ MotionEnds'
    BY <2>1, <2>2, <2>4 DEF Parks
  <2>7. ArrivedHeld' /\ ReturnsParked' /\ MovingNotHeld' /\ WakeRuns'
    BY <2>1, <2>3
  <2>8. AlarmStill'
    BY <1>a, <2>1
  <2>9. RestoredParked'
    BY <2>1, <2>3
  <2> QED BY <2>5, <2>6, <2>7, <2>8, <2>9
<1>18. CASE RetractEnds
  <2>1. /\ main.nest = "retract" /\ main.step = "parked"
        /\ main'.nest = "suspend" /\ main'.step = "alarm"
        /\ again' = again
    BY <1>18, Moves DEF RetractEnds
  <2>2. sys' = Retracted(sys) /\ timer' = timer /\ cycleStop' = cycleStop
    BY <1>18 DEF RetractEnds
  <2>3. /\ sys'.state = sys.state /\ sys'.softLimit = sys.softLimit /\ sys'.abort = sys.abort
        /\ sys'.suspend = (sys.suspend \ {"restartRetract"}) \union {"retractComplete"}
    BY <2>2, RetractedDoes
  <2>4. sys'.ctl = sys.ctl
    BY <2>2 DEF Retracted, Systems
  <2>5. sys.state \in {"SafetyDoor", "Sleep", "Alarm"}
    BY <1>c, <2>1 DEF AwayDoor
  <2>6. ~sys.abort => "executeSysMotion" \notin sys.ctl
    BY <2>1
  <2>7. TimerOn' /\ StopStill' /\ MotionNest' /\ MotionEnds'
    BY <2>1, <2>2, <2>3, <2>4, <2>6
  <2>8. ArrivedHeld' /\ ReturnsParked' /\ MovingNotHeld' /\ WakeRuns'
    BY <2>1, <2>3, <2>5
  <2>9. AlarmStill'
    BY <1>a, <2>1, <2>3
  <2>10. RestoredParked'
    BY <2>1, <2>3, <2>5
  <2> QED BY <2>7, <2>8, <2>9, <2>10
<1>19. CASE Asleep
  BY <1>19, Moves, <1>s DEF Asleep
<1>20. CASE DoorWait
  <2>1. /\ Looping /\ InHold /\ Arrived /\ sys.state = "SafetyDoor" /\ main'.step = "alarm"
        /\ main'.nest \in {"approach", "suspend"}
        /\ sys'.state = sys.state /\ ~sys'.abort /\ sys'.softLimit = sys.softLimit
        /\ again => again'
        /\ sys'.suspend \ sys.suspend \subseteq {"restoreComplete"}
        /\ sys.suspend \ sys'.suspend \subseteq {"safetyDoorAjar"}
    BY <1>20, DoorWaitDoes, DoorWaitSpares
  <2>2. Parks
    BY <1>20, SuspendTurns
  <2>3. main.nest = "suspend" /\ main.step = "suspend" /\ ~sys.abort
        /\ {"holdComplete", "retractComplete"} \subseteq sys.suspend
    BY <2>1
  <2>4. Undisturbed' => Undisturbed
    BY <2>1
  <2>5. Undisturbed => ~timer /\ ~cycleStop /\ "executeSysMotion" \notin sys.ctl
    BY <2>1, <2>3
  <2>6. {"holdComplete", "retractComplete"} \subseteq sys'.suspend
    BY <2>1, <2>3
  <2>7. TimerOn' /\ StopStill'
    BY <2>1, <2>2, <2>4, <2>5 DEF Parks
  <2>8. MotionNest'
    BY <2>1, <2>2, <2>4, <2>5 DEF Parks
  <2>9. ArrivedHeld' /\ ReturnsParked' /\ MovingNotHeld' /\ AlarmStill' /\ WakeRuns' /\ MotionEnds'
    BY <2>1, <2>6
  <2>10. "restoreComplete" \in sys'.suspend \ sys.suspend => "initiateRestore" \in sys.suspend
    BY <1>20, RestoreBegun
  <2>11. RestoredParked'
    BY <2>1, <2>4, <2>6, <2>10
  <2> QED BY <2>7, <2>8, <2>9, <2>11
<1>21. CASE Approached
  <2>1. /\ main.nest = "approach" /\ main.step = "parked"
        /\ main'.nest \in {"plunge", "suspend"}
        /\ main'.step = IF main'.nest = "plunge" /\ sys.abort THEN "parked" ELSE "alarm"
        /\ sys'.state = sys.state /\ sys'.softLimit = sys.softLimit /\ sys'.abort = sys.abort
        /\ sys'.suspend = sys.suspend /\ again' = again
    BY <1>21, ApproachedDoes, SuspendSpares DEF Keeps
  <2>2. Parks
    BY <1>21, SuspendTurns
  <2>3. ~sys.abort => "executeSysMotion" \notin sys.ctl
    BY <2>1
  <2>4. TimerOn' /\ StopStill'
    <3>1. "holdComplete" \in sys'.suspend <=> "holdComplete" \in sys.suspend
      BY <2>1
    <3>2. Undisturbed' <=> Undisturbed
      BY <2>1
    <3>3. CASE sys.abort
      BY <2>1, <2>2, <3>1, <3>2, <3>3 DEF Parks
    <3>4. CASE ~sys.abort
      <4>1. Undisturbed => sys.state = "SafetyDoor"
        BY <1>a, <1>c, <2>1, <3>4 DEF BackDoor
      <4>2. main'.nest \in ParkMotions => "restartRetract" \notin sys.suspend
        BY <1>21, <2>1, ApproachedDoes
      <4>3. Undisturbed /\ main'.nest \in ParkMotions => "holdComplete" \in sys.suspend
        BY <2>1, <4>1, <4>2
      <4>4. Undisturbed /\ main'.nest \in ParkMotions => ~timer /\ ~cycleStop
        BY <2>3, <3>4, <4>1, <4>3
      <4>5. Undisturbed => TimerOn' /\ StopStill'
        BY <2>1, <2>2, <2>3, <3>1, <3>2, <3>4, <4>1, <4>4 DEF Parks
      <4> QED BY <3>2, <4>5
    <3> QED BY <3>3, <3>4
  <2>5. MotionNest' /\ MotionEnds'
    BY <2>1, <2>2, <2>3 DEF Parks
  <2>6. ArrivedHeld' /\ ReturnsParked' /\ MovingNotHeld' /\ WakeRuns' /\ RestoredParked'
    BY <2>1
  <2>7. AlarmStill'
    BY <1>a, <2>1
  <2> QED BY <2>4, <2>5, <2>6, <2>7
<1>22. CASE PlungeEnds
  <2>1. /\ main.nest = "plunge" /\ main.step = "parked"
        /\ main'.nest = "suspend" /\ main'.step = "alarm"
        /\ sys'.state = sys.state /\ sys'.softLimit = sys.softLimit /\ sys'.abort = sys.abort
        /\ again' = again
        /\ sys'.suspend = sys.suspend \union
             {b \in {"restoreComplete"} : "restartRetract" \notin sys.suspend}
    BY <1>22, PlungeEndsDoes, SuspendSpares
  <2>2. Turns /\ sys'.ctl = sys.ctl
    BY <1>22, SuspendTurns
  <2>3. ~sys.abort => "executeSysMotion" \notin sys.ctl
    BY <2>1
  <2>4. "holdComplete" \in sys'.suspend <=> "holdComplete" \in sys.suspend
    BY <2>1
  <2>5. TimerOn' /\ StopStill' /\ MotionNest' /\ MotionEnds'
    BY <2>1, <2>2, <2>3, <2>4
  <2>6. ArrivedHeld' /\ ReturnsParked' /\ MovingNotHeld' /\ WakeRuns'
    BY <2>1, <2>4
  <2>7. AlarmStill'
    BY <1>a, <2>1
  <2>8. Undisturbed /\ "restoreComplete" \in sys'.suspend \ sys.suspend /\ sys.state # "Alarm" =>
          sys.state = "SafetyDoor" /\ {"retractComplete", "initiateRestore"} \subseteq sys.suspend
    BY <1>c, <2>1 DEF BackDoor
  <2>9. RestoredParked'
    BY <2>1, <2>8
  <2> QED BY <2>5, <2>6, <2>7, <2>9
<1>23. CASE HoldManager
  <2>1. /\ Looping /\ InHold /\ ~Parked /\ main'.step = "alarm" /\ main'.nest = "suspend"
        /\ sys'.state = sys.state /\ sys'.suspend = sys.suspend
        /\ ~sys'.abort /\ sys'.softLimit = sys.softLimit /\ again' = again
    BY <1>23, HoldManagerDoes, SuspendSpares
  <2>2. Turns /\ sys'.ctl = sys.ctl
    BY <1>23, SuspendTurns
  <2>3. main.nest = "suspend" /\ main.step = "suspend" /\ ~sys.abort
    BY <2>1
  <2> QED BY <2>1, <2>2, <2>3
<1>24. CASE Reinit
  BY <1>24, ReinitDoes, ProgramTurns, ProgramSpares, <1>s
<1>25. CASE Boot
  <2>1. /\ main.step = "boot" /\ main'.nest = main.nest /\ main'.step \in {"parse", "alarm"}
        /\ sys'.state \in {"Alarm", "Idle"} /\ again' = again
        /\ sys'.suspend = sys.suspend /\ sys'.abort = sys.abort /\ sys'.softLimit = sys.softLimit
    BY <1>25, BootDoes, ProgramSpares DEF Keeps
  <2>2. Turns /\ sys'.ctl = sys.ctl
    BY <1>25, ProgramTurns
  <2>3. main.nest = "none" /\ ~sys.abort /\ sys.suspend = {} /\ ~timer /\ ~cycleStop
    BY <1>c, <1>s, <2>1 DEF NotSuspended
  <2> QED BY <2>1, <2>2, <2>3
<1>26. CASE Loop
  BY <1>26, Moves, <1>s DEF Loop, AutoCycleStart
<1>27. CASE ReadLine
  BY <1>27, Moves, <1>s DEF ReadLine
<1>28. CASE LoopReturns
  BY <1>28, Moves, <1>s DEF LoopReturns
<1>29. CASE CallReturns
  BY <1>29, Moves, <1>s DEF CallReturns
<1>30. CASE Refused
  BY <1>30, Moves, <1>s DEF Refused
<1>31. CASE MotionLine
  BY <1>31, Moves, <1>s DEF MotionLine
<1>32. CASE SyncLine
  BY <1>32, Moves, <1>s DEF SyncLine, Synchronize, AutoCycleStart
<1>33. CASE CheckedLine
  BY <1>33, Moves, <1>s DEF CheckedLine
<1>34. CASE SleepLine
  BY <1>34, Moves, <1>s DEF SleepLine
<1>35. CASE UnlockLine
  <2>1. /\ main.step = "return" /\ ~sys.abort /\ sys.state = "Alarm" /\ main'.step = "parse"
        /\ main'.nest = main.nest /\ again' = again
    BY <1>35, Moves DEF UnlockLine, Accepts
  <2>2. sys' = [sys EXCEPT !.state = "Idle"] /\ timer' = timer /\ cycleStop' = cycleStop
    BY <1>35 DEF UnlockLine
  <2>3. /\ sys'.state = "Idle" /\ sys'.suspend = sys.suspend /\ sys'.ctl = sys.ctl
        /\ sys'.abort = sys.abort /\ sys'.softLimit = sys.softLimit
    BY <2>2 DEF Systems
  <2>4. main.nest = "none" /\ sys.suspend = {} /\ ~timer /\ ~cycleStop
    BY <1>a, <2>1
  <2> QED BY <2>1, <2>2, <2>3, <2>4
<1>36. CASE CheckLine
  <2>1. /\ main.step = "return" /\ ~sys.abort /\ main'.step = "parse"
        /\ main'.nest = main.nest /\ again' = again
        /\ sys'.suspend = sys.suspend /\ sys'.abort = sys.abort /\ sys'.softLimit = sys.softLimit
        /\ sys'.state = "CheckMode"
    BY <1>36, CheckLineDoes, ResetSpares DEF Keeps
  <2>2. Turns /\ sys'.ctl = sys.ctl
    BY <1>36, ProgramTurns
  <2>3. sys.state \in {"Idle", "CheckMode"} /\ main.nest = "none" /\ sys.suspend = {}
    BY <1>36, <1>s, <2>1 DEF CheckLine
  <2> QED BY <2>1, <2>2, <2>3
<1>37. CASE BeyondLine
  <2>1. /\ main.step = "return" /\ ~sys.abort /\ main'.step = "alarm"
        /\ main'.nest = main.nest /\ again' = again
        /\ sys'.suspend = sys.suspend /\ sys'.abort = sys.abort /\ sys'.softLimit
        /\ sys'.state = sys.state
    BY <1>37, BeyondLineDoes, ResetSpares
  <2>2. Turns /\ sys'.ctl = sys.ctl
    BY <1>37, ProgramTurns
  <2>3. sys.state = "Alarm" => ~timer /\ ~cycleStop
    BY <1>a, <2>1
  <2> QED BY <2>1, <2>2, <2>3
<1>38. CASE SoftWait
  <2>1. /\ main.step = "return" /\ main'.step \in {"parse", "alarm"} /\ sys' = sys
        /\ main'.nest = main.nest /\ again' = again
    BY <1>38, SoftWaitDoes, ResetSpares
  <2>2. Turns
    BY <1>38, ProgramTurns
  <2>3. sys.state = "Alarm" /\ ~sys.abort => ~timer /\ ~cycleStop
    BY <2>1
  <2> QED BY <2>1, <2>2, <2>3
<1>39. CASE LineWaits
  BY <1>39, Moves, <1>s DEF LineWaits, AutoCycleStart
<1>40. CASE LineEnds
  <2>1. /\ main.step = "return" /\ main'.step \in {"alarm", "parse", "jogWake"}
        /\ main'.nest = main.nest /\ again' = again
        /\ sys'.suspend = sys.suspend /\ sys'.abort = sys.abort /\ sys'.softLimit = sys.softLimit
        /\ sys'.state \in {sys.state, "Jog"}
        /\ sys'.state # sys.state => sys.state = "Idle" /\ ~sys.abort
    BY <1>40, LineEndsDoes, ProgramSpares DEF Keeps
  <2>2. Turns /\ ("executeSysMotion" \in sys'.ctl <=> "executeSysMotion" \in sys.ctl)
    BY <1>40, ProgramTurns
  <2>3. main'.step = "jogWake" => sys.state = "Idle" /\ ~sys.abort /\ sys'.state = "Jog"
    <3>1. ASSUME main'.step = "jogWake" PROVE sys.state = "Idle" /\ ~sys.abort /\ sys'.state = "Jog"
      <4>1. ~Exec("syncPause") /\ ~Goto("parse")
        BY <3>1 DEF Exec, Goto
      <4>2. /\ sys.state = "Idle" /\ ~sys.abort
            /\ \E q : \E p \in Prepared(sys.ctl, q, ring) : sys' = [sys EXCEPT !.state = "Jog", !.ctl = p.ctl]
        BY <1>40, <4>1 DEF LineEnds
      <4> QED BY <4>2 DEF Systems
    <3> QED BY <3>1
  <2>4. main.nest = "none" /\ (~sys.abort => sys.suspend = {})
    BY <1>s, <2>1
  <2>5. Undisturbed /\ sys.state = "Idle" /\ ~sys.abort => ~timer /\ ~cycleStop
    BY <2>4
  <2>6. sys.state = "Alarm" /\ ~sys.abort => ~timer /\ ~cycleStop
    BY <2>1
  <2>7. TimerOn' /\ StopStill'
    BY <2>1, <2>2
  <2>8. WakeRuns'
    BY <2>1, <2>2, <2>3, <2>5
  <2>9. MovingNotHeld' /\ ArrivedHeld' /\ ReturnsParked' /\ MotionNest' /\ MotionEnds'
    BY <2>1, <2>2, <2>4
  <2>10. AlarmStill' /\ RestoredParked'
    BY <2>1, <2>2, <2>4, <2>6
  <2> QED BY <2>7, <2>8, <2>9, <2>10
<1>41. CASE JogWake
  BY <1>41, Moves, <1>s DEF JogWake
<1>42. CASE SyncWaits
  BY <1>42, Moves, <1>s DEF SyncWaits
<1>43. CASE SyncEnds
  BY <1>43, Moves, <1>s DEF SyncEnds
<1>44. CASE CmdReset
  BY <1>44 DEF CmdReset, Flagged
<1>45. CASE CmdFlag
  BY <1>45 DEF CmdFlag
<1>46. CASE CmdSpindleStop
  BY <1>46 DEF CmdSpindleStop
<1>47. CASE CmdJogCancel
  BY <1>47 DEF CmdJogCancel
<1>48. CASE DoorSwitch
  BY <1>48 DEF DoorSwitch
<1>49. CASE LimitSwitch
  <2>1. timer' => timer
    BY <1>49, Zenon DEF LimitSwitch, Killed
  <2>2. /\ sys' = sys /\ main' = main /\ again' = again /\ cycleStop' = cycleStop
        /\ flags \subseteq flags'
    BY <1>49 DEF LimitSwitch, Flagged
  <2> QED BY <2>1, <2>2
<1>50. CASE CmdResetKill
  <2>1. timer' => timer
    BY <1>50, Zenon DEF CmdResetKill, Killed
  <2>2. /\ sys' = sys /\ main' = main /\ again' = again /\ cycleStop' = cycleStop
        /\ flags' = flags
    BY <1>50 DEF CmdResetKill
  <2> QED BY <2>1, <2>2
<1>51. CASE CmdJogCancelFlag
  BY <1>51 DEF CmdJogCancelFlag
<1>52. CASE UNCHANGED vars
  BY <1>52 DEF vars
<1> QED
  BY <1>1, <1>2, <1>3, <1>4, <1>5, <1>6, <1>7, <1>8, <1>9, <1>10, <1>11, <1>12, <1>13, <1>14,
     <1>15, <1>16, <1>17, <1>18, <1>19, <1>20, <1>21, <1>22, <1>23, <1>24, <1>25, <1>26, <1>27,
     <1>28, <1>29, <1>30, <1>31, <1>32, <1>33, <1>34, <1>35, <1>36, <1>37, <1>38, <1>39, <1>40,
     <1>41, <1>42, <1>43, <1>44, <1>45, <1>46, <1>47, <1>48, <1>49, <1>50, <1>51, <1>52
  DEF Next, Main, Interrupt, Clients, InCommand, ExecRtSystem, ExecRtSuspend, Program

\* Every state of a machine whose resets are not overtaken has its timer running in a
\* motion only.
LEMMA MotionHolds ==
  ASSUME ~Overtaken
  PROVE  Spec => [](Types /\ MotionInv)
<1>1. Init => MotionInv
  BY DEF Init, SysReset, MotionInv, TimerOn, StopStill, MovingNotHeld, WakeRuns, MotionNest, MotionEnds,
         AlarmStill, ArrivedHeld, ReturnsParked, RestoredParked, ParkMotions
<1>2. Types /\ ControlInv /\ AutoInv /\ ResetInv /\ DoorInv /\ MotionInv /\ [Next]_vars => MotionInv'
  BY MotionInvStep
<1> QED BY <1>1, <1>2, AutoHolds, DoorInvHolds, PTL DEF Spec

\* A hold that is complete is at rest: the suspend loop parks, de-energises and resumes on
\* the strength of holdComplete, and the stepper interrupt is off unless it is the parking
\* motion itself that runs, whatever holds, doors, jog cancels, sleeps, limits and resets
\* come one after the other, as long as no restore runs twice and no soft limit is in the
\* way (protocol_exec_rt_system(), protocol_exec_rt_suspend()).
THEOREM HoldComesToRest ==
  ASSUME ~Overtaken
  PROVE  Spec => []HoldAtRest
<1>1. Types /\ MotionInv => HoldAtRest
  BY DEF HoldAtRest, MotionInv, TimerOn
<1> QED BY <1>1, MotionHolds, PTL

-----------------------------------------------------------------------------
(***************************************************************************)
(* The spindle of a cycle: what the spindle stop override and the parking  *)
(* leave behind.                                                           *)
(***************************************************************************)

\* No reset has stopped the spindle.
Calm == Undisturbed /\ "reset" \notin flags /\ ~sys.abort /\ main.step \notin {"reinit", "spin"}
SpinAlarm == main.step = "spin" => sys.state = "Alarm"

\* The spindle stop override is a matter of the hold, and stops the spindle when the
\* hold is complete.  A machine that parks has taken it back.
OverrideHeld == Undisturbed /\ sys.ovr # {} => sys.state \in {"Hold", "SafetyDoor", "Sleep", "Alarm"}
EnabledHeld == Undisturbed /\ "enabled" \in sys.ovr => "holdComplete" \in sys.suspend
ParkedPlain ==
  /\ Undisturbed /\ sys.state = "SafetyDoor"
  /\ "retractComplete" \in sys.suspend \/ main.nest \in ParkMotions
  => sys.ovr = {}

\* The program runs, and a hold stands, with the spindle as the program has it, unless
\* the override has stopped it.
SpunAsSaid ==
  /\ Calm /\ sys.state \in {"Idle", "Cycle", "Jog", "Hold"} /\ "enabled" \notin sys.ovr
  /\ modal
  => spindle
StopEnabled == Calm /\ "enabled" \in sys.ovr => ~spindle
SpindleWanted == Calm /\ sys.state # "CheckMode" /\ spindle => modal

\* The machine comes up without spindle and override, and in the state Alarm the
\* program has none.
AlarmPlain ==
  /\ main.step = "boot" => ~modal /\ ~spindle /\ sys.ovr = {}
  /\ sys.state = "Alarm" /\ ~sys.abort =>
       \/ ~modal /\ sys.ovr = {}
       \/ main.step = "spin"
       \/ main.step \in {"acknowledge", "flags"} /\ "reset" \in flags

\* A restore has brought the spindle back before it plunges, and when it is complete.
RestoredSpun ==
  /\ Calm /\ sys.state = "SafetyDoor" /\ "restoreComplete" \in sys.suspend
  /\ modal
  => spindle
PlungeSpun ==
  /\ Calm /\ sys.state = "SafetyDoor"
  /\ main.nest = "plunge" /\ "restartRetract" \notin sys.suspend
  /\ modal
  => spindle

OverrideInv == /\ SpinAlarm /\ OverrideHeld /\ EnabledHeld /\ ParkedPlain
               /\ SpunAsSaid /\ StopEnabled /\ SpindleWanted /\ AlarmPlain
               /\ RestoredSpun /\ PlungeSpun

-----------------------------------------------------------------------------
\* What the steps leave of the override and of the spindle.

\* The hold branch leaves the override alone.
LEMMA HoldOverride ==
  ASSUME NEW s \in Systems, NEW rt \in SUBSET ExecState
  PROVE  Slept(Stopping(s, rt), rt).ovr = s.ovr
<1> DEFINE a == Decelerated(s, rt)
           b == Rested(a)
           c == Cancelled(b, rt)
           d == Held(c, rt)
           e == Reopened(d)
           o == Opened(d, rt)
           t == Stopping(s, rt)
<1>1. a \in Systems /\ a.ovr = s.ovr
  BY HoldTypes DEF Decelerated, Systems
<1>2. b \in Systems /\ b.ovr = a.ovr
  BY <1>1, HoldTypes DEF Rested, Systems
<1>3. c \in Systems /\ c.ovr = b.ovr
  BY <1>2, HoldTypes DEF Cancelled, Systems
<1>4. d \in Systems /\ d.ovr = c.ovr
  BY <1>3, HoldTypes DEF Held, Systems
<1> HIDE DEF a, b, c, d
<1>5. e \in Systems /\ e.ovr = d.ovr
  BY <1>4, DoorTypes DEF Reopened, Systems
<1>6. o \in Systems /\ o.ovr = d.ovr
  <2>1. o \in Systems
    BY <1>4, DoorTypes
  <2> HIDE DEF e
  <2>2. CASE "safetyDoor" \notin rt
    BY <2>1, <2>2 DEF Opened
  <2>3. CASE "safetyDoor" \in rt /\ "jogCancel" \in d.suspend
    BY <1>4, <2>1, <2>3 DEF Opened, Systems
  <2>4. CASE "safetyDoor" \in rt /\ "jogCancel" \notin d.suspend
    <3>1. o = [e EXCEPT !.state = IF @ = "Sleep" THEN @ ELSE "SafetyDoor",
                        !.suspend = @ \union {"safetyDoorAjar"}]
      BY <2>4 DEF Opened, e
    <3> HIDE DEF o
    <3> QED BY <1>5, <2>1, <3>1 DEF Systems
  <2> QED BY <2>2, <2>3, <2>4
<1> HIDE DEF o
<1>7. t \in Systems /\ t.ovr = s.ovr
  <2>1. t = IF Unstoppable(s) THEN s ELSE o
    BY DEF Stopping, o, d, c, b, a
  <2> HIDE DEF t
  <2> QED BY <1>1, <1>2, <1>3, <1>4, <1>6, <2>1
<1> HIDE DEF t
<1>8. Slept(t, rt).ovr = t.ovr
  BY <1>7 DEF Slept, Systems
<1> QED BY <1>7, <1>8 DEF t

\* The reload takes the override up in a hold, and leaves what is enabled.
LEMMA ReloadOverride ==
  ASSUME Types, Reload
  PROVE  /\ sys.state # "Hold" => sys'.ovr = sys.ovr
         /\ "enabled" \in sys'.ovr <=> "enabled" \in sys.ovr
<1> USE DEF Types
<1>1. Override(sys) \in Systems
  BY StartTypes
<1>2. /\ sys.state # "Hold" => Override(sys).ovr = sys.ovr
      /\ "enabled" \in Override(sys).ovr <=> "enabled" \in sys.ovr
  BY DEF Override, Systems
<1>3. sys'.ovr = Override(sys).ovr
  <2>1. PrepBuffer(Override(sys)) \/ sys' = Override(sys)
    BY DEF Reload
  <2> QED BY <1>1, <2>1 DEF PrepBuffer, Systems
<1> QED BY <1>2, <1>3

\* A cycle start that starts nothing asks in a hold for the spindle, and comes from a
\* hold to Idle only without an override.
LEMMA StartOverride ==
  ASSUME Types, StartRefused
  PROVE  /\ "enabled" \in sys'.ovr <=> "enabled" \in sys.ovr
         /\ sys'.ovr # sys.ovr => sys.state = "Hold" /\ sys'.state = "Hold"
         /\ sys.state = "Hold" /\ sys'.state = "Idle" => sys.ovr = {}
<1> USE DEF Types
<1> DEFINE s == DoorResume(sys)
<1>1. /\ s \in Systems /\ s.ovr = sys.ovr
      /\ sys.state # "SafetyDoor" => s = sys
      /\ sys.state = "SafetyDoor" => s.state \in {"SafetyDoor", "Idle"}
  BY StartTypes DEF DoorResume, Systems
<1>2. \/ sys' = sys
      \/ sys' = s
      \/ s.state = "Hold" /\ sys' = [s EXCEPT !.ovr = @ \union {"restoreCycle"}]
      \/ ~RestoreFirst(s) /\ sys' = Running(s, "Idle")
  BY DEF StartRefused, RestoreFirst
<1> HIDE DEF s
<1>3. CASE sys' = sys \/ sys' = s
  BY <1>1, <1>3
<1>4. CASE s.state = "Hold" /\ sys' = [s EXCEPT !.ovr = @ \union {"restoreCycle"}]
  <2>1. sys'.ovr = s.ovr \union {"restoreCycle"} /\ sys'.state = "Hold"
    BY <1>1, <1>4 DEF Systems
  <2> QED BY <1>1, <1>4, <2>1
<1>5. CASE ~RestoreFirst(s) /\ sys' = Running(s, "Idle")
  <2>1. sys'.ovr = s.ovr /\ sys'.state = "Idle"
    BY <1>1, <1>5 DEF Running, Systems
  <2> QED BY <1>1, <1>5, <2>1 DEF RestoreFirst
<1> QED BY <1>2, <1>3, <1>4, <1>5

\* The cycle stop leaves the override alone.
LEMMA StoppedOverride == \A s \in Systems : Stopped(s).ovr = s.ovr
BY DEF Stopped, Systems

\* The program has the same spindle as before, and none more runs.
Respins == /\ modal' => modal
           /\ modal => modal'
           /\ spindle => spindle'
           /\ spindle' => spindle \/ modal

\* The restore switches on what the program has on, before the plunge and before its end.
LEMMA DoorRespins ==
  ASSUME Types
  PROVE  /\ DoorWait => /\ Respins
                        /\ "restoreComplete" \in sys'.suspend \ sys.suspend /\ modal => spindle'
         /\ Approached => /\ Respins
                          /\ main'.nest = "plunge" /\ ~sys.abort /\ modal => spindle'
<1> USE DEF Types
<1>1. ASSUME NEW s, Respun(s)
      PROVE  /\ spindle => spindle'
             /\ spindle' => spindle \/ modal
             /\ modal /\ "restartRetract" \notin s.suspend /\ ~sys.abort => spindle'
  <2>1. CASE modal /\ "restartRetract" \notin s.suspend
    <3>1. spindle' = IF sys.abort THEN spindle ELSE TRUE
      BY <1>1, <2>1 DEF Respun, SetSpindle
    <3> QED BY <2>1, <3>1
  <2>2. CASE ~(modal /\ "restartRetract" \notin s.suspend)
    <3>1. spindle' = spindle
      BY <1>1, <2>2 DEF Respun
    <3> QED BY <2>2, <3>1
  <2> QED BY <2>1, <2>2
<1>2. ASSUME DoorWait
      PROVE  /\ Respins
             /\ "restoreComplete" \in sys'.suspend \ sys.suspend /\ modal => spindle'
  <2> DEFINE s == DoorChecked
  <2>1. modal' = modal /\ ~sys.abort
    BY <1>2 DEF DoorWait, Looping
  <2>2. s \in Systems /\ s.suspend \subseteq sys.suspend
    BY SuspendTypes DEF DoorChecked, Systems
  <2>3. \/ spindle' = spindle /\ (sys' = s \/ ParkMotion("approach", s))
        \/ Respun(s) /\ Restored(s)
    BY <1>2 DEF DoorWait
  <2> HIDE DEF s
  <2>4. CASE spindle' = spindle /\ (sys' = s \/ ParkMotion("approach", s))
    <3>1. sys'.suspend = s.suspend
      BY <2>2, <2>4 DEF ParkMotion, PrepBuffer, Systems
    <3> QED BY <2>1, <2>2, <2>4, <3>1 DEF Respins
  <2>5. CASE Respun(s) /\ Restored(s)
    <3>1. "restartRetract" \in s.suspend => sys' = s
      BY <2>5 DEF Restored
    <3>2. /\ spindle => spindle'
          /\ spindle' => spindle \/ modal
          /\ modal /\ "restartRetract" \notin s.suspend => spindle'
      BY <1>1, <2>1, <2>5
    <3> QED BY <2>1, <2>2, <3>1, <3>2 DEF Respins
  <2> QED BY <2>3, <2>4, <2>5
<1>3. ASSUME Approached
      PROVE  /\ Respins
             /\ main'.nest = "plunge" /\ ~sys.abort /\ modal => spindle'
  <2>1. modal' = modal /\ Respun(sys)
    BY <1>3 DEF Approached
  <2>2. main'.nest = "plunge" => "restartRetract" \notin sys.suspend
    BY <1>3, ApproachedDoes
  <2>3. /\ spindle => spindle'
        /\ spindle' => spindle \/ modal
        /\ modal /\ "restartRetract" \notin sys.suspend /\ ~sys.abort => spindle'
    BY <1>1, <2>1
  <2> QED BY <2>1, <2>2, <2>3 DEF Respins
<1> QED BY <1>2, <1>3

\* The hold manager stops a spindle that the program has on, and starts it again.
LEMMA ManagerRespins ==
  ASSUME Types, HoldManager
  PROVE  /\ modal' => modal
         /\ modal => modal'
         /\ sys'.ovr # {} => sys.ovr # {}
         /\ \/ /\ "enabled" \in sys'.ovr => modal
               /\ modal => "enabled" \in sys'.ovr
               /\ modal => ~spindle'
               /\ spindle' => spindle
            \/ /\ sys'.ovr = {}
               /\ modal => spindle'
               /\ spindle' => spindle \/ modal
            \/ /\ sys'.ovr = sys.ovr
               /\ spindle => spindle'
               /\ spindle' => spindle
<1> USE DEF Types
<1>1. modal' = modal /\ ~sys.abort
  BY DEF HoldManager, Looping
<1>2. CASE /\ "initiate" \in sys.ovr /\ SetSpindle(spindle /\ ~modal)
           /\ sys' = [sys EXCEPT !.ovr = {b \in {"enabled"} : modal}]
  <2>1. spindle' = (spindle /\ ~modal)
    BY <1>1, <1>2 DEF SetSpindle
  <2>2. (spindle' => spindle) /\ (modal => ~spindle')
    BY <2>1
  <2>3. sys'.ovr = {b \in {"enabled"} : modal}
    BY <1>2 DEF Systems
  <2> QED BY <1>1, <1>2, <2>2, <2>3
<1>3. CASE /\ sys' = [sys EXCEPT !.ovr = {}]
           /\ SetSpindle(spindle \/ modal)
  <2>1. spindle' = (spindle \/ modal)
    BY <1>1, <1>3 DEF SetSpindle
  <2>2. (modal => spindle') /\ (spindle' => spindle \/ modal)
    BY <2>1
  <2>3. sys'.ovr = {}
    BY <1>3 DEF Systems
  <2> QED BY <1>1, <2>2, <2>3
<1>4. CASE UNCHANGED <<sys, spindle>>
  BY <1>1, <1>4
<1> QED BY <1>2, <1>3, <1>4 DEF HoldManager

\* Every step keeps it: what stops the spindle is remembered until it runs again.
LEMMA OverrideInvStep ==
  ASSUME Types, ControlInv, AutoInv, ResetInv, DoorInv, MotionInv, OverrideInv, [Next]_vars
  PROVE  OverrideInv'
<1> USE DEF Types, Stays, Keeps, Spares, Respins, At, Returned, Executing, motion, power,
            Looping, Parked, Arrived, InHold, rtVars, env, hist, Places, Steps, Nests, Callers, ParkMotions,
            OverrideInv, Calm, SpinAlarm, OverrideHeld, EnabledHeld, ParkedPlain, SpunAsSaid, StopEnabled,
            SpindleWanted, AlarmPlain, RestoredSpun, PlungeSpun, Undisturbed
<1>c. /\ ControlInv /\ AbortPending /\ NestEnded /\ AutoInv /\ NotSuspended /\ ResetInv /\ AlarmQuiet
      /\ KillPending /\ DoorInv /\ BackDoor /\ DoorHolds /\ AwayDoor
  BY DEF ControlInv, AutoInv, ResetInv, DoorInv
<1>m. MotionInv /\ TimerOn /\ MotionNest /\ AlarmStill /\ RestoredParked
  BY DEF MotionInv
<1>s. /\ main.step \in {"boot", "parse", "return", "jogWake", "reinit"} => main.nest = "none"
      /\ main.step \in {"parse", "return", "jogWake", "reinit"} /\ ~sys.abort => sys.suspend = {}
      /\ main.step \in {"holds", "start", "wake", "stop", "prep", "boot"} => ~sys.abort
      /\ main.step = "suspend" => main.nest = "suspend"
      /\ main.step \in {"parked"} => main.nest \in ParkMotions
  BY <1>c DEF AbortPending, NestEnded, NotSuspended
<1>a. sys.state = "Alarm" /\ ~sys.abort /\ main.step \notin {"spin", "acknowledge", "flags"} =>
        /\ main.nest = "none" /\ sys.suspend = {}
        /\ main.step \in {"boot", "parse"} \/ main.caller \notin {"syncPause", "syncSpindle"}
  BY <1>c DEF AlarmQuiet
<1>1. CASE Drain
  BY <1>1 DEF Drain
<1>2. CASE RingEmpty
  BY <1>2 DEF RingEmpty
<1>3. CASE AlarmSeen
  <2>1. /\ main.step = "alarm" /\ main'.nest = main.nest /\ sys'.suspend = sys.suspend
        /\ sys'.softLimit = sys.softLimit /\ again' = again /\ sys'.ovr = sys.ovr
        /\ main'.step \in {"flags", "spin", "acknowledge"}
        /\ main'.step # "spin" => flags' = flags
    BY <1>3, AlarmSeenDoes, SystemSpares
  <2>2. Respins /\ (spindle' => spindle)
    BY <1>3 DEF AlarmSeen, Respins
  <2>3. sys.abort => sys'.abort
    BY <1>3, AlarmSeenDoes
  <2>4. \/ main'.step = "flags" /\ sys'.state = sys.state
        \/ main'.step = "spin" /\ sys'.state = "Alarm"
        \/ main'.step = "acknowledge" /\ sys'.state = "Alarm" /\ "reset" \in flags'
    BY <1>3, <1>c, AlarmSeenDoes, AlarmTaken DEF KillPending
  <2> QED BY <2>1, <2>2, <2>3, <2>4
<1>4. CASE AlarmDone
  BY <1>4, Moves, <1>s DEF AlarmDone
<1>5. CASE CopyFlags
  <2>1. /\ main.step = "flags" /\ main'.nest = main.nest /\ sys'.suspend = sys.suspend
        /\ sys'.softLimit = sys.softLimit /\ again' = again /\ sys'.ovr = sys.ovr
        /\ sys'.state = sys.state /\ flags' = flags
        /\ "reset" \in flags => sys'.abort
        /\ main'.step \in {"holds", "prep", "back"}
    BY <1>5, CopyFlagsDoes, SystemSpares
  <2>2. Respins /\ (spindle' => spindle)
    BY <1>5 DEF CopyFlags, Respins
  <2>3. sys.abort => sys'.abort
    BY <1>5 DEF CopyFlags, Systems
  <2> QED BY <2>1, <2>2, <2>3
<1>6. CASE Holds
  <2>1. /\ main.step = "holds" /\ main'.nest = main.nest /\ main'.step = "start" /\ ~sys.abort
        /\ again' = again
        /\ "reset" \in flags => "reset" \in flags'
    BY <1>6, <1>s, HoldsDoes, SystemSpares DEF HoldFlags
  <2>2. Respins /\ (spindle' => spindle)
    BY <1>6 DEF Holds, Respins
  <2>3. CASE sys' = sys
    BY <2>1, <2>2, <2>3
  <2>4. CASE sys' = Slept(Stopping(sys, main.rt), main.rt)
    <3> DEFINE r == sys'
               s == sys
    <3>1. sys.state = "Alarm" => sys.suspend = {} /\ main.nest = "none"
      BY <1>a, <2>1
    <3>2. "sleep" \in main.rt => /\ sys.state \in {"Idle", "Alarm"} /\ sys.suspend = {}
                                 /\ ~sys.softLimit
      BY <1>c, <2>1 DEF ResetInv, SleepPending, SleepCopied, NotSuspended
    <3>3. DoorState(sys)
      BY <1>c, <2>1 DEF DoorHolds
    <3>4. /\ r.softLimit = s.softLimit /\ ~r.abort /\ r.ovr = s.ovr
          /\ r.state = "Alarm" => s.state = "Alarm"
          /\ s.state = "Alarm" => r.state \in {"Alarm", "Sleep"}
          /\ "sleep" \in main.rt => r.state = "Sleep"
      BY <2>1, <2>4, HoldAlarm, HoldOverride, AbortKept
    <3>5. /\ s.state \in {"Cycle", "Jog"} => r.state \in {s.state, "Hold", "SafetyDoor"}
          /\ s.state \in {"Hold", "SafetyDoor", "Sleep"} => r.state \in {s.state, "Hold", "SafetyDoor"}
          /\ s.state \in {"SafetyDoor", "Sleep"} => r.state = s.state
          /\ s.state = "CheckMode" => r = s
          /\ s.state # "Idle" /\ ~(s.suspend \subseteq r.suspend) =>
               s.state = "SafetyDoor" /\ "initiateRestore" \in s.suspend
      BY <2>4, <3>1, <3>2, HoldRuns
    <3>6. /\ "restoreComplete" \in r.suspend => "restoreComplete" \in s.suspend
          /\ "retractComplete" \in r.suspend => \/ "retractComplete" \in s.suspend
                                                \/ s.state = "Alarm" /\ "sleep" \in main.rt
          /\ "restartRetract" \in s.suspend => "restartRetract" \in r.suspend \/ s.state = "Idle"
      BY <2>4, <3>1, <3>2, <3>3, HoldDoor
    <3>7. /\ "retractComplete" \in s.suspend => s.state \in {"SafetyDoor", "Sleep", "Alarm"}
          /\ "initiateRestore" \in s.suspend => \/ s.state = "Alarm"
                                                \/ "retractComplete" \in s.suspend
                                                \/ s.state # "SafetyDoor"
                                                \/ main.nest \in ParkMotions
      BY <1>c, <2>1, <3>3 DEF DoorState, AwayDoor, BackDoor
    <3>8. /\ r.state \in {"Idle", "Cycle", "Jog", "Hold"} =>
               s.state \in {"Idle", "Cycle", "Jog", "Hold"}
          /\ r.state # "CheckMode" => s.state # "CheckMode"
      BY <3>4, <3>5 DEF Systems, State
    <3>9. Undisturbed /\ main.nest \in ParkMotions => s.state \in {"SafetyDoor", "Sleep"}
      BY <1>c, <2>1, <3>1 DEF BackDoor, AwayDoor
    <3>10. SpinAlarm' /\ AlarmPlain'
      BY <2>1, <2>2, <3>1, <3>4
    <3>11. OverrideHeld'
      BY <2>1, <3>4, <3>5 DEF Systems, State
    <3>12. ParkedPlain'
      <4> SUFFICES ASSUME Undisturbed', r.state = "SafetyDoor",
                          "retractComplete" \in r.suspend \/ main.nest \in ParkMotions
                   PROVE  s.ovr = {}
        BY <2>1, <3>4
      <4>1. "sleep" \notin main.rt
        BY <3>4
      <4>2. s.state = "SafetyDoor"
        BY <2>1, <3>1, <3>4, <3>5, <3>6, <3>7, <3>9, <4>1
      <4> QED BY <2>1, <3>4, <3>6, <4>1, <4>2
    <3>13. EnabledHeld'
      <4> SUFFICES ASSUME Undisturbed', "enabled" \in s.ovr PROVE "holdComplete" \in r.suspend
        BY <3>4
      <4>1. Undisturbed /\ s.state # "Idle" /\ "holdComplete" \in s.suspend
        BY <2>1, <3>4
      <4>2. s.state = "SafetyDoor" => "retractComplete" \notin s.suspend /\ main.nest \notin ParkMotions
        BY <4>1
      <4> QED BY <3>5, <3>7, <4>1, <4>2
    <3>14. SpunAsSaid' /\ StopEnabled' /\ SpindleWanted'
      BY <2>1, <2>2, <3>4, <3>8
    <3>15. RestoredSpun'
      <4>1. Undisturbed /\ "restoreComplete" \in r.suspend => s.state = "SafetyDoor"
        BY <1>m, <3>1, <3>6 DEF RestoredParked
      <4> QED BY <2>1, <2>2, <3>4, <3>6, <4>1
    <3>16. PlungeSpun'
      BY <1>c, <2>1, <2>2, <3>1, <3>4, <3>6 DEF BackDoor
    <3> QED BY <3>10, <3>11, <3>12, <3>13, <3>14, <3>15, <3>16
  <2> QED BY <1>6, <2>3, <2>4, HoldsDoes
<1>7. CASE StartNothing
  BY <1>7, Moves, <1>s DEF StartNothing
<1>8. CASE StartRefused
  <2>1. /\ main.step = "start" /\ main'.nest = main.nest /\ main'.step = "stop" /\ ~sys.abort
        /\ again' = again /\ sys'.softLimit = sys.softLimit /\ sys'.abort = sys.abort
        /\ "reset" \in flags => "reset" \in flags'
    BY <1>8, <1>s, StartRefusedDoes, SystemSpares
  <2>2. Respins /\ (spindle' => spindle)
    BY <1>8 DEF StartRefused, Respins
  <2>3. /\ "enabled" \in sys'.ovr <=> "enabled" \in sys.ovr
        /\ sys'.ovr # sys.ovr => sys.state = "Hold" /\ sys'.state = "Hold"
        /\ sys.state = "Hold" /\ sys'.state = "Idle" => sys.ovr = {}
    BY <1>8, StartOverride
  <2>4. CASE sys'.state = sys.state /\ sys'.suspend = sys.suspend
    BY <2>1, <2>2, <2>3, <2>4
  <2>5. CASE /\ sys.state = "SafetyDoor" /\ sys'.state = "SafetyDoor"
             /\ sys'.suspend = sys.suspend \union {"initiateRestore"}
    BY <2>1, <2>2, <2>3, <2>5
  <2>6. CASE /\ sys'.state = "Idle" /\ sys'.suspend = {}
             /\ sys.state = "SafetyDoor" => "restoreComplete" \in sys.suspend
             /\ sys.state \in {"Idle", "Hold", "SafetyDoor"}
    <3>1. Undisturbed => sys.ovr = {}
      BY <1>m, <2>3, <2>6 DEF RestoredParked
    <3>2. sys'.ovr = sys.ovr
      BY <2>3, <2>6
    <3> QED BY <2>1, <2>2, <2>6, <3>1, <3>2
  <2> QED BY <1>8, <2>4, <2>5, <2>6, StartRefusedDoor
<1>9. CASE StartCycle
  <2>1. /\ main.step = "start" /\ main'.nest = main.nest /\ main'.step = "wake" /\ ~sys.abort
        /\ again' = again /\ sys'.softLimit = sys.softLimit /\ sys'.abort = sys.abort
        /\ flags' = flags
        /\ sys'.state = "Cycle" /\ sys'.suspend = {} /\ sys'.ovr = sys.ovr
        /\ \/ sys.state = "Idle"
           \/ sys.state = "Hold" /\ sys.ovr = {}
           \/ sys.state = "SafetyDoor" /\ {"restoreComplete"} \subseteq sys.suspend
    BY <1>9, <1>s, StartCycleDoes, SystemSpares
  <2>2. Respins /\ (spindle' => spindle)
    BY <1>9 DEF StartCycle, Respins
  <2>3. Undisturbed => sys.ovr = {}
    BY <1>m, <2>1 DEF RestoredParked
  <2> QED BY <2>1, <2>2, <2>3
<1>10. CASE WakeUp
  BY <1>10, Moves, <1>s DEF WakeUp
<1>11. CASE CycleStop
  <2>1. /\ main.step = "stop" /\ again' = again /\ ~sys.abort /\ flags' = flags
        /\ main'.nest = main.nest /\ main'.step = "prep"
    BY <1>11, <1>s, Moves DEF CycleStop
  <2>2. Respins /\ (spindle' => spindle)
    BY <1>11 DEF CycleStop, Respins
  <2>3. CASE sys' = sys
    BY <2>1, <2>2, <2>3
  <2>4. CASE cycleStop /\ sys' = Stopped(sys)
    <3> DEFINE t == sys'
               s == sys
    <3>1. sys.state # "Alarm"
      BY <1>m, <2>1, <2>4 DEF AlarmStill
    <3>2. Undisturbed => sys.state # "CheckMode"
      BY <1>c, <1>m, <2>1, <2>4, <3>1 DEF TimerOn, MotionNest, BackDoor, AwayDoor
    <3>3. DoorState(sys)
      BY <1>c, <2>1 DEF DoorHolds
    <3>4. t.state # "Alarm" /\ ~t.abort /\ t.softLimit = s.softLimit /\ t.ovr = s.ovr
      BY <2>1, <2>4, StoppedAlarm, StoppedOverride
    <3>5. \/ /\ s.state \in {"Hold", "SafetyDoor", "Sleep"}
             /\ t.state = s.state /\ s.suspend \subseteq t.suspend
             /\ t.suspend \ s.suspend \subseteq {"holdComplete"}
          \/ /\ s.state \notin {"Hold", "SafetyDoor", "Sleep"} \/ s.softLimit \/ "jogCancel" \in s.suspend
             /\ \/ t.state = "Idle" /\ t.suspend = {}
                \/ /\ t.state = "SafetyDoor"
                   /\ t.suspend = (s.suspend \ {"jogCancel"}) \union {"holdComplete"}
      BY <2>4, StoppedRuns
    <3>6. /\ "jogCancel" \in s.suspend => s.state \in {"Jog", "Alarm"}
          /\ "retractComplete" \in s.suspend => s.state \in {"SafetyDoor", "Sleep", "Alarm"}
      BY <3>3 DEF DoorState
    <3>7. Undisturbed /\ main.nest \in ParkMotions => s.state \in {"SafetyDoor", "Sleep"}
      BY <1>c, <2>1, <3>1 DEF BackDoor, AwayDoor
    <3>8. CASE Undisturbed /\ /\ s.state \in {"Hold", "SafetyDoor", "Sleep"}
                              /\ t.state = s.state /\ s.suspend \subseteq t.suspend
                              /\ t.suspend \ s.suspend \subseteq {"holdComplete"}
      BY <2>1, <2>2, <3>1, <3>4, <3>8
    <3>9. CASE /\ Undisturbed /\ s.state \notin {"Hold", "SafetyDoor", "Sleep"}
               /\ \/ t.state = "Idle" /\ t.suspend = {}
                  \/ /\ t.state = "SafetyDoor"
                     /\ t.suspend = (s.suspend \ {"jogCancel"}) \union {"holdComplete"}
      <4>1. /\ s.state \in {"Idle", "Cycle", "Jog"} /\ s.ovr = {} /\ main.nest \notin ParkMotions
            /\ "retractComplete" \notin s.suspend
        BY <3>1, <3>2, <3>6, <3>7, <3>9 DEF Systems, State
      <4>2. "restoreComplete" \notin s.suspend
        BY <1>m, <3>9, <4>1 DEF RestoredParked
      <4> QED BY <2>1, <2>2, <3>4, <3>9, <4>1, <4>2
    <3>10. CASE ~Undisturbed
      BY <2>1, <3>4, <3>10
    <3> QED BY <3>5, <3>6, <3>1, <3>8, <3>9, <3>10
  <2> QED BY <1>11, <2>3, <2>4 DEF CycleStop
<1>12. CASE Reload
  <2>1. /\ main.step = "prep" /\ main'.nest = main.nest /\ main'.step = "back"
        /\ again' = again /\ sys'.softLimit = sys.softLimit /\ flags' = flags
        /\ sys'.state = sys.state /\ sys'.suspend = sys.suspend
        /\ sys'.abort = sys.abort
    BY <1>12, ReloadDoes, SystemSpares
  <2>2. Respins /\ (spindle' => spindle)
    BY <1>12 DEF Reload, Respins
  <2>3. /\ sys.state # "Hold" => sys'.ovr = sys.ovr
        /\ "enabled" \in sys'.ovr <=> "enabled" \in sys.ovr
    BY <1>12, ReloadOverride
  <2> QED BY <2>1, <2>2, <2>3
<1>13. CASE Back
  <2>1. /\ main.step = "back" /\ sys' = sys /\ again' = again /\ flags' = flags
        /\ main'.step \in {"return", "suspend", "alarm", "parked"}
        /\ main.nest \in ParkMotions \/ main'.nest \in ParkMotions => main'.nest = main.nest
    BY <1>13, BackDoes, SystemSpares
  <2>2. Respins /\ (spindle' => spindle)
    BY <1>13 DEF Back, Respins
  <2>3. sys.state = "Alarm" /\ ~sys.abort => ~modal /\ sys.ovr = {}
    BY <2>1
  <2> QED BY <2>1, <2>2, <2>3
<1>14. CASE SuspendEnds
  BY <1>14, Moves, <1>s DEF SuspendEnds
<1>15. CASE AwaitRest
  BY <1>15, Moves, <1>s DEF AwaitRest
<1>16. CASE StartRetract
  <2>1. /\ Looping /\ InHold /\ Parked /\ ~Arrived /\ main'.step = "alarm" /\ flags' = flags
        /\ main'.nest \in {"pullOut", "retract", "suspend"}
        /\ sys'.state = sys.state /\ ~sys'.abort /\ sys'.softLimit = sys.softLimit /\ again' = again
        /\ sys'.ovr = {}
        /\ sys'.suspend \ sys.suspend \subseteq {"retractComplete"}
    BY <1>16, StartRetractDoes, SuspendSpares
  <2>2. (modal' => modal) /\ (modal => modal') /\ (spindle' => spindle)
    <3>1. modal' = modal
      BY <1>16 DEF StartRetract
    <3>2. spindle' = IF main'.nest = "pullOut" THEN spindle ELSE FALSE
      BY <1>16, StartRetractDoes
    <3> QED BY <3>1, <3>2
  <2>3. /\ main.nest = "suspend" /\ main.step = "suspend" /\ ~sys.abort
        /\ sys.state \in {"SafetyDoor", "Sleep"} /\ "retractComplete" \notin sys.suspend
    BY <2>1
  <2>4. Undisturbed => "restoreComplete" \notin sys.suspend
    BY <1>m, <2>3 DEF RestoredParked
  <2> QED BY <2>1, <2>2, <2>3, <2>4
<1>17. CASE PulledOut
  <2>1. /\ main.nest = "pullOut" /\ main.step = "parked" /\ flags' = flags
        /\ main'.nest \in {"retract", "suspend"} /\ main'.step \in {"parked", "alarm"}
        /\ sys'.state = sys.state /\ sys'.softLimit = sys.softLimit /\ again' = again
        /\ sys'.abort = sys.abort /\ sys'.ovr = sys.ovr
        /\ sys'.suspend \ sys.suspend \subseteq {"retractComplete"}
        /\ sys.suspend \ sys'.suspend \subseteq {"restartRetract"}
    BY <1>17, PulledOutDoes, SuspendSpares
  <2>2. (modal' => modal) /\ (modal => modal') /\ (spindle' => spindle)
    <3>1. modal' = modal
      BY <1>17 DEF PulledOut
    <3>2. spindle' = IF sys.abort THEN spindle ELSE FALSE
      BY <1>17, PulledOutDoes
    <3> QED BY <3>1, <3>2
  <2>3. sys.state \in {"SafetyDoor", "Sleep", "Alarm"}
    BY <1>c, <2>1 DEF AwayDoor
  <2>4. Undisturbed /\ sys.state = "SafetyDoor" => "restoreComplete" \notin sys.suspend
    BY <1>c, <1>m, <2>1 DEF AwayDoor, DoorHolds, DoorState, RestoredParked
  <2>5. sys.state = "Alarm" => sys.abort
    BY <1>a, <2>1
  <2>6. "holdComplete" \in sys.suspend => "holdComplete" \in sys'.suspend
    BY <2>1
  <2>7. "restoreComplete" \in sys'.suspend => "restoreComplete" \in sys.suspend
    BY <2>1
  <2> QED BY <2>1, <2>2, <2>3, <2>4, <2>5, <2>6, <2>7
<1>18. CASE RetractEnds
  <2>1. /\ main.nest = "retract" /\ main.step = "parked" /\ flags' = flags
        /\ main'.nest = "suspend" /\ main'.step = "alarm"
        /\ again' = again
    BY <1>18, Moves DEF RetractEnds
  <2>2. sys' = Retracted(sys)
    BY <1>18 DEF RetractEnds
  <2>3. /\ sys'.state = sys.state /\ sys'.softLimit = sys.softLimit /\ sys'.abort = sys.abort
        /\ sys'.ovr = sys.ovr
        /\ sys'.suspend = (sys.suspend \ {"restartRetract"}) \union {"retractComplete"}
    BY <2>2, RetractedDoes
  <2>4. (modal' => modal) /\ (modal => modal') /\ (spindle' => spindle)
    BY <1>18 DEF RetractEnds
  <2>5. sys.state \in {"SafetyDoor", "Sleep", "Alarm"}
    BY <1>c, <2>1 DEF AwayDoor
  <2>6. Undisturbed /\ sys.state = "SafetyDoor" => "restoreComplete" \notin sys.suspend
    BY <1>c, <1>m, <2>1 DEF AwayDoor, DoorHolds, DoorState, RestoredParked
  <2>7. sys.state = "Alarm" => sys.abort
    BY <1>a, <2>1
  <2>8. "holdComplete" \in sys.suspend => "holdComplete" \in sys'.suspend
    BY <2>3
  <2>9. "restoreComplete" \in sys'.suspend => "restoreComplete" \in sys.suspend
    BY <2>3
  <2> QED BY <2>1, <2>3, <2>4, <2>5, <2>6, <2>7, <2>8, <2>9
<1>19. CASE Asleep
  <2>1. /\ main.nest = "suspend" /\ main.step = "suspend" /\ ~sys.abort /\ sys.state = "Sleep"
        /\ main'.nest = "sleep" /\ main'.step = "alarm" /\ sys' = sys /\ again' = again /\ flags' = flags
    BY <1>19, Moves DEF Asleep
  <2>2. (modal' => modal) /\ (modal => modal') /\ ~spindle'
    BY <1>19, <2>1 DEF Asleep, SetSpindle
  <2> QED BY <2>1, <2>2
<1>20. CASE DoorWait
  <2>1. /\ Looping /\ InHold /\ Arrived /\ sys.state = "SafetyDoor" /\ main'.step = "alarm"
        /\ main'.nest \in {"approach", "suspend"}
        /\ sys'.state = sys.state /\ ~sys'.abort /\ sys'.softLimit = sys.softLimit
        /\ sys'.ovr = sys.ovr
        /\ again => again'
        /\ sys'.suspend \ sys.suspend \subseteq {"restoreComplete"}
        /\ sys.suspend \ sys'.suspend \subseteq {"safetyDoorAjar"}
        /\ "reset" \in flags => "reset" \in flags'
    BY <1>20, DoorWaitDoes, DoorWaitSpares
  <2>2. Respins /\ ("restoreComplete" \in sys'.suspend \ sys.suspend /\ modal => spindle')
    BY <1>20, DoorRespins
  <2>3. main.nest = "suspend" /\ main.step = "suspend" /\ ~sys.abort
        /\ {"holdComplete", "retractComplete"} \subseteq sys.suspend
    BY <2>1
  <2>4. Undisturbed' => Undisturbed /\ sys.ovr = {}
    BY <2>1, <2>3
  <2>5. "restoreComplete" \in sys.suspend \/ "restoreComplete" \notin sys'.suspend
        \/ "restoreComplete" \in sys'.suspend \ sys.suspend
    OBVIOUS
  <2>6. RestoredSpun'
    BY <2>1, <2>2, <2>3, <2>4, <2>5
  <2>7. OverrideHeld' /\ EnabledHeld' /\ ParkedPlain' /\ StopEnabled'
    BY <2>1, <2>4
  <2>8. SpindleWanted'
    BY <2>1, <2>2, <2>3, <2>4
  <2> QED BY <2>1, <2>6, <2>7, <2>8
<1>21. CASE Approached
  <2>1. /\ main.nest = "approach" /\ main.step = "parked" /\ flags' = flags
        /\ main'.nest \in {"plunge", "suspend"}
        /\ main'.step = IF main'.nest = "plunge" /\ sys.abort THEN "parked" ELSE "alarm"
        /\ sys'.state = sys.state /\ Keeps(sys', sys) /\ again' = again
    BY <1>21, ApproachedDoes, SuspendSpares
  <2>2. Respins /\ (main'.nest = "plunge" /\ ~sys.abort /\ modal => spindle')
    BY <1>21, DoorRespins
  <2>3. sys.state = "Alarm" => sys.abort
    BY <1>a, <2>1
  <2>4. Undisturbed => sys.state \in {"SafetyDoor", "Alarm"} /\ "restoreComplete" \notin sys.suspend
    BY <1>c, <2>1 DEF BackDoor
  <2>5. Undisturbed /\ sys.state = "SafetyDoor" => sys.ovr = {}
    BY <2>1
  <2>6. SpindleWanted' /\ PlungeSpun' /\ RestoredSpun'
    BY <2>1, <2>2, <2>3, <2>4
  <2>7. SpunAsSaid' /\ StopEnabled'
    BY <2>1, <2>3, <2>4, <2>5
  <2>8. OverrideHeld' /\ EnabledHeld' /\ ParkedPlain' /\ SpinAlarm' /\ AlarmPlain'
    BY <2>1, <2>3, <2>5
  <2> QED BY <2>6, <2>7, <2>8
<1>22. CASE PlungeEnds
  <2>1. /\ main.nest = "plunge" /\ main.step = "parked"
        /\ main'.nest = "suspend" /\ main'.step = "alarm"
        /\ sys'.state = sys.state /\ sys'.softLimit = sys.softLimit /\ sys'.abort = sys.abort
        /\ again' = again /\ sys'.ovr = sys.ovr
        /\ sys'.suspend = sys.suspend \union
             {b \in {"restoreComplete"} : "restartRetract" \notin sys.suspend}
        /\ "reset" \in flags => "reset" \in flags'
    BY <1>22, PlungeEndsDoes, SuspendSpares
  <2>2. (modal' => modal) /\ (modal => modal') /\ (spindle' => spindle) /\ (spindle => spindle')
    <3>1. modal' = modal
      BY <1>22 DEF PlungeEnds
    <3> QED BY <1>22, <3>1, PlungeSpares
  <2>3. sys.state = "Alarm" => sys.abort
    BY <1>a, <2>1
  <2>4. Undisturbed => sys.state \in {"SafetyDoor", "Alarm"}
    BY <1>c, <2>1 DEF BackDoor
  <2>5. Undisturbed /\ sys.state = "SafetyDoor" => sys.ovr = {}
    BY <2>1
  <2>6. SpindleWanted' /\ PlungeSpun' /\ RestoredSpun'
    BY <2>1, <2>2, <2>3, <2>4
  <2>7. SpunAsSaid' /\ StopEnabled'
    BY <2>1, <2>3, <2>4, <2>5
  <2>8. OverrideHeld' /\ EnabledHeld' /\ ParkedPlain' /\ SpinAlarm' /\ AlarmPlain'
    BY <2>1, <2>3, <2>4, <2>5
  <2> QED BY <2>6, <2>7, <2>8
<1>23. CASE HoldManager
  <2>1. /\ Looping /\ InHold /\ ~Parked /\ main'.step = "alarm" /\ main'.nest = "suspend"
        /\ sys'.state = sys.state /\ sys'.suspend = sys.suspend
        /\ ~sys'.abort /\ sys'.softLimit = sys.softLimit /\ again' = again
        /\ "reset" \in flags => "reset" \in flags'
    BY <1>23, HoldManagerDoes, SuspendSpares
  <2>2. /\ modal' => modal
        /\ modal => modal'
        /\ sys'.ovr # {} => sys.ovr # {}
        /\ \/ /\ "enabled" \in sys'.ovr => modal
              /\ modal => "enabled" \in sys'.ovr
              /\ modal => ~spindle'
              /\ spindle' => spindle
           \/ /\ sys'.ovr = {}
              /\ modal => spindle'
              /\ spindle' => spindle \/ modal
           \/ /\ sys'.ovr = sys.ovr
              /\ spindle => spindle'
              /\ spindle' => spindle
    BY <1>23, ManagerRespins
  <2>3. main.nest = "suspend" /\ main.step = "suspend" /\ ~sys.abort /\ "holdComplete" \in sys.suspend
        /\ sys.state \notin {"SafetyDoor", "Sleep"}
    BY <2>1
  <2>4. sys.state # "Alarm"
    BY <1>a, <2>3
  <2>5. SpunAsSaid' /\ StopEnabled' /\ SpindleWanted'
    BY <2>1, <2>2, <2>3
  <2> QED BY <2>1, <2>2, <2>3, <2>4, <2>5
<1>24. CASE Reinit
  <2>1. /\ main.step = "reinit" /\ main'.nest = "none" /\ main'.step = "boot"
        /\ sys'.suspend = {} /\ sys'.ovr = {} /\ ~spindle' /\ ~modal'
    BY <1>24, ReinitDoes, ProgramTurns
  <2> QED BY <2>1
<1>25. CASE Boot
  <2>1. /\ main.step = "boot" /\ main'.nest = main.nest /\ main'.step \in {"parse", "alarm"}
        /\ sys'.state \in {"Alarm", "Idle"} /\ again' = again
        /\ sys'.suspend = sys.suspend /\ sys'.abort = sys.abort /\ sys'.softLimit = sys.softLimit
        /\ sys'.ovr = {}
    BY <1>25, BootDoes, ProgramSpares DEF Keeps
  <2>2. ~modal' /\ ~spindle'
    BY <1>25, <2>1 DEF Boot
  <2> QED BY <2>1, <2>2
<1>26. CASE Loop
  BY <1>26, Moves, <1>s DEF Loop, AutoCycleStart
<1>27. CASE ReadLine
  BY <1>27, Moves, <1>s DEF ReadLine
<1>28. CASE LoopReturns
  BY <1>28, Moves, <1>s DEF LoopReturns
<1>29. CASE CallReturns
  BY <1>29, Moves, <1>s DEF CallReturns
<1>30. CASE Refused
  BY <1>30, Moves, <1>s DEF Refused
<1>31. CASE MotionLine
  BY <1>31, Moves, <1>s DEF MotionLine
<1>32. CASE SyncLine
  BY <1>32, Moves, <1>s DEF SyncLine, Synchronize, AutoCycleStart
<1>33. CASE CheckedLine
  <2>1. /\ main.step = "return" /\ main'.step = "parse" /\ ~sys.abort /\ sys.state = "CheckMode"
        /\ main'.nest = main.nest /\ again' = again /\ flags' = flags /\ sys' = sys
    BY <1>33, Moves DEF CheckedLine
  <2> QED BY <2>1
<1>34. CASE SleepLine
  BY <1>34, Moves, <1>s DEF SleepLine
<1>35. CASE UnlockLine
  <2>1. /\ main.step = "return" /\ ~sys.abort /\ sys.state = "Alarm" /\ main'.step = "parse"
        /\ main'.nest = main.nest /\ again' = again /\ flags' = flags
    BY <1>35, Moves DEF UnlockLine, Accepts
  <2>2. sys' = [sys EXCEPT !.state = "Idle"]
    BY <1>35 DEF UnlockLine
  <2>3. /\ sys'.state = "Idle" /\ sys'.suspend = sys.suspend /\ sys'.ovr = sys.ovr
        /\ sys'.abort = sys.abort /\ sys'.softLimit = sys.softLimit
    BY <2>2 DEF Systems
  <2>4. main.nest = "none" /\ sys.suspend = {} /\ ~modal /\ sys.ovr = {}
    BY <1>a, <2>1
  <2>5. Respins /\ (spindle' => spindle)
    BY <1>35 DEF UnlockLine, Respins
  <2> QED BY <2>1, <2>3, <2>4, <2>5
<1>36. CASE CheckLine
  <2>1. /\ main.step = "return" /\ ~sys.abort /\ main'.step = "parse"
        /\ main'.nest = main.nest /\ again' = again
        /\ sys'.suspend = sys.suspend /\ sys'.abort = sys.abort /\ sys'.softLimit = sys.softLimit
        /\ sys'.state = "CheckMode" /\ sys'.ovr = sys.ovr
        /\ flags \subseteq flags'
    BY <1>36, CheckLineDoes, ResetSpares DEF Keeps
  <2>2. /\ sys.state \in {"Idle", "CheckMode"} /\ main.nest = "none"
        /\ (modal' => modal) /\ (modal => modal')
    BY <1>36, <1>s, <2>1 DEF CheckLine
  <2>3. Undisturbed => sys.ovr = {}
    BY <2>2
  <2> QED BY <2>1, <2>2, <2>3
<1>37. CASE BeyondLine
  <2>1. /\ main.step = "return" /\ ~sys.abort /\ main'.step = "alarm"
        /\ main'.nest = main.nest /\ sys'.softLimit
        /\ sys'.suspend = sys.suspend /\ sys'.abort = sys.abort
        /\ sys'.state = sys.state /\ sys'.ovr = sys.ovr
    BY <1>37, BeyondLineDoes
  <2>2. sys.state = "Alarm" => ~modal /\ sys.ovr = {}
    BY <1>a, <2>1
  <2>3. modal' => modal
    BY <1>37 DEF BeyondLine
  <2> QED BY <2>1, <2>2, <2>3
<1>38. CASE SoftWait
  <2>1. /\ main.step = "return" /\ main'.step \in {"parse", "alarm"} /\ sys' = sys
        /\ main'.nest = main.nest /\ again' = again
    BY <1>38, SoftWaitDoes, ResetSpares
  <2>2. (modal' => modal) /\ (modal => modal')
    BY <1>38 DEF SoftWait
  <2>3. \/ UNCHANGED <<flags, spindle>>
        \/ "reset" \in flags'
    BY <1>38, ResetSpares DEF Resets
  <2>4. sys.state = "Alarm" /\ ~sys.abort => ~modal /\ sys.ovr = {}
    BY <2>1
  <2>5. CASE "reset" \in flags'
    BY <2>1, <2>2, <2>4, <2>5
  <2>6. CASE UNCHANGED <<flags, spindle>>
    BY <2>1, <2>2, <2>4, <2>6
  <2> QED BY <2>3, <2>5, <2>6
<1>39. CASE LineWaits
  BY <1>39, Moves, <1>s DEF LineWaits, AutoCycleStart
<1>40. CASE LineEnds
  <2>1. /\ main.step = "return" /\ main'.step \in {"alarm", "parse", "jogWake"}
        /\ main'.nest = main.nest /\ again' = again
        /\ sys'.suspend = sys.suspend /\ sys'.abort = sys.abort /\ sys'.softLimit = sys.softLimit
        /\ sys'.ovr = sys.ovr
        /\ sys'.state \in {sys.state, "Jog"}
        /\ sys'.state # sys.state => sys.state = "Idle" /\ ~sys.abort
        /\ "reset" \in flags => "reset" \in flags'
    BY <1>40, LineEndsDoes, ProgramSpares DEF Keeps
  <2>2. Respins /\ (spindle' => spindle)
    BY <1>40 DEF LineEnds, Respins
  <2>3. main.nest = "none" /\ (~sys.abort => sys.suspend = {})
    BY <1>s, <2>1
  <2>4. sys.state = "Alarm" /\ ~sys.abort => ~modal /\ sys.ovr = {}
    BY <2>1
  <2> QED BY <2>1, <2>2, <2>3, <2>4
<1>41. CASE JogWake
  BY <1>41, Moves, <1>s DEF JogWake
<1>42. CASE SyncWaits
  BY <1>42, Moves, <1>s DEF SyncWaits
<1>43. CASE SyncEnds
  <2>1. /\ main.step = "return" /\ main.caller \in {"syncPause", "syncSpindle"} /\ sys' = sys
        /\ main.nest = "none" /\ main'.nest = "none" /\ main'.step \in {"parse", "alarm"}
        /\ again' = again
        /\ "reset" \in flags => "reset" \in flags'
    BY <1>43, <1>s, Moves DEF SyncEnds
  <2>2. sys.state = "Alarm" => sys.abort
    BY <1>a, <2>1
  <2>3. sys.abort \/ sys.suspend = {}
    BY <1>s, <2>1
  <2>4. Undisturbed /\ ~sys.abort => "enabled" \notin sys.ovr
    BY <2>3
  <2>5. \/ UNCHANGED power
        \/ modal' = ~modal /\ SetSpindle(~modal)
    BY <1>43 DEF SyncEnds
  <2>6. CASE UNCHANGED power
    BY <2>1, <2>2, <2>6
  <2>7. CASE modal' = ~modal /\ SetSpindle(~modal)
    <3>1. ~sys.abort => (spindle' => modal') /\ (modal' => spindle')
      BY <2>7 DEF SetSpindle
    <3>2. SpunAsSaid' /\ SpindleWanted' /\ StopEnabled'
      BY <2>1, <2>4, <3>1
    <3> QED BY <2>1, <2>2, <2>3, <3>2
  <2> QED BY <2>5, <2>6, <2>7
<1>44. CASE CmdReset
  BY <1>44 DEF CmdReset, Flagged
<1>45. CASE CmdFlag
  BY <1>45 DEF CmdFlag
<1>46. CASE CmdSpindleStop
  BY <1>46 DEF CmdSpindleStop
<1>47. CASE CmdJogCancel
  BY <1>47 DEF CmdJogCancel
<1>48. CASE DoorSwitch
  BY <1>48 DEF DoorSwitch
<1>49. CASE LimitSwitch
  BY <1>49 DEF LimitSwitch, Flagged
<1>50. CASE CmdResetKill
  BY <1>50 DEF CmdResetKill
<1>51. CASE CmdJogCancelFlag
  BY <1>51 DEF CmdJogCancelFlag
<1>52. CASE UNCHANGED vars
  BY <1>52 DEF vars
<1> QED
  BY <1>1, <1>2, <1>3, <1>4, <1>5, <1>6, <1>7, <1>8, <1>9, <1>10, <1>11, <1>12, <1>13, <1>14,
     <1>15, <1>16, <1>17, <1>18, <1>19, <1>20, <1>21, <1>22, <1>23, <1>24, <1>25, <1>26, <1>27,
     <1>28, <1>29, <1>30, <1>31, <1>32, <1>33, <1>34, <1>35, <1>36, <1>37, <1>38, <1>39, <1>40,
     <1>41, <1>42, <1>43, <1>44, <1>45, <1>46, <1>47, <1>48, <1>49, <1>50, <1>51, <1>52
  DEF Next, Main, Interrupt, Clients, InCommand, ExecRtSystem, ExecRtSuspend, Program

\* Every state of a machine whose resets are not overtaken remembers what has stopped the
\* spindle of the program.
LEMMA OverrideHolds ==
  ASSUME ~Overtaken
  PROVE  Spec => [](Types /\ OverrideInv)
<1>1. Init => OverrideInv
  BY DEF Init, SysReset, OverrideInv, Calm, SpinAlarm, OverrideHeld, EnabledHeld, ParkedPlain, SpunAsSaid,
         StopEnabled, SpindleWanted, AlarmPlain, RestoredSpun, PlungeSpun, ParkMotions
<1>2. /\ Types /\ ControlInv /\ AutoInv /\ ResetInv /\ DoorInv /\ MotionInv /\ OverrideInv
      /\ [Next]_vars
      => OverrideInv'
  BY OverrideInvStep
<1> QED BY <1>1, <1>2, AutoHolds, DoorInvHolds, MotionHolds, PTL DEF Spec

\* A cycle runs with the spindle the program asked for: whatever the spindle stop override,
\* the sleep, the parking or a reset switched off is on again before the cycle starts, and
\* what the program switched off stays off, as long as no restore runs twice and no soft
\* limit is in the way (protocol_exec_rt_suspend(), spindle_stop_ovr).
THEOREM SpindleComesBack ==
  ASSUME ~Overtaken
  PROVE  Spec => []SpindleRestored
<1>1. Types /\ OverrideInv => SpindleRestored
  <2> SUFFICES ASSUME Types, OverrideInv, Undisturbed, sys.state = "Cycle",
                      "reset" \notin flags, ~sys.abort, main.step # "reinit"
               PROVE  spindle = modal
    BY DEF SpindleRestored
  <2>1. Calm
    BY DEF OverrideInv, SpinAlarm, Calm
  <2>2. sys.ovr = {}
    BY DEF OverrideInv, OverrideHeld
  <2>3. modal => spindle
    BY <2>1, <2>2 DEF OverrideInv, SpunAsSaid
  <2>4. spindle => modal
    BY <2>1 DEF OverrideInv, SpindleWanted
  <2>5. spindle \in BOOLEAN /\ modal \in BOOLEAN
    BY DEF Types, RestTypes
  <2> QED BY <2>3, <2>4, <2>5
<1> QED BY <1>1, OverrideHolds, PTL

=============================================================================
