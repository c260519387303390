----------------------------- MODULE VFDSpindle -----------------------------
(***************************************************************************)
(* A spindle behind a variable-frequency drive on RS485                    *)
(* (Spindles/VFDSpindle.cpp and the drives derived from it).  The main     *)
(* task turns M3, M4, M5, S words, overrides and holds into commands on a  *)
(* queue and waits until the speed the drive reports is the speed asked    *)
(* for; a task of its own sends the commands, retries them and polls; a    *)
(* reset stops the spindle from any task.  The drive may not hear a        *)
(* request, or its answer may be lost, and it takes time to turn.          *)
(*                                                                         *)
(* While the main task waits it runs mc_dwell, and with it the real-time   *)
(* commands and the automatic cycle start.  Left out: the deceleration of  *)
(* a hold, the safety door (there the wait nests the suspend loop in       *)
(* itself), the spindle stop override, the interrupt's set_rpm, which      *)
(* repeats the speed in force, and answers the parser does not like.       *)
(* Speeds are far apart: within 2.5 % means equal.                         *)
(***************************************************************************)
EXTENDS Naturals, Sequences

CONSTANTS
    Speeds,       \* the speeds lines ask for; overrides double them
    QUEUE_SIZE,   \* VFD_RS485_QUEUE_SIZE (10)
    MAX_RETRIES,  \* exchanges before the drive is unresponsive (5)
    Limit,        \* dwells without a change before the wait gives up (20)
    InitSteps,    \* exchanges that initialise the drive (Huanyang has 3)
    SafetyPolling,\* the speed is polled at all times, not only in a wait
    MaxLines, MaxFaults, MaxInputs  \* bounds: lines, losses, operator inputs

ASSUME SpindleAssumption ==
    /\ Speeds \subseteq Nat \ {0}
    /\ {QUEUE_SIZE, MAX_RETRIES, Limit} \subseteq Nat \ {0}
    /\ {InitSteps, MaxLines, MaxFaults, MaxInputs} \subseteq Nat
    /\ SafetyPolling \in BOOLEAN

Modes == {"off", "cw", "ccw"}
Rates == {0} \cup {r * o : r \in Speeds, o \in {1, 2}}
Unknown == 999  \* UINT32_MAX in _sync_rpm

VARIABLES
    current,    \* _current_state
    rpm,        \* _current_rpm
    sync,       \* _sync_rpm: the speed last reported
    queue,      \* vfd_cmd_queue
    request,    \* the exchange the task is in
    tries,      \* retry_count
    toInit,     \* exchanges left of the initialisation (pollidx < 0)
    unresponsive,
    drive,      \* the drive: mode and speed it was told, and how it turns
    main,       \* where the main task is in set_state
    modal,      \* gc_state.modal.spindle and gc_state.spindle_speed
    ovr,        \* sys.spindle_speed_ovr
    update,     \* sys.step_control.updateSpindleRpm
    machine,    \* sys.state
    block,      \* a block is in the planner
    reset, abort, alarm,
    asked,      \* the operator asked for a cycle start since the hold
    stopping,   \* history: nothing turned the spindle on since a reset
    counts      \* what was used of each bound

vfd    == <<current, rpm, sync, queue>>
link   == <<request, tries, toInit, unresponsive>>
flags  == <<reset, abort, alarm>>
motion == <<machine, block, asked>>
words  == <<modal, ovr, update>>
vars   == <<vfd, link, drive, main, words, motion, flags, stopping, counts>>

Nothing == [what |-> "none", to |-> "off", critical |-> FALSE]
Command(what, to, critical) == [what |-> what, to |-> to, critical |-> critical]
Ready == [step |-> "ready"]

Init ==
    /\ current = "off" /\ rpm = 0 /\ sync = 0 /\ queue = <<>>
    /\ request = Nothing /\ tries = 0 /\ toInit = InitSteps /\ unresponsive = FALSE
    /\ drive = [mode |-> "off", speed |-> 0, turns |-> <<"off", 0>>]
    /\ main = Ready
    /\ modal = [mode |-> "off", speed |-> 0] /\ ovr = 1 /\ update = FALSE
    /\ machine = "Idle" /\ block = FALSE /\ asked = FALSE
    /\ reset = FALSE /\ abort = FALSE /\ alarm = FALSE
    /\ stopping = FALSE
    /\ counts = [lines |-> 0, faults |-> 0, inputs |-> 0]

Counts(what, bound) ==
    /\ counts[what] < bound
    /\ counts' = [counts EXCEPT ![what] = @ + 1]

-----------------------------------------------------------------------------
(* Commands to the drive *)

\* xQueueSend without a wait: a full queue loses the command.
Sent(q, command) == IF Len(q) < QUEUE_SIZE THEN Append(q, command) ELSE q

BadSetMode(mode, critical) ==
    /\ current' = mode
    /\ queue' = Sent(queue, Command("mode", mode, critical))

\* set_mode: off forgets what is still queued.
SetMode(mode, critical) ==
    /\ current' = mode
    /\ queue' = Sent(IF mode = "off" THEN <<>> ELSE queue, Command("mode", mode, critical))

\* set_rpm: the same speed again is not sent.
SetRpm(r) ==
    LET scaled == r * ovr' IN
        IF scaled = rpm
        THEN UNCHANGED <<rpm, sync, queue>>
        ELSE /\ rpm' = scaled /\ sync' = Unknown
             /\ queue' = Sent(queue, Command("speed", scaled, scaled = 0))

BadStop == SetMode("off", FALSE)
Stop == SetMode("off", TRUE)

\* mc_reset: only the first call stops the spindle.
McReset ==
    /\ reset' = TRUE
    /\ IF reset THEN UNCHANGED <<current, queue, stopping>> ELSE Stop /\ stopping' = TRUE

-----------------------------------------------------------------------------
(* The task: vfd_cmd_task *)

\* Initialisation goes before the queue, the queue before a poll.
Poll == [what |-> "poll", to |-> "off", critical |-> FALSE]
Syncing == main.step \in {"wait", "dwell"}

Take ==
    /\ request = Nothing
    /\ \/ toInit > 0 /\ request' = [Poll EXCEPT !.what = "init"] /\ queue' = queue
       \/ toInit = 0 /\ queue # <<>> /\ request' = Head(queue) /\ queue' = Tail(queue)
       \/ /\ toInit = 0 /\ queue = <<>> /\ (Syncing \/ SafetyPolling)
          /\ request' = Poll /\ queue' = queue
    /\ UNCHANGED <<current, rpm, sync, tries, toInit, unresponsive, drive, main, words, motion, flags,
                   stopping, counts>>

\* What the drive does with a request it hears.
Obeyed ==
    CASE request.what = "mode" -> [drive EXCEPT !.mode = request.to]
      [] request.what = "speed" -> [drive EXCEPT !.speed = request.to]
      [] OTHER -> drive

\* The answer came and its checksum is right: the parser uses it.
Answered ==
    /\ request # Nothing
    /\ drive' = Obeyed
    /\ sync' = IF request.what = "poll" THEN drive.turns[2] ELSE sync
    /\ toInit' = IF request.what = "init" THEN toInit - 1 ELSE toInit
    /\ unresponsive' = FALSE
    /\ request' = Nothing /\ tries' = 0
    /\ UNCHANGED <<current, rpm, queue, main, words, motion, flags, stopping, counts>>

\* The request or its answer is lost; after MAX_RETRIES the task starts over
\* with the initialisation, and a critical command resets the machine.
Unanswered ==
    /\ request # Nothing
    /\ Counts("faults", MaxFaults)
    /\ drive' \in {drive, Obeyed}
    /\ IF tries + 1 < MAX_RETRIES
       THEN tries' = tries + 1 /\ UNCHANGED <<request, toInit, unresponsive, current, queue, flags, stopping>>
       ELSE /\ request' = Nothing /\ tries' = 0
            /\ unresponsive' = TRUE
            /\ toInit' = IF unresponsive THEN toInit ELSE InitSteps
            /\ IF request.critical
               THEN McReset /\ alarm' = TRUE /\ abort' = abort
               ELSE UNCHANGED <<current, queue, flags, stopping>>
    /\ UNCHANGED <<rpm, sync, main, words, motion>>

\* The spindle follows the drive, through a standstill when it reverses.
Target == IF drive.mode = "off" THEN <<"off", 0>> ELSE <<drive.mode, drive.speed>>
Turn ==
    /\ drive.turns # Target
    /\ drive' = [drive EXCEPT !.turns =
            IF @[1] \notin {"off", Target[1]} THEN <<"off", 0>> ELSE Target]
    /\ UNCHANGED <<vfd, link, main, words, motion, flags, stopping, counts>>

-----------------------------------------------------------------------------
(* The main task: set_state *)

Waits(mode) == mode # current \/ mode # "off"

BadSetState(mode, r, from) ==
    /\ IF mode # current
       THEN SetMode(mode, FALSE)
       ELSE UNCHANGED <<current, queue>>
    /\ main' = [step |-> "rpm", mode |-> mode, rpm |-> r, from |-> from, waits |-> Waits(mode),
                changed |-> mode # current]
    /\ stopping' = IF mode = "off" THEN stopping ELSE FALSE

\* set_state up to set_mode.
SetState(mode, r, from) ==
    /\ IF mode # current
       THEN SetMode(mode, mode # "off")
       ELSE UNCHANGED <<current, queue>>
    /\ main' = [step |-> "rpm", mode |-> mode, rpm |-> r, from |-> from, waits |-> Waits(mode),
                changed |-> mode # current]
    /\ stopping' = IF mode = "off" THEN stopping ELSE FALSE

\* set_rpm, and into the wait for the speed in force now.
SetSpeed ==
    /\ main.step = "rpm"
    /\ IF main.changed \/ rpm # main.rpm
       THEN ovr' = ovr /\ SetRpm(main.rpm)
       ELSE UNCHANGED <<ovr, rpm, sync, queue>>
    /\ main' = [main EXCEPT !.step = IF main.waits THEN "begin" ELSE "end"]
    /\ UNCHANGED <<current, link, drive, modal, update, motion, flags, stopping, counts>>

BeginWait ==
    /\ main.step = "begin"
    /\ main' = [step |-> "wait", mode |-> main.mode, rpm |-> main.rpm, from |-> main.from,
                want |-> rpm, last |-> sync, unchanged |-> 0]
    /\ UNCHANGED <<vfd, link, drive, words, motion, flags, stopping, counts>>

Ended == [step |-> "end", mode |-> main.mode, rpm |-> main.rpm, from |-> main.from]

InRange ==
    /\ main.step = "wait" /\ sync = main.want /\ main.unchanged < Limit
    /\ main' = Ended
    /\ UNCHANGED <<vfd, link, drive, words, motion, flags, stopping, counts>>

\* No change for ten seconds, or an abort: it did not reach its speed.
GiveUp ==
    /\ main.step = "wait" /\ main.unchanged >= Limit
    /\ McReset /\ alarm' = TRUE
    /\ main' = Ended
    /\ UNCHANGED <<rpm, sync, link, drive, words, motion, abort, counts>>

\* mc_dwell synchronises first: a block in the planner starts the cycle,
\* and a hold at rest is a state it starts from.
StartDwell ==
    /\ main.step = "wait" /\ sync # main.want /\ main.unchanged < Limit
    /\ IF block /\ ~reset
       THEN machine' = "Cycle" /\ update' = FALSE
       ELSE UNCHANGED <<machine, update>>
    /\ main' = [main EXCEPT !.step = "dwell"]
    /\ UNCHANGED <<vfd, link, drive, modal, ovr, block, asked, flags, stopping, counts>>

BadEndDwell ==
    /\ main.step = "dwell"
    /\ ~block \/ abort
    /\ main' = [main EXCEPT !.step = "wait", !.last = sync, !.unchanged = 0]
    /\ UNCHANGED <<vfd, link, drive, words, motion, flags, stopping, counts>>

\* The motion is over and the half second too, or the machine was reset.
EndDwell ==
    /\ main.step = "dwell"
    /\ ~block \/ abort
    /\ main' = [main EXCEPT !.step = "wait", !.last = sync,
                            !.unchanged = IF abort THEN Limit ELSE IF sync = main.last THEN @ + 1 ELSE 0]
    /\ UNCHANGED <<vfd, link, drive, words, motion, flags, stopping, counts>>

\* Back in the caller: a line records its words, a hold its refresh.
Finish ==
    /\ main.step = "end"
    /\ current' = main.mode
    /\ main' = Ready
    /\ IF main.from = "line"
       THEN modal' = [mode |-> main.mode, speed |-> main.rpm] /\ update' = update
       ELSE modal' = modal /\ update' = FALSE
    /\ UNCHANGED <<rpm, sync, queue, link, drive, ovr, motion, flags, stopping, counts>>

-----------------------------------------------------------------------------
(* The main task: lines, motion, real-time commands *)

\* A line with a spindle word, synchronised: M3, M4, M5 at the speed in
\* force (M5 passes it too), or an S word while the spindle is on.
Line(mode, speed) ==
    /\ main = Ready /\ machine = "Idle" /\ ~block /\ ~reset
    /\ \/ mode # modal.mode /\ (modal.mode = "off" \/ speed = modal.speed)
       \/ mode = modal.mode /\ mode # "off" /\ speed # modal.speed
    /\ Counts("lines", MaxLines)
    /\ SetState(mode, speed, "line")
    /\ UNCHANGED <<rpm, sync, link, drive, words, motion, flags>>

\* A motion is planned and the cycle starts.
Motion ==
    /\ main = Ready /\ machine = "Idle" /\ ~block /\ ~reset
    /\ Counts("lines", MaxLines)
    /\ block' = TRUE /\ machine' = "Cycle" /\ asked' = FALSE
    /\ UNCHANGED <<vfd, link, drive, main, words, flags, stopping>>

MotionEnds ==
    /\ machine = "Cycle"
    /\ machine' = "Idle" /\ block' = FALSE /\ asked' = FALSE
    /\ UNCHANGED <<vfd, link, drive, main, words, flags, stopping, counts>>

\* The main task is where it looks at the real-time flags.
AtRealtime == main.step \in {"ready", "dwell"} /\ ~reset

FeedHold ==
    /\ AtRealtime /\ main = Ready /\ machine = "Cycle"
    /\ Counts("inputs", MaxInputs)
    /\ machine' = "Hold" /\ asked' = FALSE
    /\ UNCHANGED <<vfd, link, drive, main, words, block, flags, stopping>>

CycleStart ==
    /\ AtRealtime /\ machine = "Hold"
    /\ machine' = "Cycle" /\ asked' = TRUE /\ update' = FALSE
    /\ UNCHANGED <<vfd, link, drive, main, modal, ovr, block, flags, stopping, counts>>

\* A spindle speed override, at any time the flags are looked at.
Override ==
    /\ AtRealtime
    /\ Counts("inputs", MaxInputs)
    /\ ovr' = 3 - ovr
    /\ update' = (machine = "Hold")
    /\ IF modal.mode = "off" THEN UNCHANGED <<rpm, sync, queue>> ELSE SetRpm(modal.speed)
    /\ UNCHANGED <<current, link, drive, main, modal, motion, flags, stopping>>

\* The suspend loop of a hold tells the spindle its new speed.
Refresh ==
    /\ main = Ready /\ machine = "Hold" /\ update /\ ~reset
    /\ SetState(modal.mode, modal.speed, "hold")
    /\ UNCHANGED <<rpm, sync, link, drive, words, motion, flags, counts>>

\* A reset, from the input task or a pin, between any two steps.
Reset ==
    /\ ~reset /\ Counts("inputs", MaxInputs)
    /\ McReset
    /\ UNCHANGED <<rpm, sync, link, drive, main, words, motion, abort, alarm>>

\* protocol_exec_rt_system: an alarm locks the machine, a reset aborts.
Aborts ==
    /\ main.step \in {"ready", "dwell"} /\ reset /\ ~abort
    /\ abort' = TRUE /\ alarm' = FALSE
    /\ machine' = IF alarm \/ machine = "Cycle" THEN "Alarm" ELSE machine
    /\ UNCHANGED <<vfd, link, drive, main, words, block, asked, reset, stopping, counts>>

\* reset_variables: the spindle is stopped again.
Restart ==
    /\ main = Ready /\ abort
    /\ Stop
    /\ reset' = FALSE /\ abort' = FALSE /\ alarm' = FALSE
    /\ block' = FALSE /\ asked' = FALSE
    /\ machine' = IF machine = "Alarm" THEN "Alarm" ELSE "Idle"
    /\ modal' = [mode |-> "off", speed |-> 0] /\ ovr' = 1 /\ update' = FALSE
    /\ stopping' = TRUE
    /\ UNCHANGED <<rpm, sync, link, drive, main, counts>>

Unlock ==
    /\ main = Ready /\ machine = "Alarm" /\ ~reset
    /\ machine' = "Idle"
    /\ UNCHANGED <<vfd, link, drive, main, words, block, asked, flags, stopping, counts>>

Task == Take \/ Answered \/ Unanswered
SetStates == SetSpeed \/ BeginWait \/ InRange \/ GiveUp \/ StartDwell \/ EndDwell \/ Finish
Operator ==
    \/ \E mode \in Modes, speed \in Speeds : Line(mode, speed)
    \/ Motion \/ FeedHold \/ CycleStart \/ Override \/ Reset \/ Unlock

Next == Task \/ Turn \/ SetStates \/ Aborts \/ Restart \/ Refresh \/ MotionEnds \/ Operator

Spec == Init /\ [][Next]_vars

\* Both tasks run, the drive answers unless a loss is left, motion ends.
Main == SetStates \/ Aborts \/ Restart \/ Refresh
Fairness ==
    /\ WF_vars(Take \/ Answered) /\ WF_vars(Turn)
    /\ WF_vars(Main) /\ WF_vars(MotionEnds)

FairSpec == Spec /\ Fairness

-----------------------------------------------------------------------------
(* Properties *)

Requests == {Nothing, Poll, [Poll EXCEPT !.what = "init"]}
    \cup {Command("mode", m, c) : m \in Modes, c \in BOOLEAN}
    \cup {Command("speed", r, r = 0) : r \in Rates}

\* Every variable has its type; the queue never exceeds its size.
TypeOK ==
    /\ current \in Modes /\ rpm \in Rates /\ sync \in Rates \cup {Unknown}
    /\ Len(queue) <= QUEUE_SIZE /\ \A i \in DOMAIN queue : queue[i] \in Requests
    /\ request \in Requests /\ tries \in 0..MAX_RETRIES - 1 /\ toInit \in 0..InitSteps
    /\ unresponsive \in BOOLEAN
    /\ drive \in [mode : Modes, speed : Rates, turns : Modes \X Rates]
    /\ main.step \in {"ready", "rpm", "begin", "wait", "dwell", "end"}
    /\ modal \in [mode : Modes, speed : {0} \cup Speeds]
    /\ ovr \in {1, 2} /\ update \in BOOLEAN
    /\ machine \in {"Idle", "Cycle", "Hold", "Alarm"}
    /\ {block, asked, reset, abort, alarm, stopping} \subseteq BOOLEAN

\* Nothing is on its way to the drive and nobody is about to send anything.
Quiet == main = Ready /\ queue = <<>> /\ request.what \in {"none", "poll"} /\ toInit = 0 /\ ~reset

\* VFDSpindle.cpp:184-289, 503-527, 583-588: after a reset the drive is
\* off once everything is quiet, whatever was queued or under way when the
\* reset fell and whichever exchange was lost.
DriveStopped == Quiet /\ stopping => drive.mode = "off"

\* VFDSpindle.cpp:398-443, 278-289: when a line leaves the spindle turning and all is
\* quiet without an alarm, the drive runs the way the line said.
DriveRuns == Quiet /\ current # "off" /\ machine # "Alarm" => drive.mode = current

\* VFDSpindle.cpp:445-491: the wait for a speed ends, reached or not, even
\* with a drive that no longer answers.
WaitEnds == (main # Ready) ~> (main = Ready)

\* Protocol.cpp:377-378: "Ensures auto-cycle-start doesn't resume a hold
\* without an explicit user-input."  The code does not keep it: in a hold a
\* spindle override waits for the drive, and the dwell starts the cycle.
HoldNotResumed == [][machine = "Hold" /\ machine' = "Cycle" => asked']_vars

\* VFDSpindle.cpp:570-572: "We want spindle sync to kick in after we set the
\* speed."  The code does not keep it: M4 after M3 at the same speed returns
\* while the spindle still turns the other way.
SpunUp ==
    [][main.step = "end" /\ main' = Ready /\ main.from = "line" /\ ~reset /\ main.mode # "off" =>
        drive.turns[1] = main.mode]_vars

\* VFDSpindle.cpp:409: off is "critical if we are in a job".  The code does not
\* keep it: a line is synchronised first, so M5 is never critical, and it does
\* not wait; lost, it leaves the drive running.
OffIsOff == Quiet /\ current = "off" => drive.mode = "off" \/ machine = "Alarm"

=============================================================================
