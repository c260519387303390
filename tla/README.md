# grbl-esp32 in TLA+

A TLA+ model of the control logic of this firmware (`src/Grbl_Esp32/src`): from
the characters a client sends to the lines that are executed, the g-code parser
and the kinematics, the look-ahead planner with its velocity profiles, the step
segment buffer that the main task and the stepper interrupt share, the laser
beam that both of them set, the real-time protocol that starts, holds, parks and resets the machine, homing,
stored settings, the SD card job, the spindle drives on RS485, and the paper
feed and servos of this fork. TLC checks the modules on small instances; TLAPS
proves, for every size, most of the invariants of the real-time protocol with its
safety door, of the g-code parser, the settings, the card's job, the actuators
and the kinematics, and the central ones of the segment buffer.

The modules follow the build of the active board (`boards_config.h` 43,
`Machines/HE_3AXIS.h`): laser spindle, CoreXY, Bluetooth and SD card on, WiFi
off, RMT steps, `PARKING_ENABLE`, `ENABLE_SAFETY_DOOR_INPUT_PIN`,
`SEGMENT_BUFFER_SIZE` 6, no software debounce. Where another build has control
flow of its own, a constant or an initial choice says which build is meant: the
web requests of `SdCard`, the homing without `user_defined_homing`, the drives of
`VFDSpindle`, `M4` in `GCode`. The main loop and `clientCheckTask` are tasks of
the same priority, so either may be pre-empted between any two instructions; the
stepper, the limit and the control pins interrupt both.

## 1. Inventory

Execution contexts: the **main task** (`run_once` → `protocol_main_loop`, which
executes lines and, from every waiting loop, `protocol_execute_realtime`), the
**input task** (`clientCheckTask`: characters, real-time commands and, with WiFi,
web requests), the **stepper interrupt**, **pin interrupts** (limits, door,
control buttons, probe), the **drive task** of an RS485 spindle, and on this fork
three small tasks for paper feed and servos.

| Component | State it keeps | Operations | What is hard | What makes it correct |
|---|---|---|---|---|
| Segment buffer, `Stepper.cpp` | `segment_buffer` with tail, head, next head; `st_block_buffer`; `prep`, `pl_block`; `st`; the timer; `cycle_stop` | `st_prep_buffer`, `stepper_pulse_func`, `st_update_plan_block_parameters`, `st_parking_setup_buffer`, `st_parking_restore_buffer`, `st_wake_up`, `st_go_idle`, `st_reset` | two rings shared without a lock; the head is published before the bookkeeping is done; slots are reused without a check | every segment is stepped with its own block's data; every block makes exactly its steps, once, in order; a hold and a cycle end |
| Planner, `Planner.cpp` | the block ring, `block_buffer_planned`, the previous nominal speed | `plan_buffer_line`, `planner_recalculate`, discard, re-initialise, override update | a short cut that trusts earlier passes; the first block is being executed while the rest is re-planned | the plan is the optimal one, reachable, brakeable; no jump in speed; corners respected |
| Real-time protocol, `Protocol.cpp` | `sys` (state, suspend bits, step control), `sys_rt_exec_state`, `sys_rt_exec_alarm`, `cycle_stop` | `protocol_exec_rt_system`, `protocol_exec_rt_suspend`, `protocol_buffer_synchronize`, `protocol_auto_cycle_start`, `protocol_main_loop` | flags are set by four contexts and consumed in one; nested waiting loops; automatic starts | holds stay held; resets are honoured; everything queued is started; nothing waits for ever |
| Laser, `Laser.cpp`, `PWMSpindle.cpp` | the output; the power of each segment; `updateSpindleRpm`; `spindle_stop_ovr` | `set_state`, `set_rpm`, `stop`, `Spindle::sync` | interrupt, parser, suspend loop and `mc_reset` all set the output; the power is computed ahead of its use | each block burns at its own power; dark at rest |
| Door, parking, spindle stop, sleep | suspend bits, `spindle_stop_ovr`, the parking motion as a system motion in the planner's free block | suspend loop, `mc_parking_motion` | the door may open or close, a reset come, at any point of the sequence | spindle off while parked, on again before cutting; the program's motion untouched |
| Motion control, `MotionControl.cpp` | (none but `mc_reset`'s effects) | `mc_line`, `mc_arc`, `mc_dwell`, `mc_reset`, homing and probing cycles | `mc_reset` runs in the input task or in an interrupt | a motion cut off raises an alarm |
| Homing, `Limits.cpp`, `CoreXY.cpp` | `homing_axis_lock`, `sys_position`, the positions of planner and parser | `mc_homing_cycle`, `limits_go_home`, `user_defined_homing` | its own polling loop over switches, reset, door and cycle stop; a broken switch | homing ends, and well only if every switch was found and freed |
| Client input, `Serial.cpp`, `InputBuffer` | one ring per client | `clientCheckTask`, `client_read`, `client_reset_read_buffer` | flags and buffers written by two tasks, one of them without the lock | no line altered or doubled, none starves |
| Lines, `Protocol.cpp` | a line buffer per client | `add_char_to_line`, `protocol_main_loop` | overflow, backspace, a reset in the middle | what is executed is what was typed |
| G-code, `GCode.cpp` | `gc_state`, stored systems | `gc_execute_line`, jog lines, `$C` | words in any order, executed in the standard's; waits in the middle of a line; errors after half of it | parser, planner, machine and outputs agree; a motion ends where its line says |
| Kinematics, `CoreXY.cpp` | `current_mode`, `last_cartesian` | transforms, mode change | the inverse must undo the transform | see `GCode_proofs` |
| SD card job, `SDCard.cpp`, `Report.cpp`, `WebServer.cpp` | file, `sd_state`, `SD_ready_next`, `_upload_status` | `openFile`, `readFileLine`, `closeFile`, `report_status_message`, web requests | closed from another task; a state tested and set without a lock | the state tells of the job, no cut line kept, the job ends |
| Settings, `Settings.cpp`, `ProcessSettings.cpp` | three copies of each value | set, restore, erase, load | the middle copy decides whether the flash is written; two tasks; failing writes; power | no replaced value comes back |
| VFD spindles, `VFDSpindle.cpp` | command queue, retries, `_current_rpm`, `_sync_rpm` | `set_state`, `set_rpm`, `stop`, `vfd_cmd_task` | lost exchanges, a wait that runs the real-time protocol | after a reset the drive is off; the drive runs as the line says; every wait ends |
| Paper feed, servos (this fork) | queue of 4, `moving`, `task_done`, `stop_flag`, angles | M100–M108 | task and waiting loop share plain flags; timeouts | motors never overlap; a stop stops |
| Reports, pages, radio, I2S, motor drivers | tables and hardware | | mostly I/O or arithmetic | see section 6 |

Interaction: a g-code line becomes planner blocks (`mc_line` waits for room by
running the real-time protocol); the protocol's state decides when
`st_prep_buffer` turns the first block into segments and when `st_wake_up`
enables the interrupt; the interrupt answers with nothing but a moving tail and
`cycle_stop`; everybody else talks to the main task through the flag byte.
Lines reach the parser from the clients' rings or from the job's file, and the
answer to a line is what feeds the job. `mc_reset` is what all of them share: it
stops the steppers, the spindle and the outputs, closes the job, and leaves the
rest to the main task.

## 2. The modules

| Module | Models | Kind |
|---|---|---|
| `SegmentBuffer` | `Stepper.cpp` and the operations of `Protocol.cpp` and `MotionControl.cpp` that rewrite its records | detailed specification |
| `StepStream` | what the stepper subsystem owes: the steps of the blocks, one by one, in order | abstract specification |
| `SegmentBufferRefines` | the refinement mapping from the first to the second | |
| `Laser` | the laser output: its part of `GCode.cpp`, `Stepper.cpp`, the suspend loop, overrides and `mc_reset` | extends `SegmentBuffer` |
| `Planner` | `Planner.cpp` and the velocity profile part of `st_prep_buffer` | |
| `Realtime` | `Protocol.cpp`, the real-time part of `Serial.cpp`, `MotionControl.cpp`, `Limits.cpp`, `Jog.cpp`, `Grbl.cpp` | |
| `Clients` | `clientCheckTask`, `InputBuffer.cpp`, `client_read`, `add_char_to_line` and the main loop | |
| `SdCard` | `SDCard.cpp`, the file commands of `WebSettings.cpp`, `report_status_message`, the requests of `WebServer.cpp` that take the card | |
| `Kinematics` | the transforms of `CoreXY.cpp` | operators |
| `GCode` | `GCode.cpp`, `mc_line`, `mc_arc`, `mc_dwell`, `mc_probe_cycle`, the kinematics chosen at boot | extends `Kinematics` |
| `Homing` | `mc_homing_cycle`, `limits_go_home`, `user_defined_homing` | extends `Kinematics` |
| `Settings` | `Settings.cpp`, `$` commands of `ProcessSettings.cpp`, `Coordinates` | |
| `VFDSpindle` | `VFDSpindle.cpp`, the part of hold, override and reset that reaches it | |
| `Actuators` | `PaperFeed.cpp`, `ServoControl.cpp`, their calls in `GCode.cpp` | |
| `SegmentBuffer_proofs`, `Realtime_proofs`, `GCode_proofs`, `Settings_proofs`, `SdCard_proofs`, `Actuators_proofs`, `VFDSpindle_proofs` | theorems about the module they are named for; the first also about `Laser`, `SdCard_proofs` also about `Clients` | proofs |
| `Motion_proofs` | theorems about `Homing` and about `Planner` | proofs |
| `MCSegmentBuffer`, `MCLaser`, `MCGCode`, `MCHoming` | constants of the runs | |

An operator called `BadX` (and `MissedAlarm` in `Homing`) in these modules is `X`
with one plausible mistake. No specification uses it: `PROJECT.json` pairs it
with the property that finds the mistake.

**SegmentBuffer.** A planner block is a number with a count of steps; distances
are counted in parts of a step, so the code's `ceil` really rounds. Speeds are
left out: where the code derives the end of a segment from them, the model
takes any distance the loop's conditions allow. Only `st_prep_buffer` is long
enough to be interleaved, and it is split where an interrupt can tell the
difference: entering, loading a block (`PrepLoadNew`, `PrepLoadSame`,
`PrepKeep`), cutting a segment into the free slot (`PrepSegment`), publishing
the head, then updating the block and choosing the exit (`PublishMore`,
`PublishLast`, `PublishBlockEnd`), and `st_wake_up`. The other
handlers of the main task (`BufferLine`, `CycleStart`, `FeedHold`, `SafetyDoor`,
`HandleCycleStop`, `ParkMotion`, `ParkRestore`, `StartRestore`, `DoorReopened`,
`Reset`) are one action each. The interrupt makes one step (`IsrStep`) or finds
the ring empty (`IsrEmpty`). `Spec` has all of them, `UnparkedSpec` and `FairSpec`
leave out those that only a parking motion makes possible.

**Laser.** Each action is one of `SegmentBuffer` with what it does to the beam
(`Segment` gives the new segment its power, `Step` sets it when the interrupt
loads the segment, `Empty` takes it away after M4), or one that leaves the
buffer alone: a line that changes speed or spindle (`Line`), the turns of the
suspend loop (`EnterSuspend`, `HoldTurn`, `Deenergize`, `Reenergize`, `DoorTurn`),
the passes of `protocol_exec_rt_system` between them, the override and the stop
character, and a reset in its four parts (`ResetStops` and `ResetKills` in the task
that calls `mc_reset`, `Abort` and `Cleared` in the main task), because the
interrupt runs in between. Powers are 0, 1 and 2; the speed that scales M4 is any
power up to the programmed one. `laserMode` (`$32`) is an initial choice: without
it the output is a spindle and the door parks.

**Planner.** Speeds are kept squared and distances multiplied by twice the
acceleration, as in the code's own formulas, so that one unit of distance
changes a squared speed by one and every formula is an integer one. The only
rounding is the peak of a triangular profile, rounded down. One acceleration
and one rapid rate stand for the axis limits, a set of junction speeds for the
corner angles, `SomeLarge` is `SOME_LARGE_VALUE`. `Recalculated` is
`planner_recalculate`, `Backward` and `Forward` its two passes and `planned` its
pointer, `Profile` the profile of `st_prep_buffer` with its five shapes,
`Segment` one segment of any length the ramps allow. All of it runs in the main
task; what is hard here is the order of the calls.

**Realtime.** The main task is one thread with a place: `main.caller` (the
loop of the program it is in), `main.nest` (the loop of the suspend routine
inside of it), `main.step` (the place inside `protocol_exec_rt_system`). Each
action is the code between two points at which another context may act. Motion
is what this protocol sees of it: a number of blocks, whether the ring holds
steps, whether the timer runs. The environment sends lines (motion, pause,
spindle, jog, sleep, unlock, check mode, beyond the soft limits), commands and
switch events, each bounded in number. `mc_reset` and the jog cancel take two
steps each, because the main task may run in between. A history variable `again`
remembers that a restore has begun for a tool that was already put back
(`realtime_again`); `Undisturbed` is the absence of that and of a soft limit, and
is a premise of the properties that fail with it.

**Clients.** A character is its number and its kind (printing, backspace, line
end). The input task fetches it (`Fetch`), throws it away while a job prints
(`Refuse`), takes the lock and reads the size of the ring (`Lock`), and stores or
drops it (`Store`, `Drop`). The main task scans the clients (`Scan`, `Read`),
executes at a line end (`Execute`), and after a reset empties ring after ring in
two stores each (`BeginSize`, `BeginPos`), without the lock, and then the lines.
History variables keep what was typed, so that `LineWhole` compares two
independent accounts of a line.

**SdCard.** Both tasks walk through the same places: `get_sd_state` (`Refresh`),
what the caller does with a free card (`Open`, `Take`) or a busy one (`Refused`),
the job's cycle of reading, executing and answering a line (`ReadLine`,
`LastLine`, `Executed`, `Answer`, `Feed`), and the parts of an upload. `closeFile`
is part of every handler that calls it.

**GCode.** A line is a sequence of words, each a letter and its value in
hundredths; `int_value` keeps a byte and the mantissa 16 bits, as in the code. A
word is parsed as it comes (`Word`), the checks run in the order of the code, then
the execution: what changes at once, the waits for the queue (where a reset of
another task falls in), motion, program flow. Arc geometry and soft limits are a
free choice of success.

**Homing.** The switches are distances with faults (sound, dead, stuck); the
interrupt moves the unlocked axes one unit a step. The polling loop is split
into the look at the switches (`Look`) and the look at the flags (`Check`), as the
interrupt, a reset or the door can fall between. `Passes` and `Jobs` are the
cycles of `mc_homing_cycle`; `build.custom` chooses `user_defined_homing`.

**Settings.** `current`, `stored` and `nvs` are `_currentValue`, `_storedValue` and the
flash. A set is its assignment, the decision to write (`Skip`, `WriteDefault`,
`Write`, `WriteFails`), the copy and the hook, each a step of one of two tasks. A
restart falls anywhere. The kinds of settings differ only in how they treat the
middle copy.

**VFDSpindle.** The drive task takes a request (initialisation before the queue
before a poll), and it is answered or lost (`Take`, `Answered`, `Unanswered`); the
drive hears a lost request or not. `set_state` is split at the queue operations
and in its wait, where `mc_dwell` runs the real-time protocol.

**Actuators.** The main task executes one line at a time; a paper feed or a
servo command is its synchronisation, each store to a flag the other task can
tell apart (`FeedMark`, `FeedUndone`, `FeedSend`, `ServoMark`, `ServoSend`) and
its wait (`FeedReturns`, `FeedTimeout`, `ServoReturns`). `paper_feed_task` is
split the same way, from `TaskReceives` to `TaskRests`; `servo_task` is a start
(`ServoReceives`), one step of a turn (`ServoTurns`) and the end (`ServoEnds`).
The axes are one bit, moving or at rest. A wait can only last longer than its
limit while a feed is under way. `paper_feed_stop` and `servo_stop` are one step
each: the other task reads or writes nothing in between that would tell.
The second servo has no pin on this machine.

How the modules relate: `Laser` is a composition, of `SegmentBuffer` with the
spindle's part of parser, protocol and reset. `Clients` delivers the lines that `Realtime`, `GCode` and
`SdCard` execute. `SegmentBuffer` is the detail of what `Realtime` calls ring and
timer and of what `Planner` calls `Segment`; it takes any cut the profiles may
make, `Planner` takes any moment at which the protocol may hold or resume, and
`Realtime` any speed at which the ring drains. `GCode` and `Homing` share
`Kinematics`, and leave to `Realtime` what a hold does to the motion they start.
`Actuators` and `VFDSpindle` take from `Realtime` that a synchronisation ends with
the axes at rest or with an abort.

## 3. What TLC checks

| Run | Module | Bounds | What it shows |
|---|---|---|---|
| `segment` | `SegmentBufferRefines` | ring of 3, 3 blocks, 2 holds, 1 reset | exact steps of the minor axes, the refinement of `StepStream`, holds and cycles end, when a hold may come at any moment and the ring may run dry in the middle of a motion |
| `laser` | `MCLaser` | ring of 3, 2 blocks, 2 holds, 1 parking motion, 1 reset, 1 line without motion, 1 stop, override or late hold; powers 0 to 2 | every step at the power of its own line, dark at rest, slot data intact and no step of the program while the door is open, through one parking motion |
| `planner` | `Planner` | 3 blocks, two lengths, two corners, 1 override change | the plan is optimal, profiles continuous within the acceleration, corners respected |
| `realtime` | `Realtime` | a queue of 1 (so that a line waits for room), 2 lines and 3 commands of every kind | undisturbed, a hold is at rest and the spindle on again in a cycle; no automatic start resumes; the spindle is off in the door |
| `realtime_live` | `Realtime` | a queue of 1; 1 line; 3 of reset, cycle start, door, limit switch | parking motions end and, undisturbed, keep the state; the queue drains, a reset is acted upon |
| `actuators` | `Actuators` | a queue of 1, feeds of 0 to 2 steps, 5 lines, 1 timeout, 1 reset | no feed is cut by an earlier stop, every wait ends by itself, axes and servo never move together |
| `clients` | `Clients` | 2 clients, rings of 2, lines of 2, 4 characters, 1 reset | a line is executed as typed, every line is read or wiped |
| `sdcard` | `SdCard` | files of up to 2 lines, 2 client lines, 2 requests, 1 reset | the card's state tells of the job, no cut line is kept, the job ends |
| `gcode` | `MCGCode` | 3 lines of up to 4 words from nine vocabularies, 1 event | parser, planner, offsets and outputs agree; targets and offsets are what the line says; a line is answered |
| `homing` | `MCHoming` | both builds, two cycle settings, every switch sound, dead or stuck, 1 event | an axis counts as homed only with its switch found and freed, other axes keep their position, nothing moves after an abort, homing ends |
| `settings` | `Settings` | three kinds of setting, three values, two tasks, 3 commands, 1 failing write, 1 restart | the value in force is the one last answered; no replaced value comes back |
| `vfd` | `VFDSpindle` | 2 lines, 2 lost exchanges, 2 operator inputs, 2 tries, queue of 4 | off after a reset, turning as the line says, every wait ends |

Why the bounds are enough. A ring of 3 segments has 2 block slots: the smallest
in which a slot is reused while the previous one may still be executed, and it
wraps within three blocks; the theorem of section 5 carries the slot invariant
to size 6 and beyond. Three planner blocks are the fewest with a block that is
neither the executed one nor the last, the only kind the reverse pass can skip;
two blocks let the ring in `Realtime` be empty, half full and full. A hold needs a
second one to meet the leftovers of the first; a door needs three or four events
to open, close, resume and open again during the restore. Two cuts or a cut and a
rapid, one of two steps so that it can be held half way, let a power computed for
one block meet another; one request of the user is enough for the causes
that light the laser at rest, but a third block is needed for the early return of a
synchronisation (`laser_dark`, the proof covers any number). Five lines are the
fewest in which feeds that overlap fill a queue (`FeedRejected`): each overlap
leaves one more command behind. A client ring of 2 is full, wraps and is reset in
mid-write within four characters, and a line of 2 overflows with three. Two file
lines make a job that is fed once between its first and its last line. Three
g-code lines set a state, use it and use it again; four words are the fewest in
which a command, an axis, a coordinate system and a conflicting word share a
line. The homing travels are as short as they can be with a switch in or out of
reach of each phase. Three setting commands are a value, its replacement and a
restore; the flash can fail once and the power once. Two lost exchanges with two
tries are one unresponsive drive, or one loss in each of two commands.

`Underrun` and `HoldAtRest` of `SegmentBuffer` and `Overtaken` of `Realtime`
switch single assumptions of the code: whether the interrupt may drain the ring
before the main task refills it (the comment of `st_prep_buffer` takes it that
it does not, and with parking motions the runs take the same), whether a hold
may come at rest, and whether `mc_reset` may be pre-empted for as long as the
whole re-initialisation lasts.

Fairness. `SegmentBuffer`: weak fairness of the steps inside `st_prep_buffer`
(a function that runs to its end) and of the interrupt while its timer is
enabled; strong fairness of `HandleCycleStop`, because every loop of the main
task comes back to `protocol_exec_rt_system`, which tests `cycle_stop`.
Holds, resumes, lines and the door are not fair. `Realtime`: weak fairness of
the main task, of the stepper interrupt and of the rest of a command the input
task has begun (two tasks of one priority and an interrupt); strong fairness of
`Prepping`, since a block is finitely many segments and repeated calls of
`st_prep_buffer` exhaust it. `Actuators`: weak fairness of the two tasks and of
the return from a wait whose flag is set (tasks of one priority that block on
their queues or sleep between two looks at a flag); the timeout, stops, resets, further lines
and the end of an axis motion are not fair, so `WaitEnds` shows that the waits
need none of them. `Clients` and `SdCard`: weak fairness of each task, whose
loops never block; that a character, a line or a request comes is not fair.
`Laser` states no liveness. `GCode`: the line at hand goes on, and the motion it waits for ends. `Homing`: the
main task polls, the interrupt steps while its timer runs. `VFDSpindle`: the main
task, the drive task (an exchange is taken; it is answered at last, for losses are
bounded), the drive turns to what it was told, a running motion ends. No user
action is ever fair, so no liveness property relies on a user who resumes or
resets. Deadlock is checked except in the runs of `SegmentBuffer`, `Laser`, `Actuators`,
`Clients`, `GCode`, `Homing`, `Settings` and `VFDSpindle`, where a finished program with
spent bounds really stops.

## 4. Where the code and its comments disagree

Each of these has a `.cfg` beside the modules that TLC ends with a
counterexample; none of them is one of the runs above. Run them with
`tlc -config X.cfg Module`.

`SegmentBuffer` (`MCSegmentBuffer`):

* `segment_park2` – `st_parking_restore_buffer` leaves its own flags set when a
  partial block was held; a second parking motion that starts before that block
  was reloaded restores a stale slot, and a segment is stepped with the data of
  another block (`Stepper.cpp:487-504`).
* `segment_minor` – after a parking motion the rest of
  the block is cut into a new slot and the interrupt restarts the minor axes'
  counters, against `Protocol.cpp:417-418`.
* `segment_sync` – between the test of `cycle_stop` and the `st_prep_buffer`
  of one `protocol_exec_rt_system` the ring can drain, so the synchronisation
  returns with steps still in it (`Protocol.cpp:206-207`).
* `segment_idle` – a door opened in Idle with a started block: the wake-up
  for the parking motion executes the leftover segments first.

`Laser` (`MCLaser`). `Config.h:580-583` promises that the laser is disabled during a
hold, `Protocol.cpp:629` that it stops at once with the door. `laser_dark` lists five
invariants, each of which allows all causes but one; TLC ends with the first
violation, so delete the others to see one of them.

* `DarkDespiteOverride` – a spindle override calls `set_rpm` with the speed of the
  parser in any state (`Protocol.cpp:461-470`): the laser burns behind the open door,
  in a hold, or at rest.
* `DarkAfterEarlyStop` – the stop of a hold is a toggle. A stop character that is
  taken up while the motion still decelerates becomes the stop, and the request the
  suspend loop makes of itself (`Protocol.cpp:560-564`) then switches the laser on
  again for the rest of the hold.
* `DarkAfterLateHold` – a feed hold in the pass that reads the cycle start the loop has
  posted keeps the machine in Hold with `updateSpindleRpm` set, and the hold manager
  lights the laser (`Protocol.cpp:737-746`, `376-379`).
* `DarkAfterReset` – the interrupt loads a segment after `spindle->stop()` of
  `reset_variables` and before `st_reset` (`Grbl.cpp:110-118`): the machine is reset
  with the laser on. It needs a timer that `mc_reset` has not stopped yet, or that has
  been started again (`realtime_loss`, `realtime_kill`).
* `DarkAfterEarlySync` – a spindle line synchronises first, but the synchronisation can
  return with segments of the block before it in the ring (`segment_sync`,
  `Protocol.cpp:206-217`). The next start executes them with the power they were cut
  for, after an `M5` or an `M4` has set the new one, and the ring can run dry with the
  beam lit. It needs three blocks and was found by the proof of `LaserDark`, whose
  statement had not excepted it.

By the code's own design a line with `M4` (or a speed) and no motion in `G1` lights
the laser at rest, as `set_state` takes the speed as it is; the model has it so, and
`LaserDark` speaks of a beam in M4 only when a segment has set it last.

`Realtime`:

* `realtime_sync` – `protocol_buffer_synchronize` asks for the automatic start
  once; if the request is consumed in the pass that ends the previous cycle,
  the machine is idle with a block queued and the loop waits for it
  (`Protocol.cpp:209-216`, `376-447`).
* `realtime_loss` – `mc_reset` sets the reset flag first and the alarm last;
  the main task can re-initialise in between and come up idle although the
  position is lost (`MotionControl.cpp:503-541`, `Grbl.cpp:102`).
* `realtime_softpark` – a door opened during a soft-limit hold: the parking
  motion's end is taken for the end of the program's motion,
  `executeSysMotion` stays set and `mc_parking_motion` never returns
  (`Protocol.cpp:420-447`, `MotionControl.cpp:479-484`). With a third line the
  state is Idle meanwhile, and a cycle start then runs queued blocks with the
  spindle still off; `SpindleRestored` therefore excepts soft limits.
* `realtime_again` (`DoorRemains`) – a feed hold in the pass that reads the cycle start
  of a finished restore drops that start (`Protocol.cpp:376-379`) and leaves
  `restoreComplete` and `initiateRestore` set. The suspend loop then runs the restore
  again (655), and a start in the middle of it finds `restoreComplete` (382) and
  resumes the program while the tool is being moved back, against the comment of 658
  that the state stays Door until the restore is complete. `HoldAtRest`,
  `SpindleRestored` and `ParkingKeepsState` except it (`again`).
* `realtime_jogcancel` – the jog cancel tests the state and then sets
  `motionCancel` (`Serial.cpp:262-263`); if the jog ends in between, Idle is
  left with a suspend nobody ends.
* `realtime_kill` – a reset between the state change and `st_wake_up` of a
  cycle start leaves the timer enabled after `mc_reset` (`Protocol.cpp:404`).

`Planner`:

* `planner_override` – a block whose maximum entry speed an override lowers to
  exactly its present entry speed is skipped by the reverse pass and may be
  entered too fast to brake (`Planner.cpp:77-78`, `159`).
  The first such block then overruns the speed of the one behind it; that the queue as a
  whole can still be stopped in, and that nothing of the kind happens without an
  override, is proved (`PlanCanStop`, `PlanBrakes`).
* without a file: an override that comes while the executed block already
  decelerates can ask for a profile that `Stepper.cpp:650` calls guaranteed to
  intersect and that does not; `WithinAcceleration` is therefore stated for
  plans no override has touched.

`Actuators`:

* `actuators_motors` (`OneMotor`) – `HANDOVER.md:488` says that the axes, the
  paper feed and the servo never run at the same time and that the tasks do not
  race. Two feeds and a motion suffice: the main task leaves its wait on
  `pf_task_done`, posts the second feed, and the task's late `pf_moving = false`
  (`PaperFeed.cpp:56`) ends the second wait at once.
* `actuators_servo` (`ServoArrives`) – M105 comes only when no turn is in
  progress, so `srv_stop_flag` stays set, the next gradual M103 stops at its
  first step and the task records the target as its angle
  (`ServoControl.cpp:171`, `57`, `66`; `HANDOVER.md:454`).
* `actuators_reset` (`NoFeedAfterReset`) – the synchronisation returns on an
  abort and `paper_feed_sync` posts the feed all the same (`PaperFeed.cpp:81`).

`GCode` (`MCGCode`), `Homing` (`MCHoming`):

* `gcode_named` – a jog with no axis word (`$J=F100`) moves every axis to machine
  zero: the test for axis words is not made for a jog.
* `gcode_outputs` – a line that waits for the queue goes on after a reset and
  switches its user outputs on although `mc_reset` has turned all off.
* `homing_claims`, `OnlyHomedAreSet` – the CoreXY build sets the positions of X and Y whatever was homed.
* `homing_claims`, `HomedInSync` (which TLC finds with the other one taken out) – its
  homing stores the motor positions the other way round
  than `cartesian_to_motors`, so parser and planner disagree after `$H`.

`Settings`:

* `settings_claims`, `Persistent` (with `Tasks = {main}` and no restart or failing write
  already) – a value set, restored to the default (or erased with
  `$NVX`) and set again is answered ok and not stored (`ProcessSettings.cpp:443`).
* `settings_claims`, `NoOldFloat` – `FloatSetting::load` never sets `_storedValue`: a default that
  equals what the heap held is not written, and the old value is loaded again.
* without a file (`CoordinatesKnown` as invariant of `settings.cfg`): `Coordinates::load`
  passes a length nobody initialised.
* `settings_claims`, `DriverFollows` – a restore, a failing write or a motion that has begun skips
  the hook: the driver keeps the old value.
* `settings_claims`, `TasksAgree` (with `Names = {"int"}` and `Given = {"set"}`, to see
  it alone) – two tasks set one setting: the flash keeps the other value.

`VFDSpindle`:

* `vfd_full`, `HoldNotResumed` – in a hold, a spindle override makes the main task wait for the
  drive; the wait synchronises the queue and so resumes the motion
  (`Protocol.cpp:377-378` says that a hold needs the user's word).
* without a file (`SpunUp` as property of `vfd_full.cfg`): an M4 after an M3 at the same speed does not wait for the reversal.
* `vfd_full`, `OffIsOff` – M5 after a synchronisation is not critical: lost five times, it is
  dropped in silence and the spindle turns on.
* `vfd_full`, `DriveRuns` – with a full queue a command is lost in silence: two overrides and an
  M4 suffice when the queue holds two.

Smaller observations, made while reading, that no module states: `G800` to `G802`,
which a comment calls the run-time switch of the kinematics (`GCode.cpp:437`),
cannot be reached, because `int_value` is a byte and 800 does not fit in it; the rest of a
line that overflowed is executed as a line of its own (`Protocol.cpp:64`); a file
line of 255 characters or more is taken for the end of the file; a refused web
upload ends a job that prints (`WebServer.cpp:1535-1544`); `T` is stored although
its line is rejected; `G38.5` sets the same mode as `G38.4`; the word order of `G0`
to `G3` and another axis command decides which of them takes the axis words;
`M6` and the user `M` words share a bit of the group mask; the loop
`axis <= n_axis` of `CoreXY.cpp` writes past its array; a CoreXY move of no length
has a feed rate that is not a number; the CoreXY homing never looks at
`sys.abort`; `notCycleOrHold` (`Settings.cpp:17`) joins with `&&` what cannot both
hold; `set_speed_command` of two drives divides by a maximum speed that is zero
until the drive has answered.

## 5. What is proved

`SegmentBuffer_proofs`, for every ring size of at least 3, every program and every
number of holds, resets, parking motions and requests, from `BufferAssumption` and, where
lines have powers, `LinesAssumption`:

* `TypeCorrect`: `Spec => []TypeOK`. `TypeOK` alone is not inductive: the count
  of a new segment is a difference of roundings, the interrupt decrements
  before it tests, and a loaded segment must be one that was written. `TypeInv`
  adds `SlotsWritten` (what is queued was published with a block and a count)
  and `Positions` (where the main task stands, what `prep` holds, and that the
  interrupt's count is the rest of the tail's). One lemma per action or small
  group of actions.
* `DataIntact`: `MaxParks = 0`, `Spec => []BlockDataIntact` (the run is `laser`). The code reuses a
  slot of `st_block_buffer` without asking. `DataInv` says why this is safe:
  the distance in the block ring from a queued segment's slot to the slot being
  filled is at most the distance in the segment ring from that segment to the
  slot being cut (`DistInv`). The segment ring is never full, so the distance
  is less than a full turn of the block ring, and the next slot is free. Two
  parking motions can break it (`segment_park2`), so with them it takes a hypothesis:
* `ParkedDataIntact`: `~Underrun, ~HoldAtRest`,
  `Spec /\ [][FreshDoor]_vars => []BlockDataIntact`, for any number of parking motions,
  restores, doors that open again and resets. `FreshDoor` says that when the state turns to
  `SafetyDoor` with a parking motion to come, `prep.flag.parking` is not left over from an
  earlier one; the counterexample of `segment_park2` is exactly such a step. A door that
  opens again during the retract or the restore is not excluded: the state is
  `SafetyDoor` already. `ParkInv` says what a parking motion does to the preparation: it
  starts with the ring drained and ends with it empty again (from `DoorInv`); in between,
  the slot of the held block is the one in `last_st_block_index` and no segment of the
  motion has it (`HeldSaved`); what `prep` works on is `pl_block` or the parking motion, and
  its data are at `st_prep_block` (`MakingRight`, `PartialRight`); and a complete hold cuts
  nothing else (`HoldCuts`). If `Underrun` or `HoldAtRest` is TRUE, TLC violates the
  property with one parking motion.
* `LaserDataIntact`: `MaxParks <= 1, ~Underrun, ~HoldAtRest`,
  `LaserSpec => []BlockDataIntact`, the values of the run `laser`: with one
  parking motion no flag can be left over (`ParksLeft`), and the hypothesis goes away.
* `MajorExact` and `MinorExact`: `MaxParks = 0`, `Spec => []MajorStepsExact` and
  `Spec => []MinorStepsExact` (the run is `segment`), also with `Underrun` and `HoldAtRest`.
  `StepsInv` replaces the sums over a program by a chain: there is a number of steps left
  before each queued segment such that, read from the tail to the place where
  `st_prep_buffer` cuts, a segment begins where the one before it ends, in the same
  block or at the first step of the next (`Chain`, `Follows`, `Covered`). The numbers are
  named by an existential, so that each step extends, shortens or keeps them.
  `steps_remaining` is the rounding of the distance that remains (`CutRight`), which is why
  no segment is empty; a deceleration ends inside a block only in a hold (`HoldRight`).
  The interrupt restarts a counter when the slot of `st_block_buffer` changes, and the
  slot changes exactly where a block begins (`SlotTurns`): that is where `DataInv` is
  needed. Within a block the counter stands on the line of its slope (`MadeAtTail`), and
  where the longest axis is at its end the range of the counter leaves the other axis
  one value, its own number of steps (`SlopeEnd`).
* `StreamImplemented`: `MaxParks = 0`, `Spec => StreamsSteps`. The buffer implements `StepStream`
  with what the interrupt has not made of each live block as the abstract `left`: a step
  is one of the first block that has steps left, and only a reset throws steps away.
  TLC checks the refinement with `left` read from the rings and from the distances instead
  (`SegmentBufferRefines`), which is a sum over the ring; together with `MajorExact` the
  theorem says as much: a block that has left planner and ring owes nothing.
* `DoorHoldsStill` and, with the laser's actions in between, `LaserDoorHoldsStill`: `Spec` and
  `LaserSpec` imply `NoStepWhileDoorOpen`, for any number of parking motions. `DoorInv` says
  that a hold ends only when the interrupt has stopped with everything prepped
  (`HeldStill`), that from then on `st_prep_buffer` cuts nothing but the parking motion,
  whose segments are all that is queued, until it has been executed to its end
  (`ParkOnly`), and that what a hold has set is taken back before a cycle (`Running`,
  `DoorParks`, `Wakes`). `~Underrun` and `~HoldAtRest` are assumed, the values the run
  `laser` gives: a hold that comes to a machine at rest is complete with segments left
  in the ring, and the door then executes them (`segment_idle`); and an interrupt that
  drains the ring while `st_prep_buffer` works ends the hold before its motion.
* `BlockOwnsBeam`: `LaserSpec => BeamOfBlock`, also with `Underrun` and `HoldAtRest`. The power
  is computed by the parser, changed in `st_prep_buffer` and used by the interrupt;
  `BeamInv` says what each may rely on: a block keeps what its line said (`LinesKept`),
  `is_pwm_rate_adjusted` of the slot in the making is that block's (`AdjustedRight`), the
  current power is the block's own unless an update is asked for (`RpmRight`), which every
  new block does, and so is that of each segment queued or loaded (`QueuedRight`,
  `BeamRight`). Parking motions exist only outside of laser mode (`Unparked`), where no
  slot is rate adjusted. The steps that hand on no power are treated together
  (`CalmBuffer`, `CalmPowers`).
* `LaserStaysDark`: `LaserSpec => []LaserDark`. `DarkInv` adds to `DoorInv` and `BeamInv` that
  the spindle mode changes only with nothing planned or queued (`OneSpindle`), so that
  with the spindle off every power on its way to the interrupt is 0 (`Quiet`) and in M4
  every power is cut with rate adjustment, and a drained ring leaves 0 behind (`Dimmed`);
  and that a hold which no excepted cause has touched goes through request, stop and
  restore in that order, dark from the stop to the restore (`SuspRight`, `HoldDark`,
  `DoorDark`). `~Underrun` and `~HoldAtRest` are assumed, as for the door.

`Actuators_proofs`, for every queue length, set of feeds and angles and number of
lines, timeouts and resets, from `ActuatorsAssumption`:

* `TypeCorrect`: `Spec => []TypeOK`, one lemma for each of the three tasks' types.
* `FeedWhole`: `Spec => FeedNotCut`. The invariant is `StopIsOwn`: between the
  task's `pf_stop_flag = false` and the end of the feed the flag is set only by
  a stop of this very feed.
* `ServoTurnsAlone`: `Spec => []ServoAlone`. The servo's state alone does not
  imply it; `ServoInv` adds that a reset leaves the axes at rest, that nobody
  starts them between the synchronisation and the return from the wait
  (`AxesHeld`), and that `srv_moving` keeps the main task there for as long as a
  command is posted or being executed (`MovingCovers`).

`Realtime_proofs`, for every queue length, set of lines and commands and number of
them, both builds of the parking, from `RealtimeAssumption`:

* `TypeCorrect`: `Spec => []TypeOK`. The main task's place is what needs an
  argument: the loop it returns to (`main.nest`, `main.caller`) is one it came from.
* `NoAutoResume`: `Spec => HoldNotAutoResumed`. `AutoInv` says where a start nobody
  has asked for can be: raised outside of the suspend loop (`AutoTaken`), still in the
  flags when its copy is acted upon (`StartPending`), and met by a machine on which
  nothing is suspended (`NotSuspended`, `StartsFresh`). It rests on `ControlInv`: an
  abort is on its way out of every loop, and a suspend loop ends before the pass
  after it begins.
* `DoorStopsSpindle` and `ParkingInDoorState`: `[]DoorSpindleOff` and
  `[]ParkingKeepsState`, where `mc_reset` is not pre-empted for the whole
  re-initialisation (`~Overtaken`, as in every run; with it the second is false).
  `DoorInv` says what the suspend bits of a door, a sleep and an alarm may be at every
  place of the main task: which of them survive a pass, a wait or a nested parking
  motion (`DoorHolds`, `AwayDoor`, `BackDoor`). `SpindleInv` follows the spindle from
  the de-energising to the restore (`RetractOff`, `ParkedOff`), through resets and
  critical alarms (`ResetOff`, `AlarmOff`). Both need `ResetInv`: a kill, a sleep
  or a soft limit that has begun is seen before the state it found is left.
* `HoldComesToRest`: `[]HoldAtRest`, from `~Overtaken` and, as in the property itself, for
  a machine whose restores run once and that no soft limit has stopped. `MotionInv` is
  what makes it inductive: the interrupt is on, or its cycle stop unread, only in a
  motion of the program, in a parking motion, or in a hold that still decelerates
  (`TimerOn`); a start wakes only a machine at rest (`WakeRuns`), also out of an alarm
  (`AlarmStill`); a parking motion is waited for (`MotionNest`, `MotionEnds`); and what
  retracts has held, what returns has retracted, what is restored has returned
  (`ArrivedHeld`, `ReturnsParked`, `RestoredParked`), so that no parking motion leaves
  a hold behind that is complete and moves.
* `SpindleComesBack`: `[]SpindleRestored`, from the same assumptions. `OverrideInv` says that
  the spindle differs from what the program asked for only where that is remembered:
  by a stop override that belongs to a complete hold and that parking takes back
  (`OverrideHeld`, `EnabledHeld`, `StopEnabled`, `ParkedPlain`), by a retract that no
  restore has undone (`RestoredSpun`, `PlungeSpun`), or by a reset on its way
  (`AlarmPlain`). A cycle starts from none of these.

`GCode_proofs`, for every set of programs of letters and integers
(`ProgramsAssumption`) and any number of lines and events:

* `TransformUndone`, for every position of integer coordinates: in each mode
  `motors_to_cartesian` undoes `cartesian_to_motors`, so the parser's position survives
  every synchronisation with the planner. It rests on the sums of the two belts being
  even together.
* `HomingSwapsMotors`: the transform `user_defined_homing` uses of its own is the
  other one with the motors exchanged; the two agree only where X is zero
  (`homing_claims`).
* `TypeCorrect`: `Spec => []TypeOK`; an output without a pin is never on.
* `PositionFollows`: `Spec => []PositionIsPlanned`, inductive by itself: lines, dropped
  jogs, short probe cycles and resets bring parser and planner together, by
  `TransformUndone`.
* `AccessoriesFollow`: `Spec => []AccessoriesAgree`, inductive with the types.
* `MotionsAsSaid`, `OffsetsSaid`: `Spec => TargetAsSaid` and `Spec => OffsetsAsSaid`, from
  `LinesSaid`: what the checks computed for a line still agrees with the parser's
  modes and offsets when the line comes to its motion, since nothing in between
  changes them but the line itself, and a jog cancel, which drops it.

`Settings_proofs`, for every set of names, values and tasks (`NamesAssumption`):

* `TypeCorrect`, and `CopiesFollow`: `Spec => []SettingsInv`. For a setting two tasks have
  not worked on at once, the value in force, the middle copy and the flash are
  apart only at the place of a command that is about to bring them together
  (`ForceFollows`, `FlashFollows`; the flash of a float is left out, see
  `settings_claims`).
* `OldValueGone`, `AnsweredInForce`: `[]NoOldValue` and `[]InForce` from it.

`SdCard_proofs`, for every set of commands and requests (`SdCardAssumption`):

* `TypeCorrect`; `CardTold`: `Spec => []JobKnown`; `LinesWhole`: `Spec => []NothingCut`. `CardInv`
  says that without web requests the main task has the card for itself: what it
  probes for is not open, what it reads is open or thrown away by a pending reset.
* `UploadsWhole`: an upload is called successful only if each of its parts was written
  (`UploadWhole`, which no run checks: it follows from `PartsWritten`).

`SdCard_proofs`, on the other source of lines, for any number of clients, sizes of ring
and line buffer, characters and resets (`ClientsAssumption`; the names of the two modules
are kept apart, so that this one extends both):

* `ClientsTypeCorrect`: `ClientsSpec => []ClientsTypeOK`.
* `LinesRunAsTyped`: `ClientsSpec => []LineWhole`. `LineInv` says of each client that its ring
  accounts for what it typed (`Account`): there are a text and a number of line ends
  after each character of the ring, beginning with the line in the making and ending
  with the line being typed, such that at each line end the text is the next line
  wanted, unless that line lost a character or grew too long. The sequences are named
  by an existential, so that each step extends, shortens or keeps them and no
  induction over the ring is needed. Where `begin()` falls into a write,
  `raced` is set and the account is given up.

`VFDSpindle_proofs`, for every set of speeds, queue size and number of retries, lines,
losses and inputs (`SpindleAssumption`):

* `TypeCorrect`: `Spec => []TypeOK`, with the shape of the main task's place in each part of
  `set_state`, and that an initialising exchange has one left to count down.
* `ResetStopsDrive`: `Spec => []DriveStopped`. `StoppingInv` says that after the restart of a
  reset, until a line turns the spindle on, the critical off command is queued or
  under way or obeyed (`OffAhead`), that nothing else queued turns the drive on, and
  that a hold's refresh finds the mode off and sends a speed at most. A lost
  off command is a reset of its own.
* `DriveFollowsLines`: `Spec /\ []Roomy => []DriveRuns`. `Roomy`, fewer commands queued than
  the queue holds, is needed: `vfd_full` loses one. `RunningInv` says that outside of a
  reset the last command on its way to the drive, or else the drive, has the mode that
  is current when that mode is not off, and that every command to turn the drive on is
  critical: only an off command can be dropped and leave the machine running, and then
  the spindle is off for the firmware.

`Motion_proofs`, about `Homing`, for both builds, every setting of the three cycles, any squared axes,
any combination of dead and stuck switches, and any number of resets and doors
(`HomingAssumption`):

* `HomingSucceeds`: `Spec => HomedAxesKnown`. `HomingInv` carries the success through the
  nested loops of jobs, phases and switches: every axis of the command that is not yet
  homed belongs to a job still to come (`ProgressInv`); within a job the axes that have
  left the lock have been found, a pull-off starts only when all were, and ends well
  only with all of them free (`JobInv`); the motors run for the job at hand and in the
  direction of its phase, and only for axes still locked (`MotionInv`), which is why
  the axes not named have not moved; and what the jobs can be follows from the command
  and the setting (`FitInv`).
* `AbortStartsNothing`: `Spec => NoMotionAfterAbort`, from `ModeInv`: with the default
  routine an abort is never met at a place that plans a motion.

`Motion_proofs`, about `Planner`, for every queue length, all lengths of lines, corners,
rates and overrides, and any number of holds and resets (`PlannerAssumption`):

* `PlanIsOptimal`: `PlanSpec => []PlanOptimal`. Best speeds are no fact a step could
  keep, so `QueueInv` says locally what they are: every block is entered at its maximum, at
  the speed the block before accelerates to or at the one it brakes from (`TightAt`), is
  never faster than what it is reached with (`ReachedUpTo`) or than it can brake from
  (`Feasible`), and the planned block is held by its own maximum or by what comes before
  it (`Final`), which is why no later line can improve it or a block before it. That
  a plan with these properties is the fastest is `TightIsBest`: from any block one is led
  block by block, forwards or backwards, to the limit that sets its speed. That the
  recursive functions of the two passes have values at all (`BackwardDef`, `ForwardDef`),
  and what the values are (`BothPasses`), is argued with the first or last block that would
  break the claim (`NatMin`, `Upward`, `Downward`), the library's induction having an
  operator as its parameter. In a hold the speeds of the plan stand
  while the machine falls behind them; the invariant is stated outside of it, and
  `plan_cycle_reinitialize` restores it.
* `SpeedIsContinuous`: `PlanSpec => WithinAcceleration`. `CycleProfile` and `HeldProfile`
  tie the ramp, its meeting points and its end to the distance left in the block, and
  `ExactProfile` says that without overrides they are cut for the very speed the next
  block is entered with, after every segment again.
* `CornersAreRespected`: `PlanSpec => JunctionRespected`, from `Limits`, what the maxima of
  neighbouring blocks come from, and `Steady`, the speed now against the first of them.
* `PlanBrakes` and `PlanCanStop`: the first needs `Feasible` and so no overrides; the
  second holds with them. `Stops` names the way left from each block to the end of
  the queue: no block is entered faster than can be braked over all of it. Planning anew
  keeps that (`RecalculatedStops`): a block the passes skip keeps a speed the queue can be
  stopped from.
* `PlanTypeCorrect`: `PlanSpec => []PlanTypeOK`, with the bound of the ring and of the
  overrides beside the invariant.

`SegmentBuffer_proofs` needs `BufferAssumption`, the others the assumptions named above:
sizes are numbers large enough for the code to make sense, the sets of the
environment are subsets of what a module knows, programs are words. TLC checks
them with every run, and it checked each strengthened invariant as an
invariant, on the instance of its run or a larger one, before it was proved.

What stays with TLC, and why:

* Every liveness property, whose fairness is expressed by `ENABLED`.
* The refinement of `StepStream` in the form of `SegmentBufferRefines`, whose mapping sums
  the ring (`StreamImplemented` proves it for the steps not made), and the exact counts
  with parking motions.

## 6. What is not modelled

* `Stepper.cpp`: the AMASS levels and timer periods, the RMT pulse. The counters of
  the axes are modelled by the points at which they are restarted.
* `Planner.cpp`: the limits of single axes and the angle of a corner are constants.
* Spindles: PWM duty, the scaling by the override, DAC, relay and BESC outputs, the
  registers of the drives. Jogs in laser mode.
* Atomicity: the flag byte of `Exec.h:10` is set by read-modify-write from four
  contexts; each update is one step here. Single loads and stores are split only
  where a comment of a module says so.
* `Realtime` has no homing and no feed override (they are in `Homing` and `Planner`), and
  no coolant of its own.
* G-code: reading of numbers, arc geometry, soft limits, inverse time and tool
  length in its arithmetic; startup lines; the jog line built by a console.
* I2S output (`I2SOut.cpp`), the midtbot and the other custom machines, Trinamic,
  Dynamixel and unipolar drivers: not part of the active board. What is left of the
  motors there is a pin.
* Reports, listings of settings, pages, authentication, WiFi, Bluetooth, telnet,
  notifications: wording and transport around libraries. `SdCard` and `Clients` have
  what of them reaches the machine. This is the larger part of the repository by
  lines, with the libraries in `src/libraries`, and it has no control flow that the
  properties above could tell apart.
* Machine definitions are constants that say which branches are built; scripts,
  the `AI` folder and the backups are no part of the firmware.

## 7. Plan

1. **Proofs.** `MajorStepsExact` with parking motions under `FreshDoor`: TLC finds it true, and
   `ParkInv` has what `StepsInv` would need about the slots.
2. **Flags.** `sys_rt_exec_state` as a byte with loads and stores and four writers:
   which requests can be lost.
3. **Bresenham.** The counters of the interrupt with AMASS as a recursive function
   over bounded inputs, against the exact line.
4. **I2S.** `I2SOut.cpp` for the boards that shift their steps out: the change between
   passthrough and stepping, DMA buffers and resets.
