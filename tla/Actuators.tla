------------------------------ MODULE Actuators ------------------------------
(***************************************************************************)
(* The motors of this machine that are not axes: the paper feed (M100 to   *)
(* M102) and the paper servo (M103 to M105).  Each has a task of its own   *)
(* that takes commands from a queue; the main task, executing the line,    *)
(* first waits for the axes to stop, posts the command and waits for plain *)
(* volatile flags that the two of them share:                              *)
(*                                                                         *)
(*   paper_feed_sync()  sets pf_moving, clears pf_task_done, sends, waits  *)
(*                      until either says that the feed is over;           *)
(*   paper_feed_task()  clears pf_stop_flag and pf_task_done, makes the    *)
(*                      steps, sets pf_task_done, clears pf_moving.        *)
(*                                                                         *)
(* The tasks run on either core, so every access to a flag that the other  *)
(* side can tell apart is a step.  A feed is its number of steps, an angle *)
(* a number of servo steps.  The axes are one motion or none; the second   *)
(* servo has no pin on this machine.  A wait of the servo ends well before *)
(* its 120 s: the slowest full turn is 360 steps of 20 ms.                 *)
(***************************************************************************)
EXTENDS Integers, Sequences

CONSTANTS
    QUEUE_LEN,    \* PAPER_FEED_QUEUE_LEN (4)
    Feeds,        \* steps of a feed, mm * pf_steps_per_mm; 0 if it is that short
    Angles,       \* angles of the servo
    RESET_ANGLE,  \* SCTL_RESET_ANGLE
    MaxLines,     \* bound: lines executed
    MaxTimeouts,  \* bound: feeds that last longer than 300 s
    MaxResets     \* bound: resets

ASSUME ActuatorsAssumption ==
    /\ QUEUE_LEN \in Nat \ {0}
    /\ Feeds \subseteq Nat
    /\ Angles \subseteq Nat /\ RESET_ANGLE \in Angles
    /\ {MaxLines, MaxTimeouts, MaxResets} \subseteq Nat

VARIABLES
    main,     \* the main task: where it is, and the values of the line
    axes,     \* the axes move: a cycle of planner blocks
    reset,    \* a reset is pending or sys.abort set
    pf,       \* pf_moving, pf_stop_flag, pf_task_done
    queue,    \* pf_cmd_queue
    paper,    \* paper_feed_task: where it is, and the steps left
    srv,      \* srv_moving, srv_stop_flag, srv_cur_deg; pwm: the angle put out
    posted,   \* srv_cmd_queue
    servo,    \* servo_task: where it is, its command and the direction
    asked,    \* history: the feed was stopped after the task took it
    budget    \* lines, timeouts and resets left (bounds)

feedVars  == <<pf, queue, paper, asked>>
servoVars == <<srv, posted, servo>>
vars == <<main, axes, reset, feedVars, servoVars, budget>>

At(p) == main.at = p
Goto(p) == main' = [main EXCEPT !.at = p]
Feeding == paper.at = "feeding" /\ paper.left > 0

Init ==
    /\ main = [at |-> "parse", steps |-> 0, angle |-> RESET_ANGLE, gradual |-> FALSE]
    /\ axes = FALSE /\ reset = FALSE
    /\ pf = [moving |-> FALSE, stop |-> FALSE, done |-> FALSE]
    /\ queue = <<>>
    /\ paper = [at |-> "idle", left |-> 0]
    /\ srv = [moving |-> FALSE, stop |-> FALSE, cur |-> RESET_ANGLE, pwm |-> RESET_ANGLE]
    /\ posted = <<>>
    /\ servo = [at |-> "idle", angle |-> RESET_ANGLE, gradual |-> FALSE, dir |-> 1]
    /\ asked = FALSE
    /\ budget = [lines |-> MaxLines, timeouts |-> MaxTimeouts, resets |-> MaxResets]

-----------------------------------------------------------------------------
(***************************************************************************)
(* The main task.  It tests sys.abort before every line and starts anew.   *)
(***************************************************************************)
Line == At("parse") /\ ~reset /\ budget.lines > 0
        /\ budget' = [budget EXCEPT !.lines = @ - 1]

Move == Line /\ axes' = TRUE /\ UNCHANGED <<main, reset, feedVars, servoVars>>

\* M100, M101: paper_feed_sync() up to its protocol_buffer_synchronize().
FeedLine(n) ==
    /\ Line
    /\ main' = [main EXCEPT !.at = "sync", !.steps = n]
    /\ UNCHANGED <<axes, reset, feedVars, servoVars>>

\* M103, M104: servo_set_angle(), servo_reset().
TurnLine(a, g) ==
    /\ Line
    /\ main' = [main EXCEPT !.at = "servoSync", !.angle = a, !.gradual = g]
    /\ UNCHANGED <<axes, reset, feedVars, servoVars>>

\* The synchronisation returns with the axes at rest, or at once on an abort.
Synchronized(from, to) ==
    /\ At(from) /\ (~axes \/ reset)
    /\ Goto(to)
    /\ UNCHANGED <<axes, reset, feedVars, servoVars, budget>>

FeedMark ==
    /\ At("mark") /\ Goto("undone")
    /\ pf' = [pf EXCEPT !.moving = TRUE]
    /\ UNCHANGED <<axes, reset, queue, paper, asked, servoVars, budget>>

FeedUndone ==
    /\ At("undone") /\ Goto("send")
    /\ pf' = [pf EXCEPT !.done = FALSE]
    /\ UNCHANGED <<axes, reset, queue, paper, asked, servoVars, budget>>

FeedSend ==
    /\ At("send") /\ Len(queue) < QUEUE_LEN /\ Goto("wait")
    /\ queue' = Append(queue, main.steps)
    /\ UNCHANGED <<axes, reset, pf, paper, asked, servoVars, budget>>

\* The queue stays full for 10 s, which only a feed can last.
FeedRejected ==
    /\ At("send") /\ Len(queue) = QUEUE_LEN
    /\ Feeding /\ ~pf.stop
    /\ Goto("parse")
    /\ pf' = [pf EXCEPT !.moving = FALSE]
    /\ UNCHANGED <<axes, reset, queue, paper, asked, servoVars, budget>>

FeedReturns ==
    /\ At("wait") /\ (pf.done \/ ~pf.moving) /\ Goto("parse")
    /\ UNCHANGED <<axes, reset, feedVars, servoVars, budget>>

\* 300 s pass, which only a feed can last.
FeedTimeout ==
    /\ At("wait") /\ ~pf.done /\ pf.moving /\ budget.timeouts > 0
    /\ Feeding
    /\ Goto("parse")
    /\ budget' = [budget EXCEPT !.timeouts = @ - 1]
    /\ pf' = [pf EXCEPT !.stop = TRUE, !.moving = FALSE]
    /\ asked' = TRUE
    /\ UNCHANGED <<axes, reset, queue, paper, servoVars>>

\* M102: paper_feed_stop().
FeedStop ==
    /\ Line
    /\ queue' = <<>>
    /\ pf' = [pf EXCEPT !.stop = TRUE, !.moving = FALSE]
    /\ asked' = TRUE
    /\ UNCHANGED <<main, axes, reset, paper, servoVars>>

BadServoMark ==
    /\ At("servoMark") /\ Goto("servoSend")
    /\ UNCHANGED <<axes, reset, feedVars, servoVars, budget>>
ServoMark ==
    /\ At("servoMark") /\ Goto("servoSend")
    /\ srv' = [srv EXCEPT !.moving = TRUE]
    /\ UNCHANGED <<axes, reset, feedVars, posted, servo, budget>>

ServoSend ==
    /\ At("servoSend") /\ Goto("servoWait")
    /\ posted' = Append(posted, [angle |-> main.angle, gradual |-> main.gradual])
    /\ UNCHANGED <<axes, reset, feedVars, srv, servo, budget>>

ServoReturns ==
    /\ At("servoWait") /\ ~srv.moving /\ Goto("parse")
    /\ UNCHANGED <<axes, reset, feedVars, servoVars, budget>>

\* M105: servo_stop().
ServoStop ==
    /\ Line
    /\ posted' = <<>>
    /\ srv' = [srv EXCEPT !.stop = TRUE, !.moving = FALSE, !.pwm = srv.cur]
    /\ UNCHANGED <<main, axes, reset, feedVars, servo>>

\* run_once() after an abort; no function of PaperFeed or ServoControl is called.
Reinit ==
    /\ At("parse") /\ reset
    /\ reset' = FALSE /\ axes' = FALSE
    /\ UNCHANGED <<main, feedVars, servoVars, budget>>

Main == \/ \E n \in Feeds : FeedLine(n)
        \/ \E a \in Angles, g \in BOOLEAN : TurnLine(a, g)
        \/ Synchronized("sync", "mark") \/ Synchronized("servoSync", "servoMark")
        \/ FeedMark \/ FeedUndone \/ FeedSend \/ FeedRejected \/ FeedReturns
        \/ FeedStop \/ ServoMark \/ ServoSend \/ ServoReturns \/ ServoStop \/ Reinit

-----------------------------------------------------------------------------
(***************************************************************************)
(* paper_feed_task()                                                       *)
(***************************************************************************)
TaskAt(p) == paper.at = p
TaskGoto(p) == paper' = [paper EXCEPT !.at = p]

TaskReceives ==
    /\ TaskAt("idle") /\ queue # <<>>
    /\ paper' = [at |-> "taken", left |-> Head(queue)]
    /\ queue' = Tail(queue)
    /\ asked' = FALSE
    /\ UNCHANGED <<main, axes, reset, pf, servoVars, budget>>

BadTaskUnstops ==
    /\ TaskAt("taken") /\ TaskGoto("unstopped")
    /\ UNCHANGED <<main, axes, reset, pf, queue, asked, servoVars, budget>>
TaskUnstops ==
    /\ TaskAt("taken") /\ TaskGoto("unstopped")
    /\ pf' = [pf EXCEPT !.stop = FALSE]
    /\ UNCHANGED <<main, axes, reset, queue, asked, servoVars, budget>>

TaskUndone ==
    /\ TaskAt("unstopped") /\ TaskGoto("feeding")
    /\ pf' = [pf EXCEPT !.done = FALSE]
    /\ UNCHANGED <<main, axes, reset, queue, asked, servoVars, budget>>

BadTaskSteps ==
    /\ TaskAt("feeding") /\ paper.left >= 0 /\ ~pf.stop
    /\ paper' = [paper EXCEPT !.left = @ - 1]
    /\ UNCHANGED <<main, axes, reset, pf, queue, asked, servoVars, budget>>
TaskSteps ==
    /\ Feeding /\ ~pf.stop
    /\ paper' = [paper EXCEPT !.left = @ - 1]
    /\ UNCHANGED <<main, axes, reset, pf, queue, asked, servoVars, budget>>

TaskBreaks ==
    /\ Feeding /\ pf.stop /\ TaskGoto("ending")
    /\ UNCHANGED <<main, axes, reset, pf, queue, asked, servoVars, budget>>

\* The steps are made or broken off, or there were none to make.
Over == TaskAt("ending") \/ (TaskAt("feeding") /\ paper.left = 0)

BadTaskDone ==
    /\ Over /\ paper' = [at |-> IF TaskAt("ending") THEN "done" ELSE "idle", left |-> 0]
    /\ pf' = [pf EXCEPT !.done = TaskAt("ending")]
    /\ UNCHANGED <<main, axes, reset, queue, asked, servoVars, budget>>
TaskDone ==
    /\ Over /\ paper' = [at |-> "done", left |-> 0]
    /\ pf' = [pf EXCEPT !.done = TRUE]
    /\ UNCHANGED <<main, axes, reset, queue, asked, servoVars, budget>>

TaskRests ==
    /\ TaskAt("done") /\ TaskGoto("idle")
    /\ pf' = [pf EXCEPT !.moving = FALSE]
    /\ UNCHANGED <<main, axes, reset, queue, asked, servoVars, budget>>

PaperTask == \/ TaskReceives \/ TaskUnstops \/ TaskUndone \/ TaskSteps
             \/ TaskBreaks \/ TaskDone \/ TaskRests

(***************************************************************************)
(* servo_task().  Nobody posts while it has a command: that its queue is   *)
(* empty and that srv_moving falls are one step.                           *)
(***************************************************************************)
ServoReceives ==
    /\ servo.at = "idle" /\ posted # <<>>
    /\ LET c == Head(posted)
       IN  servo' = [at |-> IF c.gradual THEN "turning" ELSE "jump", angle |-> c.angle,
                     gradual |-> c.gradual, dir |-> IF c.angle > srv.cur THEN 1 ELSE -1]
    /\ posted' = Tail(posted)
    /\ srv' = [srv EXCEPT !.moving = TRUE]
    /\ UNCHANGED <<main, axes, reset, feedVars, budget>>

Short == IF servo.dir > 0 THEN srv.cur < servo.angle ELSE srv.cur > servo.angle

ServoTurns ==
    /\ servo.at = "turning" /\ Short /\ ~srv.stop
    /\ srv' = [srv EXCEPT !.cur = @ + servo.dir, !.pwm = srv.cur + servo.dir]
    /\ UNCHANGED <<main, axes, reset, feedVars, posted, servo, budget>>

\* The end of a turn, reached or broken off; a jump puts its angle out first.
ServoEnds ==
    /\ \/ servo.at = "jump"
       \/ servo.at = "turning" /\ (~Short \/ srv.stop)
    /\ servo' = [servo EXCEPT !.at = "idle"]
    /\ srv' = [srv EXCEPT !.cur = servo.angle,
                          !.pwm = IF servo.gradual THEN @ ELSE servo.angle,
                          !.stop = @ /\ ~(servo.gradual /\ Short),
                          !.moving = posted # <<>>]
    /\ UNCHANGED <<main, axes, reset, feedVars, posted, budget>>

ServoTask == ServoReceives \/ ServoTurns \/ ServoEnds

(***************************************************************************)
(* The axes come to rest; a client resets the machine: mc_reset() stops    *)
(* the axes, and no other motor.                                           *)
(***************************************************************************)
AxesRest ==
    /\ axes /\ axes' = FALSE
    /\ UNCHANGED <<main, reset, feedVars, servoVars, budget>>

McReset ==
    /\ ~reset /\ budget.resets > 0
    /\ budget' = [budget EXCEPT !.resets = @ - 1]
    /\ reset' = TRUE /\ axes' = FALSE
    /\ UNCHANGED <<main, feedVars, servoVars>>

Next == Main \/ Move \/ FeedTimeout \/ PaperTask \/ ServoTask \/ AxesRest \/ McReset

Spec == Init /\ [][Next]_vars

\* The tasks are scheduled; no wait is helped by a timeout, a reset or new lines.
FairSpec == /\ Spec
            /\ WF_vars(FeedReturns) /\ WF_vars(ServoReturns)
            /\ WF_vars(PaperTask) /\ WF_vars(ServoTask)

-----------------------------------------------------------------------------
(***************************************************************************)
(* Properties.                                                             *)
(***************************************************************************)
MainTypes ==
    /\ main \in [at : {"parse", "sync", "mark", "undone", "send", "wait", "servoSync",
                       "servoMark", "servoSend", "servoWait"},
                 steps : Nat, angle : Angles, gradual : BOOLEAN]
    /\ axes \in BOOLEAN /\ reset \in BOOLEAN
    /\ budget \in [lines : Nat, timeouts : Nat, resets : Nat]

PaperTypes ==
    /\ pf \in [moving : BOOLEAN, stop : BOOLEAN, done : BOOLEAN]
    /\ queue \in Seq(Nat) /\ Len(queue) <= QUEUE_LEN
    /\ paper \in [at : {"idle", "taken", "unstopped", "feeding", "ending", "done"},
                  left : Nat]
    /\ asked \in BOOLEAN

Commands == [angle : Angles, gradual : BOOLEAN]

ServoTypes ==
    /\ srv \in [moving : BOOLEAN, stop : BOOLEAN, cur : Int, pwm : Int]
    /\ posted \in Seq(Commands)
    /\ servo \in [at : {"idle", "turning", "jump"}, angle : Angles, gradual : BOOLEAN,
                  dir : {-1, 1}]

\* The steps of a feed and the length of its queue never go below zero or beyond.
TypeOK == MainTypes /\ PaperTypes /\ ServoTypes

\* A feed is broken off only by a stop or a timeout of its own time: the flag of
\* an earlier one, that pf_stop_flag may still hold, does not shorten the next.
FeedNotCut == [][TaskBreaks => asked]_vars

\* Every wait for the paper and the servo ends without the help of the timeout,
\* in whatever order the flags of two commands that overlap are written.
WaitEnds == At("wait") \/ At("servoWait") ~> At("parse")

\* The servo turns while the axes rest: its wait is never left early.
ServoAlone == servo.at # "idle" => ~axes

(***************************************************************************)
(* What the source says of the motors and they do not do.                  *)
(***************************************************************************)

\* The axes, the paper feed and the servo never run at the same time.
OneMotor == ~(Feeding /\ axes) /\ ~(Feeding /\ servo.at # "idle") /\ ~(servo.at # "idle" /\ axes)

\* M103 turns the servo to its angle: unless it was stopped on the way, the servo
\* then stands where the task believes.
ServoArrives == servo.at = "idle" => srv.pwm = srv.cur

\* A reset ends what was in progress: no feed starts before the system is up again.
NoFeedAfterReset == [][reset /\ At("send") => ~At("wait")']_vars
=============================================================================
