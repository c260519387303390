--------------------------- MODULE Actuators_proofs ---------------------------
(***************************************************************************)
(* Proofs about Actuators, for every queue length, every set of feeds and  *)
(* angles and any number of lines, timeouts and resets.                    *)
(***************************************************************************)
EXTENDS Actuators, SequenceTheorems, TLAPS

\* From pf_stop_flag = false to the end of the feed, the flag can only have been
\* set by a stop of this feed.
StopIsOwn == paper.at \in {"unstopped", "feeding"} /\ pf.stop => asked

\* Where the axes rest, and what srv_moving covers: from the mark of the main task
\* to the end of the command.
AxesHeld ==
  /\ reset => ~axes
  /\ main.at \in {"servoMark", "servoSend", "servoWait"} => ~axes
MovingCovers ==
  /\ main.at = "servoSend" => srv.moving
  /\ servo.at # "idle" \/ posted # <<>> => main.at = "servoWait" /\ srv.moving

ServoInv == AxesHeld /\ MovingCovers

-----------------------------------------------------------------------------
\* The bounds of the model and the data of a command have their types.
LEMMA ConstantTypes ==
  /\ QUEUE_LEN \in Nat \ {0}
  /\ \A n \in Feeds : n \in Nat
  /\ \A a \in Angles : a \in Nat /\ a \in Int
  /\ RESET_ANGLE \in Angles
  /\ MaxLines \in Nat /\ MaxTimeouts \in Nat /\ MaxResets \in Nat
BY ActuatorsAssumption DEF ActuatorsAssumption

\* The initial state has its types.
LEMMA InitType == Init => TypeOK
<1> SUFFICES ASSUME Init PROVE TypeOK
  OBVIOUS
<1>1. MainTypes
  BY ConstantTypes DEF Init, MainTypes
<1>2. PaperTypes
  <2>1. pf \in [moving : BOOLEAN, stop : BOOLEAN, done : BOOLEAN] /\ asked \in BOOLEAN
    BY DEF Init
  <2>2. queue \in Seq(Nat) /\ Len(queue) <= QUEUE_LEN
    BY ConstantTypes DEF Init
  <2>3. paper \in [at : {"idle", "taken", "unstopped", "feeding", "ending", "done"},
                   left : Nat]
    BY DEF Init
  <2> QED BY <2>1, <2>2, <2>3 DEF PaperTypes
<1>3. ServoTypes
  BY ConstantTypes DEF Init, ServoTypes
<1> QED BY <1>1, <1>2, <1>3 DEF TypeOK

\* Every step keeps the types of the main task, of the axes and of the bounds.
LEMMA MainTypesStep == MainTypes /\ [Next]_vars => MainTypes'
<1> SUFFICES ASSUME MainTypes, [Next]_vars PROVE MainTypes'
  OBVIOUS
<1> USE DEF At, Goto, Line
<1>1. CASE Move
  BY <1>1 DEF MainTypes, Move
<1>2. ASSUME NEW n \in Feeds, FeedLine(n) PROVE MainTypes'
  <2>1. main' \in [at : {"parse", "sync", "mark", "undone", "send", "wait", "servoSync",
                              "servoMark", "servoSend", "servoWait"},
                    steps : Nat, angle : Angles, gradual : BOOLEAN]
    BY <1>2, ConstantTypes DEF MainTypes, FeedLine
  <2>2. budget' \in [lines : Nat, timeouts : Nat, resets : Nat]
    BY <1>2 DEF MainTypes, FeedLine
  <2>3. axes' \in BOOLEAN /\ reset' \in BOOLEAN
    BY <1>2 DEF MainTypes, FeedLine
  <2> QED BY <2>1, <2>2, <2>3 DEF MainTypes
<1>3. ASSUME NEW a \in Angles, NEW g \in BOOLEAN, TurnLine(a, g) PROVE MainTypes'
  <2>1. main' \in [at : {"parse", "sync", "mark", "undone", "send", "wait", "servoSync",
                              "servoMark", "servoSend", "servoWait"},
                    steps : Nat, angle : Angles, gradual : BOOLEAN]
    BY <1>3 DEF MainTypes, TurnLine
  <2>2. budget' \in [lines : Nat, timeouts : Nat, resets : Nat]
    BY <1>3 DEF MainTypes, TurnLine
  <2>3. axes' \in BOOLEAN /\ reset' \in BOOLEAN
    BY <1>3 DEF MainTypes, TurnLine
  <2> QED BY <2>1, <2>2, <2>3 DEF MainTypes
<1>4. CASE Synchronized("sync", "mark") \/ Synchronized("servoSync", "servoMark")
  BY <1>4 DEF MainTypes, Synchronized
<1>5. CASE FeedMark \/ FeedUndone \/ FeedSend
  BY <1>5 DEF MainTypes, FeedMark, FeedUndone, FeedSend
<1>6. CASE FeedRejected \/ FeedReturns
  BY <1>6 DEF MainTypes, FeedRejected, FeedReturns
<1>7. CASE FeedTimeout
  BY <1>7 DEF MainTypes, FeedTimeout
<1>8. CASE FeedStop \/ ServoStop
  BY <1>8 DEF MainTypes, FeedStop, ServoStop
<1>9. CASE ServoMark \/ ServoSend \/ ServoReturns
  BY <1>9 DEF MainTypes, ServoMark, ServoSend, ServoReturns
<1>10. CASE Reinit \/ AxesRest \/ McReset
  <2>1. CASE Reinit
    BY <2>1 DEF MainTypes, Reinit
  <2>2. CASE AxesRest
    BY <2>2 DEF MainTypes, AxesRest
  <2>3. CASE McReset
    <3>1. budget' \in [lines : Nat, timeouts : Nat, resets : Nat]
      BY <2>3 DEF MainTypes, McReset
    <3> QED BY <2>3, <3>1 DEF MainTypes, McReset
  <2> QED BY <1>10, <2>1, <2>2, <2>3
<1>11. ASSUME UNCHANGED <<main, axes, reset, budget>> PROVE MainTypes'
  BY <1>11 DEF MainTypes
<1>12. CASE PaperTask
  BY <1>11, <1>12 DEF PaperTask, TaskReceives, TaskUnstops, TaskUndone, TaskSteps, TaskBreaks,
                      TaskDone, TaskRests
<1>13. CASE ServoTask
  BY <1>11, <1>13 DEF ServoTask, ServoReceives, ServoTurns, ServoEnds
<1>14. CASE UNCHANGED vars
  BY <1>11, <1>14 DEF vars
<1> QED BY <1>1, <1>2, <1>3, <1>4, <1>5, <1>6, <1>7, <1>8, <1>9, <1>10, <1>12, <1>13, <1>14
        DEF Next, Main

\* Every step keeps the types of the feed: the steps left do not go below zero, nor
\* the queue over its length.
LEMMA PaperTypesStep == MainTypes /\ PaperTypes /\ [Next]_vars => PaperTypes'
<1> SUFFICES ASSUME MainTypes, PaperTypes, [Next]_vars PROVE PaperTypes'
  OBVIOUS
<1> USE DEF TaskAt, TaskGoto
<1>1. CASE FeedMark \/ FeedUndone \/ FeedRejected \/ FeedTimeout
  BY <1>1 DEF PaperTypes, FeedMark, FeedUndone, FeedRejected, FeedTimeout
<1>2. CASE FeedSend
  <2>1. main.steps \in Nat
    BY DEF MainTypes
  <2>2. queue' \in Seq(Nat) /\ Len(queue') <= QUEUE_LEN
    BY <1>2, <2>1, ConstantTypes DEF PaperTypes, FeedSend
  <2> QED BY <1>2, <2>2 DEF PaperTypes, FeedSend
<1>3. CASE FeedStop
  <2>1. queue' \in Seq(Nat) /\ Len(queue') <= QUEUE_LEN
    BY <1>3, ConstantTypes DEF FeedStop
  <2> QED BY <1>3, <2>1 DEF PaperTypes, FeedStop
<1>4. CASE TaskReceives
  <2>1. Head(queue) \in Nat /\ Tail(queue) \in Seq(Nat) /\ Len(Tail(queue)) <= QUEUE_LEN
    BY <1>4, ConstantTypes DEF PaperTypes, TaskReceives
  <2> QED BY <1>4, <2>1 DEF PaperTypes, TaskReceives
<1>5. CASE TaskUnstops \/ TaskUndone
  BY <1>5 DEF PaperTypes, TaskUnstops, TaskUndone
<1>6. CASE TaskSteps
  BY <1>6 DEF PaperTypes, TaskSteps, Feeding
<1>7. CASE TaskBreaks \/ TaskDone \/ TaskRests
  <2>1. CASE TaskBreaks
    BY <2>1 DEF PaperTypes, TaskBreaks
  <2>2. CASE TaskDone
    BY <2>2 DEF PaperTypes, TaskDone
  <2>3. CASE TaskRests
    BY <2>3 DEF PaperTypes, TaskRests
  <2> QED BY <1>7, <2>1, <2>2, <2>3
<1>8. ASSUME UNCHANGED feedVars PROVE PaperTypes'
  BY <1>8 DEF PaperTypes, feedVars
<1>9. CASE \/ Move \/ ServoTask \/ AxesRest \/ McReset
           \/ \E n \in Feeds : FeedLine(n)
           \/ \E a \in Angles, g \in BOOLEAN : TurnLine(a, g)
           \/ Synchronized("sync", "mark") \/ Synchronized("servoSync", "servoMark")
           \/ FeedReturns \/ ServoMark \/ ServoSend \/ ServoReturns \/ ServoStop \/ Reinit
  BY <1>8, <1>9 DEF Move, ServoTask, ServoReceives, ServoTurns, ServoEnds, AxesRest, McReset,
       FeedLine, TurnLine, Synchronized, FeedReturns, ServoMark, ServoSend, ServoReturns,
       ServoStop, Reinit
<1>10. CASE UNCHANGED vars
  BY <1>8, <1>10 DEF vars
<1> QED BY <1>1, <1>2, <1>3, <1>4, <1>5, <1>6, <1>7, <1>9, <1>10 DEF Next, Main, PaperTask

\* Every step keeps the types of the servo.
LEMMA ServoTypesStep == MainTypes /\ ServoTypes /\ [Next]_vars => ServoTypes'
<1> SUFFICES ASSUME MainTypes, ServoTypes, [Next]_vars PROVE ServoTypes'
  OBVIOUS
<1>1. CASE ServoMark
  BY <1>1 DEF ServoTypes, ServoMark
<1>2. CASE ServoSend
  <2>1. [angle |-> main.angle, gradual |-> main.gradual] \in Commands
    BY DEF MainTypes, Commands
  <2>2. posted' \in Seq(Commands)
    BY <1>2, <2>1 DEF ServoTypes, ServoSend
  <2> QED BY <1>2, <2>2 DEF ServoTypes, ServoSend
<1>3. CASE ServoStop
  <2>1. posted' \in Seq(Commands)
    BY <1>3 DEF ServoStop
  <2>2. srv' \in [moving : BOOLEAN, stop : BOOLEAN, cur : Int, pwm : Int]
    BY <1>3 DEF ServoTypes, ServoStop
  <2> QED BY <1>3, <2>1, <2>2 DEF ServoTypes, ServoStop
<1>4. CASE ServoReceives
  <2>1. Head(posted) \in Commands /\ Tail(posted) \in Seq(Commands)
    BY <1>4 DEF ServoTypes, ServoReceives
  <2>2. Head(posted).angle \in Angles /\ Head(posted).gradual \in BOOLEAN
    BY <2>1 DEF Commands
  <2>3. servo' \in [at : {"idle", "turning", "jump"}, angle : Angles, gradual : BOOLEAN,
                    dir : {-1, 1}]
    BY <1>4, <2>2 DEF ServoReceives
  <2>4. srv' \in [moving : BOOLEAN, stop : BOOLEAN, cur : Int, pwm : Int]
    BY <1>4 DEF ServoTypes, ServoReceives
  <2> QED BY <1>4, <2>1, <2>3, <2>4 DEF ServoTypes, ServoReceives
<1>5. CASE ServoTurns
  <2>1. srv.cur + servo.dir \in Int
    BY DEF ServoTypes
  <2>2. srv' \in [moving : BOOLEAN, stop : BOOLEAN, cur : Int, pwm : Int]
    BY <1>5, <2>1 DEF ServoTypes, ServoTurns
  <2> QED BY <1>5, <2>2 DEF ServoTypes, ServoTurns
<1>6. CASE ServoEnds
  <2>1. servo.angle \in Int
    BY ConstantTypes DEF ServoTypes
  <2>2. srv' \in [moving : BOOLEAN, stop : BOOLEAN, cur : Int, pwm : Int]
    BY <1>6, <2>1 DEF ServoTypes, ServoEnds
  <2>3. servo' \in [at : {"idle", "turning", "jump"}, angle : Angles, gradual : BOOLEAN,
                    dir : {-1, 1}]
    BY <1>6 DEF ServoTypes, ServoEnds
  <2> QED BY <1>6, <2>2, <2>3 DEF ServoTypes, ServoEnds
<1>7. ASSUME UNCHANGED servoVars PROVE ServoTypes'
  BY <1>7 DEF ServoTypes, servoVars
<1>8. CASE \/ Move \/ AxesRest \/ McReset \/ Reinit \/ ServoReturns
           \/ \E n \in Feeds : FeedLine(n)
           \/ \E a \in Angles, g \in BOOLEAN : TurnLine(a, g)
           \/ Synchronized("sync", "mark") \/ Synchronized("servoSync", "servoMark")
  BY <1>7, <1>8 DEF Move, AxesRest, McReset, Reinit, ServoReturns, FeedLine, TurnLine,
       Synchronized
<1>9. CASE \/ FeedMark \/ FeedUndone \/ FeedSend \/ FeedRejected \/ FeedReturns
           \/ FeedTimeout \/ FeedStop \/ PaperTask
  BY <1>7, <1>9 DEF FeedMark, FeedUndone, FeedSend, FeedRejected, FeedReturns, FeedTimeout,
       FeedStop, PaperTask, TaskReceives, TaskUnstops, TaskUndone, TaskSteps, TaskBreaks,
       TaskDone, TaskRests, servoVars
<1>10. CASE UNCHANGED vars
  BY <1>7, <1>10 DEF vars
<1> QED BY <1>1, <1>2, <1>3, <1>4, <1>5, <1>6, <1>8, <1>9, <1>10 DEF Next, Main, ServoTask

\* Type correctness: flags, queues, steps left and angles keep their types, the
\* queue of feeds its length, for any overlap of the three tasks.
THEOREM TypeCorrect == Spec => []TypeOK
<1>1. TypeOK /\ [Next]_vars => TypeOK'
  BY MainTypesStep, PaperTypesStep, ServoTypesStep DEF TypeOK
<1> QED BY InitType, <1>1, PTL DEF Spec

-----------------------------------------------------------------------------
\* A stop that a feed sees was asked for while it was under way, after any step:
\* whoever sets the flag also marks the stop, and a feed begins by clearing it.
LEMMA StopIsOwnStep == TypeOK /\ StopIsOwn /\ [Next]_vars => StopIsOwn'
<1> SUFFICES ASSUME TypeOK, StopIsOwn, [Next]_vars PROVE StopIsOwn'
  OBVIOUS
<1> USE DEF TypeOK, PaperTypes, StopIsOwn, feedVars, servoVars
<1>1. CASE FeedStop \/ FeedTimeout
  BY <1>1 DEF FeedStop, FeedTimeout
<1>2. CASE TaskReceives \/ TaskUnstops
  BY <1>2 DEF TaskReceives, TaskUnstops, TaskAt, TaskGoto
<1>3. CASE TaskUndone \/ TaskSteps \/ TaskBreaks \/ TaskDone \/ TaskRests
  BY <1>3 DEF TaskUndone, TaskSteps, TaskBreaks, TaskDone, TaskRests, TaskAt, TaskGoto, Feeding
<1>4. CASE FeedMark \/ FeedUndone \/ FeedRejected
  BY <1>4 DEF FeedMark, FeedUndone, FeedRejected
<1>5. ASSUME UNCHANGED <<pf, paper, asked>> PROVE StopIsOwn'
  BY <1>5
<1>6. CASE Move \/ ServoTask \/ AxesRest \/ McReset
  BY <1>5, <1>6 DEF Move, ServoTask, ServoReceives, ServoTurns, ServoEnds, AxesRest, McReset
<1>7. CASE \/ \E n \in Feeds : FeedLine(n)
           \/ \E a \in Angles, g \in BOOLEAN : TurnLine(a, g)
           \/ Synchronized("sync", "mark") \/ Synchronized("servoSync", "servoMark")
  BY <1>5, <1>7 DEF FeedLine, TurnLine, Synchronized
<1>8. CASE FeedSend \/ FeedReturns \/ ServoMark \/ ServoSend \/ ServoReturns
           \/ ServoStop \/ Reinit
  BY <1>5, <1>8 DEF FeedSend, FeedReturns, ServoMark, ServoSend, ServoReturns, ServoStop, Reinit
<1>9. CASE UNCHANGED vars
  BY <1>5, <1>9 DEF vars
<1> QED BY <1>1, <1>2, <1>3, <1>4, <1>6, <1>7, <1>8, <1>9 DEF Next, Main, PaperTask

\* No feed is cut short by the stop or the timeout of an earlier one, however the
\* flags of commands that overlap are written.
THEOREM FeedWhole == Spec => FeedNotCut
<1>1. Init => StopIsOwn
  BY DEF Init, StopIsOwn
<1>2. TypeOK /\ StopIsOwn /\ [Next]_vars => [TaskBreaks => asked]_vars
  <2> SUFFICES ASSUME StopIsOwn, TaskBreaks PROVE asked
    OBVIOUS
  <2> QED BY DEF StopIsOwn, TaskBreaks, TaskAt, Feeding
<1> QED BY <1>1, <1>2, StopIsOwnStep, TypeCorrect, PTL DEF Spec, FeedNotCut

-----------------------------------------------------------------------------
\* From the synchronisation to the end of a servo command the axes are not started,
\* by the main task nor by anybody else.
LEMMA AxesHeldStep == TypeOK /\ AxesHeld /\ [Next]_vars => AxesHeld'
<1> SUFFICES ASSUME TypeOK, AxesHeld, [Next]_vars PROVE AxesHeld'
  OBVIOUS
<1> USE DEF TypeOK, MainTypes, AxesHeld, At, Goto, feedVars, servoVars
<1>1. CASE Move
  BY <1>1 DEF Move, Line
<1>2. CASE \/ \E n \in Feeds : FeedLine(n)
           \/ \E a \in Angles, g \in BOOLEAN : TurnLine(a, g)
  <2>1. main'.at \in {"sync", "servoSync"} /\ UNCHANGED <<axes, reset>>
    BY <1>2 DEF FeedLine, TurnLine
  <2> QED BY <2>1
<1>3. CASE Synchronized("sync", "mark") \/ Synchronized("servoSync", "servoMark")
  BY <1>3 DEF Synchronized
<1>4. CASE FeedMark \/ FeedUndone \/ FeedSend \/ FeedRejected \/ FeedReturns \/ FeedTimeout
  BY <1>4 DEF FeedMark, FeedUndone, FeedSend, FeedRejected, FeedReturns, FeedTimeout
<1>5. CASE ServoMark \/ ServoSend \/ ServoReturns
  BY <1>5 DEF ServoMark, ServoSend, ServoReturns
<1>6. CASE Reinit \/ AxesRest \/ McReset
  BY <1>6 DEF Reinit, AxesRest, McReset
<1>7. ASSUME UNCHANGED <<main, axes, reset>> PROVE AxesHeld'
  BY <1>7
<1>8. CASE FeedStop \/ ServoStop
  BY <1>7, <1>8 DEF FeedStop, ServoStop
<1>9. CASE PaperTask
  BY <1>7, <1>9 DEF PaperTask, TaskReceives, TaskUnstops, TaskUndone, TaskSteps, TaskBreaks,
                    TaskDone, TaskRests
<1>10. CASE ServoTask
  BY <1>7, <1>10 DEF ServoTask, ServoReceives, ServoTurns, ServoEnds
<1>11. CASE UNCHANGED vars
  BY <1>7, <1>11 DEF vars
<1> QED BY <1>1, <1>2, <1>3, <1>4, <1>5, <1>6, <1>8, <1>9, <1>10, <1>11 DEF Next, Main

\* As long as a command is posted or being executed, the main task waits for it and
\* srv_moving keeps it there.
LEMMA MovingCoversStep == TypeOK /\ MovingCovers /\ [Next]_vars => MovingCovers'
<1> SUFFICES ASSUME TypeOK, MovingCovers, [Next]_vars PROVE MovingCovers'
  OBVIOUS
<1> USE DEF TypeOK, MainTypes, ServoTypes, MovingCovers, At, Goto, feedVars, servoVars
<1>1. CASE \/ Move \/ \E n \in Feeds : FeedLine(n)
           \/ \E a \in Angles, g \in BOOLEAN : TurnLine(a, g)
  BY <1>1 DEF Move, FeedLine, TurnLine, Line
<1>2. CASE Synchronized("sync", "mark") \/ Synchronized("servoSync", "servoMark")
  BY <1>2 DEF Synchronized
<1>3. CASE FeedMark \/ FeedUndone \/ FeedSend \/ FeedRejected \/ FeedReturns \/ FeedTimeout
  BY <1>3 DEF FeedMark, FeedUndone, FeedSend, FeedRejected, FeedReturns, FeedTimeout
<1>4. CASE ServoMark \/ ServoReturns
  BY <1>4 DEF ServoMark, ServoReturns
<1>5. CASE ServoSend
  BY <1>5 DEF ServoSend
<1>6. CASE ServoStop
  BY <1>6 DEF ServoStop, Line
<1>7. CASE ServoReceives
  BY <1>7 DEF ServoReceives
<1>8. CASE ServoTurns
  BY <1>8 DEF ServoTurns
<1>9. CASE ServoEnds
  BY <1>9 DEF ServoEnds
<1>10. ASSUME UNCHANGED <<main, srv, posted, servo>> PROVE MovingCovers'
  BY <1>10
<1>11. CASE FeedStop \/ Reinit \/ AxesRest \/ McReset
  BY <1>10, <1>11 DEF FeedStop, Reinit, AxesRest, McReset
<1>12. CASE PaperTask
  BY <1>10, <1>12 DEF PaperTask, TaskReceives, TaskUnstops, TaskUndone, TaskSteps, TaskBreaks,
                      TaskDone, TaskRests
<1>13. CASE UNCHANGED vars
  BY <1>10, <1>13 DEF vars
<1> QED BY <1>1, <1>2, <1>3, <1>4, <1>5, <1>6, <1>7, <1>8, <1>9, <1>11, <1>12, <1>13
        DEF Next, Main, ServoTask

\* The servo turns only while the axes rest, for any lines, resets and stops.
THEOREM ServoTurnsAlone == Spec => []ServoAlone
<1>1. Init => ServoInv
  BY DEF Init, ServoInv, AxesHeld, MovingCovers
<1>2. TypeOK /\ ServoInv /\ [Next]_vars => ServoInv'
  BY AxesHeldStep, MovingCoversStep DEF ServoInv
<1>3. ServoInv => ServoAlone
  BY DEF ServoInv, AxesHeld, MovingCovers, ServoAlone
<1> QED BY <1>1, <1>2, <1>3, TypeCorrect, PTL DEF Spec
===============================================================================
