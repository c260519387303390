--------------------------- MODULE VFDSpindle_proofs ---------------------------
(***************************************************************************)
(* Proofs about VFDSpindle, for every queue size, number of retries, set   *)
(* of speeds and number of lines, losses and inputs.                       *)
(***************************************************************************)
EXTENDS VFDSpindle, TLAPS

\* Where the main task is in set_state, with what it has in its variables there.
Places ==
  {Ready}
  \cup [step : {"rpm", "begin", "end"}, mode : Modes, rpm : {0} \cup Speeds, from : {"line", "hold"},
        waits : BOOLEAN, changed : BOOLEAN]
  \cup [step : {"wait", "dwell"}, mode : Modes, rpm : {0} \cup Speeds, from : {"line", "hold"},
        want : Rates, last : Rates \cup {Unknown}, unchanged : Nat]
  \cup [step : {"end"}, mode : Modes, rpm : {0} \cup Speeds, from : {"line", "hold"}]

\* What the main task and a reset put on the queue.
Sendable == {Command("mode", m, c) : m \in Modes, c \in BOOLEAN}
            \cup {Command("speed", r, r = 0) : r \in Rates}

\* The type invariant, in the parts the steps keep.
SpindleTypes == /\ current \in Modes /\ rpm \in Rates /\ sync \in Rates \cup {Unknown}
                /\ queue \in Seq(Sendable) /\ Len(queue) <= QUEUE_SIZE
LinkTypes    == /\ request \in Requests /\ tries \in 0 .. MAX_RETRIES - 1 /\ toInit \in 0 .. InitSteps
                /\ request.what = "init" => toInit > 0
                /\ unresponsive \in BOOLEAN
                /\ drive \in [mode : Modes, speed : Rates, turns : Modes \X Rates]
MainTypes    == /\ main \in Places
                /\ modal \in [mode : Modes, speed : {0} \cup Speeds]
                /\ ovr \in {1, 2} /\ update \in BOOLEAN
RestTypes    == /\ machine \in {"Idle", "Cycle", "Hold", "Alarm"}
                /\ block \in BOOLEAN /\ asked \in BOOLEAN
                /\ reset \in BOOLEAN /\ abort \in BOOLEAN /\ alarm \in BOOLEAN /\ stopping \in BOOLEAN

Types == SpindleTypes /\ LinkTypes /\ MainTypes /\ RestTypes

\* They imply the type invariant that the runs check.
LEMMA TypesAreTypeOK == Types => TypeOK
<1> SUFFICES ASSUME Types PROVE TypeOK
  OBVIOUS
<1>1. {block, asked, reset, abort, alarm, stopping} \subseteq BOOLEAN
  BY Zenon DEF Types, RestTypes
<1>2. \A i \in DOMAIN queue : queue[i] \in Requests
  BY DEF Types, SpindleTypes, Requests, Sendable
<1>3. main.step \in {"ready", "rpm", "begin", "wait", "dwell", "end"}
  BY DEF Types, MainTypes, Places, Ready
<1> QED BY <1>1, <1>2, <1>3 DEF Types, SpindleTypes, LinkTypes, MainTypes, RestTypes, TypeOK

\* The sizes are numbers.
LEMMA ConstantTypes ==
  /\ Speeds \subseteq Nat \ {0}
  /\ QUEUE_SIZE \in Nat \ {0} /\ MAX_RETRIES \in Nat \ {0} /\ Limit \in Nat \ {0}
  /\ InitSteps \in Nat
BY SpindleAssumption DEF SpindleAssumption

\* The speeds of lines, with an override or without, are speeds of the drive.
LEMMA RateTypes == \A r \in {0} \cup Speeds, o \in {1, 2} : r * o \in Rates
<1> SUFFICES ASSUME NEW r \in {0} \cup Speeds, NEW o \in {1, 2} PROVE r * o \in Rates
  OBVIOUS
<1>1. CASE r = 0
  <2>1. r * o = 0
    BY <1>1
  <2> QED BY <2>1 DEF Rates
<1>2. CASE r \in Speeds
  BY <1>2 DEF Rates
<1> QED BY <1>1, <1>2

-----------------------------------------------------------------------------
\* What the queue holds after a command was sent.

\* The off command of a reset, and the commands that turn the drive on.
Off == Command("mode", "off", TRUE)
TurnsOn(c) == c.what = "mode" /\ c.to # "off"

\* A full queue loses the command; otherwise it comes after what is queued already.
LEMMA SentDoes ==
  ASSUME NEW q \in Seq(Sendable), Len(q) <= QUEUE_SIZE, NEW c \in Sendable
  PROVE  /\ Sent(q, c) \in Seq(Sendable) /\ Len(Sent(q, c)) <= QUEUE_SIZE
         /\ \A i \in DOMAIN q : i \in DOMAIN Sent(q, c) /\ Sent(q, c)[i] = q[i]
         /\ \A i \in DOMAIN Sent(q, c) : Sent(q, c)[i] = c \/ (i \in DOMAIN q /\ Sent(q, c)[i] = q[i])
         /\ q = <<>> => 1 \in DOMAIN Sent(q, c) /\ Sent(q, c)[1] = c
<1>1. CASE Len(q) < QUEUE_SIZE
  <2>1. Sent(q, c) = Append(q, c)
    BY <1>1 DEF Sent
  <2> QED BY <1>1, <2>1, ConstantTypes
<1>2. CASE ~(Len(q) < QUEUE_SIZE)
  <2>1. Sent(q, c) = q /\ q # <<>>
    BY <1>2, ConstantTypes DEF Sent
  <2> QED BY <2>1
<1> QED BY <1>1, <1>2

\* The commands that are sent.
LEMMA CommandTypes ==
  /\ \A m \in Modes, c \in BOOLEAN : Command("mode", m, c) \in Sendable
  /\ \A r \in Rates : Command("speed", r, r = 0) \in Sendable
  /\ \A c \in Sendable : c \in Requests /\ c.what # "init"
  /\ Nothing \in Requests /\ Poll \in Requests /\ [Poll EXCEPT !.what = "init"] \in Requests
<1>1. \A c \in Sendable : c \in Requests /\ c.what # "init"
  BY DEF Requests, Sendable, Command
<1> QED BY <1>1 DEF Requests, Sendable

\* set_mode sends the mode; off empties the queue before.
LEMMA SetModeDoes ==
  ASSUME Types, NEW m \in Modes, NEW c \in BOOLEAN, SetMode(m, c)
  PROVE  /\ current' = m /\ queue' \in Seq(Sendable) /\ Len(queue') <= QUEUE_SIZE
         /\ m = "off" => queue' = Sent(<<>>, Command("mode", "off", c))
<1>1. Command("mode", m, c) \in Sendable
  BY CommandTypes
<1>2. queue \in Seq(Sendable) /\ Len(queue) <= QUEUE_SIZE
  BY DEF Types, SpindleTypes
<1>3. <<>> \in Seq(Sendable) /\ Len(<<>>) <= QUEUE_SIZE
  BY ConstantTypes
<1>4. CASE m = "off"
  <2>1. queue' = Sent(<<>>, Command("mode", m, c)) /\ current' = m
    BY <1>4 DEF SetMode
  <2> QED BY <1>1, <1>3, <1>4, <2>1, SentDoes
<1>5. CASE m # "off"
  <2>1. queue' = Sent(queue, Command("mode", m, c)) /\ current' = m
    BY <1>5 DEF SetMode
  <2> QED BY <1>1, <1>2, <1>5, <2>1, SentDoes
<1> QED BY <1>4, <1>5

\* set_rpm sends at most a speed.
LEMMA SetRpmDoes ==
  ASSUME Types, NEW r \in {0} \cup Speeds, ovr' \in {1, 2}, SetRpm(r)
  PROVE  /\ rpm' \in Rates /\ sync' \in Rates \cup {Unknown}
         /\ queue' \in Seq(Sendable) /\ Len(queue') <= QUEUE_SIZE
         /\ \A i \in DOMAIN queue : i \in DOMAIN queue' /\ queue'[i] = queue[i]
         /\ \A i \in DOMAIN queue' : ~TurnsOn(queue'[i]) \/ (i \in DOMAIN queue /\ queue'[i] = queue[i])
<1> DEFINE s == r * ovr'
<1>1. s \in Rates
  BY RateTypes
<1>2. Command("speed", s, s = 0) \in Sendable /\ ~TurnsOn(Command("speed", s, s = 0))
  BY <1>1, CommandTypes DEF Command, TurnsOn
<1>3. queue \in Seq(Sendable) /\ Len(queue) <= QUEUE_SIZE /\ rpm \in Rates /\ sync \in Rates \cup {Unknown}
  BY DEF Types, SpindleTypes
<1>4. \/ UNCHANGED <<rpm, sync, queue>>
      \/ /\ rpm' = s /\ sync' = Unknown
         /\ queue' = Sent(queue, Command("speed", s, s = 0))
  BY DEF SetRpm
<1> HIDE DEF s
<1>5. CASE UNCHANGED <<rpm, sync, queue>>
  BY <1>3, <1>5
<1>6. CASE /\ rpm' = s /\ sync' = Unknown
           /\ queue' = Sent(queue, Command("speed", s, s = 0))
  <2> DEFINE c == Command("speed", s, s = 0)
  <2>1. c \in Sendable /\ ~TurnsOn(c) /\ queue' = Sent(queue, c)
    BY <1>2, <1>6
  <2>2. rpm' \in Rates /\ sync' \in Rates \cup {Unknown}
    BY <1>1, <1>6
  <2> HIDE DEF c
  <2> DEFINE q == Sent(queue, c)
  <2>3. /\ q \in Seq(Sendable) /\ Len(q) <= QUEUE_SIZE
        /\ \A i \in DOMAIN queue : i \in DOMAIN q /\ q[i] = queue[i]
        /\ \A i \in DOMAIN q : q[i] = c \/ (i \in DOMAIN queue /\ q[i] = queue[i])
    BY <1>3, <2>1, SentDoes
  <2>4. queue' = q
    BY <2>1
  <2> HIDE DEF q
  <2> QED BY <2>1, <2>2, <2>3, <2>4
<1> QED BY <1>4, <1>5, <1>6

\* mc_reset asks for a reset, and stops the spindle at most.
LEMMA McResetDoes ==
  ASSUME Types, McReset
  PROVE  /\ reset' = TRUE /\ current' \in Modes /\ stopping' \in BOOLEAN
         /\ queue' \in Seq(Sendable) /\ Len(queue') <= QUEUE_SIZE
<1>1. CASE reset
  BY <1>1 DEF McReset, Types, SpindleTypes, RestTypes
<1>2. CASE ~reset
  <2>1. SetMode("off", TRUE) /\ reset' = TRUE /\ stopping' = TRUE
    BY <1>2 DEF McReset, Stop
  <2> QED BY <2>1, SetModeDoes DEF Modes
<1> QED BY <1>1, <1>2

\* set_state up to set_mode: a mode that is new is sent, the main task goes on to set_rpm.
LEMMA SetStateDoes ==
  ASSUME Types, NEW m \in Modes, NEW r \in {0} \cup Speeds, NEW f \in {"line", "hold"},
         SetState(m, r, f)
  PROVE  /\ current' \in Modes /\ queue' \in Seq(Sendable) /\ Len(queue') <= QUEUE_SIZE
         /\ main' \in Places /\ main'.step = "rpm" /\ main'.mode = m
         /\ stopping' = IF m = "off" THEN stopping ELSE FALSE
         /\ m = "off" /\ current = "off" =>
              /\ current' = current /\ queue' = queue
              /\ ~main'.changed /\ ~main'.waits
<1>1. /\ main' = [step |-> "rpm", mode |-> m, rpm |-> r, from |-> f, waits |-> Waits(m),
                  changed |-> m # current]
      /\ Waits(m) \in BOOLEAN
  BY DEF SetState, Waits
<1>2. /\ main' \in Places /\ main'.step = "rpm" /\ main'.mode = m
      /\ m = "off" /\ current = "off" => ~main'.changed /\ ~main'.waits
  BY <1>1 DEF Places, Waits
<1>3. stopping' = IF m = "off" THEN stopping ELSE FALSE
  BY DEF SetState
<1>4. CASE m # current
  <2>1. SetMode(m, m # "off")
    BY <1>4 DEF SetState
  <2> QED BY <1>2, <1>3, <1>4, <2>1, SetModeDoes
<1>5. CASE m = current
  <2>1. current' = current /\ queue' = queue
    BY <1>5 DEF SetState
  <2> QED BY <1>2, <1>3, <2>1 DEF Types, SpindleTypes
<1> QED BY <1>4, <1>5

-----------------------------------------------------------------------------
\* Every step keeps the types.
LEMMA TypesStep ==
  ASSUME Types, [Next]_vars
  PROVE  Types'
<1> USE DEF Types, SpindleTypes, LinkTypes, MainTypes, RestTypes
<1>a. UNCHANGED <<link, drive>> => LinkTypes'
  BY DEF link
<1>b. UNCHANGED <<main, words>> => MainTypes'
  BY DEF words
<1>c. UNCHANGED vfd => SpindleTypes'
  BY DEF vfd
<1>1. ASSUME Take PROVE Types'
  <2>1. /\ request' \in Requests /\ queue' \in Seq(Sendable) /\ Len(queue') <= QUEUE_SIZE
        /\ request'.what = "init" => toInit > 0
    <3>1. CASE toInit > 0 /\ request' = [Poll EXCEPT !.what = "init"] /\ queue' = queue
      BY <3>1, CommandTypes
    <3>2. CASE queue # <<>> /\ request' = Head(queue) /\ queue' = Tail(queue)
      <4>1. Head(queue) \in Sendable /\ Tail(queue) \in Seq(Sendable) /\ Len(Tail(queue)) <= QUEUE_SIZE
        BY <3>2, ConstantTypes
      <4> QED BY <3>2, <4>1, CommandTypes
    <3>3. CASE request' = Poll /\ queue' = queue
      BY <3>3, CommandTypes DEF Poll
    <3> QED BY <1>1, <3>1, <3>2, <3>3 DEF Take
  <2> QED BY <1>1, <2>1 DEF Take, words, motion, flags
<1>2. Obeyed \in [mode : Modes, speed : Rates, turns : Modes \X Rates]
  BY DEF Obeyed, Requests, Command, Nothing, Poll
<1>3. drive.turns[2] \in Rates
  OBVIOUS
<1>4. ASSUME Answered PROVE Types'
  <2>1. toInit' \in 0 .. InitSteps
    BY <1>4, ConstantTypes DEF Answered
  <2>2. sync' \in Rates \cup {Unknown}
    BY <1>3, <1>4 DEF Answered
  <2>3. tries' \in 0 .. MAX_RETRIES - 1
    BY <1>4, ConstantTypes DEF Answered
  <2>4. /\ request' = Nothing /\ unresponsive' = FALSE /\ drive' = Obeyed
        /\ UNCHANGED <<current, rpm, queue, main, words, motion, flags, stopping>>
    BY <1>4 DEF Answered
  <2>5. request' \in Requests /\ request'.what # "init"
    BY <2>4, CommandTypes DEF Nothing
  <2>6. SpindleTypes' /\ LinkTypes'
    BY <1>2, <2>1, <2>2, <2>3, <2>4, <2>5
  <2>7. MainTypes' /\ RestTypes'
    BY <1>b, <2>4 DEF motion, flags
  <2> QED BY <2>6, <2>7
<1>5. ASSUME Unanswered PROVE Types'
  <2>1. /\ drive' \in [mode : Modes, speed : Rates, turns : Modes \X Rates]
        /\ UNCHANGED <<rpm, sync, main, words, motion>>
    BY <1>2, <1>5 DEF Unanswered
  <2>2. CASE tries + 1 < MAX_RETRIES
    BY <1>5, <2>1, <2>2, ConstantTypes DEF Unanswered, words, motion, flags
  <2>3. CASE ~(tries + 1 < MAX_RETRIES)
    <3>1. /\ request' = Nothing /\ tries' = 0 /\ unresponsive' = TRUE
          /\ toInit' \in 0 .. InitSteps
      BY <1>5, <2>3, ConstantTypes DEF Unanswered
    <3>4. /\ request' \in Requests /\ request'.what # "init" /\ tries' \in 0 .. MAX_RETRIES - 1
      BY <3>1, CommandTypes, ConstantTypes DEF Nothing
    <3>2. CASE request.critical
      <4>1. McReset /\ alarm' = TRUE /\ abort' = abort
        BY <1>5, <2>3, <3>2 DEF Unanswered
      <4>2. SpindleTypes'
        BY <2>1, <4>1, McResetDoes
      <4>3. RestTypes'
        BY <2>1, <4>1, McResetDoes DEF motion
      <4> QED BY <2>1, <3>1, <3>4, <4>2, <4>3 DEF words
    <3>3. CASE ~request.critical
      <4>1. UNCHANGED <<current, queue, flags, stopping>>
        BY <1>5, <2>3, <3>3 DEF Unanswered
      <4> QED BY <2>1, <3>1, <3>4, <4>1 DEF words, motion, flags
    <3> QED BY <3>2, <3>3
  <2> QED BY <2>2, <2>3
<1>6. ASSUME Turn PROVE Types'
  <2>1. Target \in Modes \X Rates /\ <<"off", 0>> \in Modes \X Rates
    BY DEF Target, Modes, Rates
  <2>2. drive' \in [mode : Modes, speed : Rates, turns : Modes \X Rates]
    BY <1>6, <2>1 DEF Turn
  <2> QED BY <1>6, <2>2 DEF Turn, vfd, link, words, motion, flags
<1>7. ASSUME SetSpeed PROVE Types'
  <2>1. main.rpm \in {0} \cup Speeds /\ main' \in Places
    BY <1>7 DEF SetSpeed, Places, Ready
  <2>2. \/ UNCHANGED <<ovr, rpm, sync, queue>>
        \/ ovr' = ovr /\ SetRpm(main.rpm)
    BY <1>7 DEF SetSpeed
  <2>3. /\ ovr' \in {1, 2} /\ rpm' \in Rates /\ sync' \in Rates \cup {Unknown}
        /\ queue' \in Seq(Sendable) /\ Len(queue') <= QUEUE_SIZE
    <3>1. CASE UNCHANGED <<ovr, rpm, sync, queue>>
      BY <3>1
    <3>2. CASE ovr' = ovr /\ SetRpm(main.rpm)
      <4>1. ovr' \in {1, 2}
        BY <3>2
      <4> QED BY <2>1, <3>2, <4>1, SetRpmDoes
    <3> QED BY <2>2, <3>1, <3>2
  <2> QED BY <1>7, <2>1, <2>3 DEF SetSpeed, link, motion, flags
<1>8. ASSUME BeginWait PROVE Types'
  <2>1. main' \in Places
    BY <1>8 DEF BeginWait, Places, Ready
  <2> QED BY <1>8, <2>1 DEF BeginWait, vfd, link, words, motion, flags
<1>9. main.step \in {"wait", "dwell"} => Ended \in Places
  BY DEF Ended, Places, Ready
<1>10. ASSUME InRange PROVE Types'
  BY <1>9, <1>10 DEF InRange, vfd, link, words, motion, flags
<1>11. ASSUME GiveUp PROVE Types'
  <2>1. McReset
    BY <1>11 DEF GiveUp
  <2>2. /\ reset' = TRUE /\ current' \in Modes /\ stopping' \in BOOLEAN
        /\ queue' \in Seq(Sendable) /\ Len(queue') <= QUEUE_SIZE
    BY <2>1, McResetDoes
  <2>3. /\ main' = Ended /\ main.step = "wait" /\ alarm' = TRUE
        /\ UNCHANGED <<rpm, sync, link, drive, words, motion, abort>>
    BY <1>11 DEF GiveUp
  <2>4. SpindleTypes' /\ LinkTypes'
    BY <1>a, <2>2, <2>3
  <2>5. MainTypes' /\ RestTypes'
    BY <1>9, <2>2, <2>3 DEF words, motion
  <2> QED BY <2>4, <2>5
<1>12. ASSUME StartDwell PROVE Types'
  <2>1. main' \in Places
    BY <1>12 DEF StartDwell, Places, Ready
  <2>2. machine' \in {machine, "Cycle"} /\ update' \in {update, FALSE}
    BY <1>12 DEF StartDwell
  <2>3. machine' \in {"Idle", "Cycle", "Hold", "Alarm"} /\ update' \in BOOLEAN
    BY <2>2
  <2>4. UNCHANGED <<vfd, link, drive, modal, ovr, block, asked, flags, stopping>>
    BY <1>12 DEF StartDwell
  <2>5. SpindleTypes' /\ LinkTypes'
    BY <2>4 DEF vfd, link
  <2>6. MainTypes' /\ RestTypes'
    BY <2>1, <2>3, <2>4 DEF flags
  <2> QED BY <2>5, <2>6
<1>13. ASSUME EndDwell PROVE Types'
  <2> DEFINE u == IF abort THEN Limit ELSE IF sync = main.last THEN main.unchanged + 1 ELSE 0
  <2>0. main.step = "dwell" => main.unchanged \in Nat
    BY DEF Places, Ready
  <2>2. main.step = "dwell" => u \in Nat
    BY <2>0, ConstantTypes
  <2>3. main' = [main EXCEPT !.step = "wait", !.last = sync, !.unchanged = u] /\ main.step = "dwell"
    BY <1>13 DEF EndDwell
  <2> HIDE DEF u
  <2>4. main \in [step : {"wait", "dwell"}, mode : Modes, rpm : {0} \cup Speeds, from : {"line", "hold"},
                 want : Rates, last : Rates \cup {Unknown}, unchanged : Nat]
    BY <2>3 DEF Places, Ready
  <2>1. main' \in Places
    BY <2>2, <2>3, <2>4 DEF Places
  <2> QED BY <1>13, <2>1 DEF EndDwell, vfd, link, words, motion, flags
<1>14. ASSUME Finish PROVE Types'
  <2>1. main.mode \in Modes /\ main.rpm \in {0} \cup Speeds
    BY <1>14 DEF Finish, Places, Ready
  <2>2. /\ current' \in Modes /\ main' \in Places /\ update' \in BOOLEAN
        /\ modal' \in [mode : Modes, speed : {0} \cup Speeds]
    <3>1. CASE main.from = "line"
      BY <1>14, <2>1, <3>1 DEF Finish, Places
    <3>2. CASE main.from # "line"
      BY <1>14, <2>1, <3>2 DEF Finish, Places
    <3> QED BY <3>1, <3>2
  <2>3. UNCHANGED <<rpm, sync, queue, link, drive, ovr, motion, flags, stopping>>
    BY <1>14 DEF Finish
  <2>4. SpindleTypes' /\ LinkTypes'
    BY <1>a, <2>2, <2>3
  <2>5. MainTypes' /\ RestTypes'
    BY <2>2, <2>3 DEF motion, flags
  <2> QED BY <2>4, <2>5
<1>15. ASSUME NEW mode \in Modes, NEW speed \in Speeds, Line(mode, speed) PROVE Types'
  <2>1. SetState(mode, speed, "line")
    BY <1>15 DEF Line
  <2>2. /\ current' \in Modes /\ queue' \in Seq(Sendable) /\ Len(queue') <= QUEUE_SIZE
        /\ main' \in Places /\ stopping' \in BOOLEAN
    BY <2>1, SetStateDoes
  <2>3. UNCHANGED <<rpm, sync, link, drive, words, motion, flags>>
    BY <1>15 DEF Line
  <2>4. SpindleTypes' /\ LinkTypes'
    BY <1>a, <2>2, <2>3
  <2>5. MainTypes' /\ RestTypes'
    BY <2>2, <2>3 DEF words, motion, flags
  <2> QED BY <2>4, <2>5
<1>16. ASSUME Motion PROVE Types'
  <2>1. UNCHANGED <<vfd, link, drive, main, words, flags, stopping>>
    BY <1>16 DEF Motion
  <2>2. RestTypes'
    BY <1>16, <2>1 DEF Motion, flags
  <2> QED BY <1>a, <1>b, <1>c, <2>1, <2>2
<1>17. ASSUME MotionEnds PROVE Types'
  <2>1. UNCHANGED <<vfd, link, drive, main, words, flags, stopping>>
    BY <1>17 DEF MotionEnds
  <2>2. RestTypes'
    BY <1>17, <2>1 DEF MotionEnds, flags
  <2> QED BY <1>a, <1>b, <1>c, <2>1, <2>2
<1>18. ASSUME FeedHold PROVE Types'
  <2>1. UNCHANGED <<vfd, link, drive, main, words, flags, stopping>>
    BY <1>18 DEF FeedHold
  <2>2. RestTypes'
    BY <1>18, <2>1 DEF FeedHold, flags
  <2> QED BY <1>a, <1>b, <1>c, <2>1, <2>2
<1>19. ASSUME CycleStart PROVE Types'
  <2>1. /\ machine' = "Cycle" /\ asked' = TRUE /\ update' = FALSE
        /\ UNCHANGED <<vfd, link, drive, main, modal, ovr, block, flags, stopping>>
    BY <1>19 DEF CycleStart
  <2>2. MainTypes' /\ RestTypes'
    BY <2>1 DEF flags
  <2> QED BY <1>a, <1>c, <2>1, <2>2
<1>20. ASSUME Override PROVE Types'
  <2>1. ovr' \in {1, 2} /\ modal.speed \in {0} \cup Speeds
    BY <1>20 DEF Override
  <2>2. UNCHANGED <<rpm, sync, queue>> \/ SetRpm(modal.speed)
    BY <1>20 DEF Override
  <2>3. /\ rpm' \in Rates /\ sync' \in Rates \cup {Unknown}
        /\ queue' \in Seq(Sendable) /\ Len(queue') <= QUEUE_SIZE
    BY <2>1, <2>2, SetRpmDoes
  <2>4. /\ update' \in BOOLEAN
        /\ UNCHANGED <<current, link, drive, main, modal, motion, flags, stopping>>
    BY <1>20 DEF Override
  <2>5. SpindleTypes' /\ LinkTypes'
    BY <1>a, <2>3, <2>4
  <2>6. MainTypes' /\ RestTypes'
    BY <2>1, <2>4 DEF motion, flags
  <2> QED BY <2>5, <2>6
<1>21. ASSUME Refresh PROVE Types'
  <2>1. SetState(modal.mode, modal.speed, "hold")
    BY <1>21 DEF Refresh
  <2>2. /\ current' \in Modes /\ queue' \in Seq(Sendable) /\ Len(queue') <= QUEUE_SIZE
        /\ main' \in Places /\ stopping' \in BOOLEAN
    BY <2>1, SetStateDoes
  <2>3. UNCHANGED <<rpm, sync, link, drive, words, motion, flags>>
    BY <1>21 DEF Refresh
  <2>4. SpindleTypes' /\ LinkTypes'
    BY <1>a, <2>2, <2>3
  <2>5. MainTypes' /\ RestTypes'
    BY <2>2, <2>3 DEF words, motion, flags
  <2> QED BY <2>4, <2>5
<1>22. ASSUME Reset PROVE Types'
  <2>1. McReset
    BY <1>22 DEF Reset
  <2>2. UNCHANGED <<rpm, sync, link, drive, main, words, motion, abort, alarm>>
    BY <1>22 DEF Reset
  <2>3. SpindleTypes' /\ LinkTypes'
    BY <2>1, <2>2, McResetDoes DEF link
  <2>4. MainTypes' /\ RestTypes'
    BY <2>1, <2>2, McResetDoes DEF words, motion
  <2> QED BY <2>3, <2>4
<1>23. ASSUME Aborts PROVE Types'
  BY <1>23 DEF Aborts, vfd, link, words
<1>24. ASSUME Restart PROVE Types'
  <2>1. SetMode("off", TRUE)
    BY <1>24 DEF Restart, Stop
  <2>2. current' \in Modes /\ queue' \in Seq(Sendable) /\ Len(queue') <= QUEUE_SIZE
    BY <2>1, SetModeDoes DEF Modes
  <2> QED BY <1>24, <2>2 DEF Restart, link, Modes
<1>25. ASSUME Unlock PROVE Types'
  BY <1>25 DEF Unlock, vfd, link, words, flags
<1>26. ASSUME UNCHANGED vars PROVE Types'
  BY <1>26 DEF vars, vfd, link, words, motion, flags
<1> QED BY <1>1, <1>4, <1>5, <1>6, <1>7, <1>8, <1>10, <1>11, <1>12, <1>13, <1>14, <1>15, <1>16, <1>17,
           <1>18, <1>19, <1>20, <1>21, <1>22, <1>23, <1>24, <1>25, <1>26
        DEF Next, Task, SetStates, Operator

\* Every state is of these types.
LEMMA TypesHold == Spec => []Types
<1>1. Init => Types
  <2> SUFFICES ASSUME Init PROVE Types
    OBVIOUS
  <2>1. SpindleTypes
    BY ConstantTypes DEF Init, SpindleTypes, Modes, Rates
  <2>2. LinkTypes
    <3>1. drive \in [mode : Modes, speed : Rates, turns : Modes \X Rates]
      BY DEF Init, Modes, Rates
    <3>2. request \in Requests /\ request.what # "init"
      BY CommandTypes DEF Init, Nothing
    <3>3. /\ tries \in 0 .. MAX_RETRIES - 1 /\ toInit \in 0 .. InitSteps
          /\ unresponsive \in BOOLEAN
      <4>1. tries = 0 /\ toInit = InitSteps /\ unresponsive = FALSE
        BY DEF Init
      <4>2. 0 \in 0 .. MAX_RETRIES - 1 /\ InitSteps \in 0 .. InitSteps
        BY ConstantTypes
      <4> QED BY <4>1, <4>2
    <3> QED BY <3>1, <3>2, <3>3 DEF LinkTypes
  <2> QED BY <2>1, <2>2 DEF Init, Types, MainTypes, RestTypes, Places, Modes
<1>2. Types /\ [Next]_vars => Types'
  BY TypesStep
<1> QED BY <1>1, <1>2, PTL DEF Spec

\* Every variable has its type, whatever is lost and whenever a reset falls: the queue of
\* commands never exceeds its size, and the main task comes out of its waits where it can
\* go on (vfd_cmd_task(), set_state()).
THEOREM TypeCorrect == Spec => []TypeOK
BY TypesHold, TypesAreTypeOK, PTL

-----------------------------------------------------------------------------
(***************************************************************************)
(* A reset stops the drive.                                                *)
(***************************************************************************)

\* The off command of the reset is queued or under way, or the drive has obeyed it.
OffAhead ==
  \/ \E i \in DOMAIN queue : queue[i] = Off
  \/ request = Off
  \/ drive.mode = "off" /\ ~TurnsOn(request)

\* When the reset is over and no line has turned the spindle on since, firmware and program
\* have the spindle off, nothing queued turns it on, and a hold that refreshes it sends
\* speeds at most.
StoppingInv ==
  stopping /\ ~reset =>
    /\ current = "off" /\ modal.mode = "off"
    /\ main.step \in {"ready", "rpm", "end"}
    /\ main.step # "ready" => main.mode = "off"
    /\ main.step = "rpm" => ~main.changed /\ ~main.waits
    /\ \A i \in DOMAIN queue : ~TurnsOn(queue[i])
    /\ OffAhead

\* Every step keeps it.
LEMMA StoppingStep ==
  ASSUME Types, StoppingInv, [Next]_vars
  PROVE  StoppingInv'
<1> SUFFICES ASSUME stopping', ~reset' PROVE StoppingInv'
  BY DEF StoppingInv
<1>a. StoppingInv' <=>
        /\ current' = "off" /\ modal'.mode = "off"
        /\ main'.step \in {"ready", "rpm", "end"}
        /\ main'.step # "ready" => main'.mode = "off"
        /\ main'.step = "rpm" => ~main'.changed /\ ~main'.waits
        /\ \A i \in DOMAIN queue' : ~TurnsOn(queue'[i])
        /\ OffAhead'
  BY DEF StoppingInv, TurnsOn
<1>t. /\ current \in Modes /\ queue \in Seq(Sendable) /\ Len(queue) <= QUEUE_SIZE
      /\ request \in Requests /\ main \in Places /\ stopping \in BOOLEAN
      /\ reset \in BOOLEAN
      /\ drive \in [mode : Modes, speed : Rates, turns : Modes \X Rates]
      /\ modal \in [mode : Modes, speed : {0} \cup Speeds]
  BY DEF Types, SpindleTypes, LinkTypes, MainTypes, RestTypes
<1>i. stopping /\ ~reset =>
        /\ current = "off" /\ modal.mode = "off"
        /\ main.step \in {"ready", "rpm", "end"}
        /\ main.step # "ready" => main.mode = "off"
        /\ main.step = "rpm" => ~main.changed /\ ~main.waits
        /\ \A i \in DOMAIN queue : ~TurnsOn(queue[i])
        /\ OffAhead
  BY DEF StoppingInv
<1>1. CASE Take
  <2>1. /\ UNCHANGED <<current, drive, main, modal, reset, stopping>> /\ request = Nothing
        /\ \/ queue' = queue /\ request'.what # "mode"
           \/ queue # <<>> /\ request' = Head(queue) /\ queue' = Tail(queue)
    <3>1. [Poll EXCEPT !.what = "init"].what # "mode" /\ Poll.what # "mode"
      BY DEF Poll
    <3>2. /\ UNCHANGED <<current, drive, main, words, flags, stopping>> /\ request = Nothing
          /\ \/ queue' = queue /\ request' \in {Poll, [Poll EXCEPT !.what = "init"]}
             \/ queue # <<>> /\ request' = Head(queue) /\ queue' = Tail(queue)
      BY <1>1 DEF Take
    <3> QED BY <3>1, <3>2 DEF words, flags
  <2>2. request # Off
    BY <2>1 DEF Nothing, Off, Command
  <2>3. CASE queue' = queue /\ request'.what # "mode"
    BY <1>a, <1>i, <2>1, <2>2, <2>3 DEF OffAhead, TurnsOn
  <2>4. CASE queue # <<>> /\ request' = Head(queue) /\ queue' = Tail(queue)
    <3>1. /\ \A i \in DOMAIN queue' : i + 1 \in DOMAIN queue /\ queue'[i] = queue[i + 1]
          /\ \A i \in DOMAIN queue : i = 1 \/ (i - 1 \in DOMAIN queue' /\ queue'[i - 1] = queue[i])
          /\ 1 \in DOMAIN queue /\ request' = queue[1]
      BY <1>t, <2>4
    <3>2. \A i \in DOMAIN queue' : ~TurnsOn(queue'[i])
      BY <1>i, <2>1, <3>1
    <3>3. OffAhead'
      BY <1>i, <2>1, <2>2, <3>1 DEF OffAhead
    <3> QED BY <1>a, <1>i, <2>1, <3>2, <3>3
  <2> QED BY <2>1, <2>3, <2>4
<1>2. request = Off => Obeyed.mode = "off"
  BY <1>t DEF Obeyed, Off, Command
<1>3. drive.mode = "off" /\ ~TurnsOn(request) => Obeyed.mode = "off"
  BY <1>t DEF Obeyed, TurnsOn
<1>4. ~TurnsOn(Nothing)
  BY DEF Nothing, TurnsOn
<1>5. CASE Answered
  <2>1. /\ UNCHANGED <<current, queue, main, modal, reset, stopping>>
        /\ drive' = Obeyed /\ request' = Nothing
    BY <1>5 DEF Answered, words, flags
  <2>2. OffAhead'
    BY <1>2, <1>3, <1>4, <1>i, <2>1 DEF OffAhead
  <2> QED BY <1>a, <1>i, <2>1, <2>2
<1>6. CASE Unanswered
  <2>1. /\ UNCHANGED <<main, modal>> /\ drive' \in {drive, Obeyed}
        /\ request.critical /\ request' # request => McReset
        /\ McReset \/ UNCHANGED <<current, queue, flags, stopping>>
        /\ request' \in {request, Nothing}
    BY <1>6 DEF Unanswered, words
  <2>2. UNCHANGED <<current, queue, reset, stopping>>
    BY <2>1, McResetDoes DEF flags
  <2>3. request = Off => request' = Off
    <3>1. Off.critical
      BY DEF Off, Command
    <3> QED BY <2>1, <3>1, McResetDoes
  <2>4. OffAhead'
    BY <1>2, <1>3, <1>4, <1>i, <2>1, <2>2, <2>3 DEF OffAhead
  <2> QED BY <1>a, <1>i, <2>1, <2>2, <2>4
<1>7. CASE Turn
  <2>1. drive'.mode = drive.mode
    BY <1>t, <1>7 DEF Turn
  <2> QED BY <1>a, <1>i, <1>7, <2>1 DEF Turn, vfd, link, words, flags, OffAhead
<1>8. CASE SetSpeed
  <2>1. /\ UNCHANGED <<current, request, drive, modal, reset, stopping>> /\ main.step = "rpm"
        /\ main' = [main EXCEPT !.step = IF main.waits THEN "begin" ELSE "end"]
        /\ UNCHANGED queue \/ (ovr' = ovr /\ SetRpm(main.rpm))
    BY <1>8 DEF SetSpeed, link, flags
  <2>2. main.rpm \in {0} \cup Speeds /\ ovr \in {1, 2}
    BY <1>t, <2>1 DEF Places, Ready, Types, MainTypes
  <2>3. main'.step = "end" /\ main'.mode = "off"
    BY <1>i, <1>t, <2>1 DEF Places, Ready
  <2>4. /\ \A i \in DOMAIN queue : i \in DOMAIN queue' /\ queue'[i] = queue[i]
        /\ \A i \in DOMAIN queue' : ~TurnsOn(queue'[i]) \/ (i \in DOMAIN queue /\ queue'[i] = queue[i])
    BY <2>1, <2>2, SetRpmDoes
  <2>5. \A i \in DOMAIN queue' : ~TurnsOn(queue'[i])
    BY <1>i, <2>1, <2>4
  <2>6. OffAhead'
    BY <1>i, <2>1, <2>4 DEF OffAhead
  <2> QED BY <1>a, <1>i, <2>1, <2>3, <2>5, <2>6
<1>9. CASE BeginWait
  BY <1>i, <1>9 DEF BeginWait, flags
<1>10. CASE InRange
  BY <1>i, <1>10 DEF InRange, flags
<1>11. CASE GiveUp
  <2>1. McReset
    BY <1>11 DEF GiveUp
  <2> QED BY <2>1, McResetDoes
<1>12. CASE StartDwell
  BY <1>i, <1>12 DEF StartDwell, flags
<1>13. CASE EndDwell
  BY <1>i, <1>13 DEF EndDwell, flags
<1>14. CASE Finish
  <2>1. /\ UNCHANGED <<queue, request, drive, reset, stopping>> /\ main.step = "end"
        /\ current' = main.mode /\ main'.step = "ready"
        /\ modal' = [mode |-> main.mode, speed |-> main.rpm] \/ modal' = modal
    BY <1>14 DEF Finish, link, flags, Ready
  <2> QED BY <1>a, <1>i, <2>1 DEF OffAhead
<1>15. ASSUME NEW mode \in Modes, NEW speed \in Speeds, Line(mode, speed) PROVE StoppingInv'
  <2>1. SetState(mode, speed, "line") /\ UNCHANGED reset
    BY <1>15 DEF Line, flags
  <2>2. mode = "off" => modal.mode # "off"
    BY <1>15 DEF Line
  <2> QED BY <1>i, <2>1, <2>2, SetStateDoes
<1>16. CASE Motion
  BY <1>a, <1>i, <1>16 DEF Motion, vfd, link, words, flags, OffAhead
<1>17. CASE MotionEnds
  BY <1>a, <1>i, <1>17 DEF MotionEnds, vfd, link, words, flags, OffAhead
<1>18. CASE FeedHold
  BY <1>a, <1>i, <1>18 DEF FeedHold, vfd, link, words, flags, OffAhead
<1>19. CASE CycleStart
  BY <1>a, <1>i, <1>19 DEF CycleStart, vfd, link, flags, OffAhead
<1>20. CASE Override
  <2>1. /\ UNCHANGED <<current, request, drive, main, modal, reset, stopping>>
        /\ modal.mode = "off" => UNCHANGED queue
    BY <1>20 DEF Override, link, flags
  <2> QED BY <1>a, <1>i, <2>1 DEF OffAhead
<1>21. CASE Refresh
  <2>1. /\ SetState(modal.mode, modal.speed, "hold")
        /\ UNCHANGED <<request, drive, modal, reset>>
    BY <1>21 DEF Refresh, link, words, flags
  <2>2. modal.mode \in Modes /\ modal.speed \in {0} \cup Speeds
    BY <1>t
  <2>3. /\ main'.step = "rpm" /\ main'.mode = modal.mode
        /\ stopping' = IF modal.mode = "off" THEN stopping ELSE FALSE
        /\ modal.mode = "off" /\ current = "off" =>
             current' = current /\ queue' = queue /\ ~main'.changed /\ ~main'.waits
    BY <2>1, <2>2, SetStateDoes
  <2>4. stopping /\ modal.mode = "off"
    BY <2>3
  <2> QED BY <1>a, <1>i, <2>1, <2>3, <2>4 DEF OffAhead
<1>22. CASE Reset
  <2>1. McReset
    BY <1>22 DEF Reset
  <2> QED BY <2>1, McResetDoes
<1>23. CASE Aborts
  BY <1>23 DEF Aborts
<1>24. CASE Restart
  <2>1. SetMode("off", TRUE) /\ main' = main /\ main.step = "ready" /\ modal'.mode = "off"
    BY <1>24 DEF Restart, Stop, Ready
  <2>2. current' = "off" /\ queue' = Sent(<<>>, Off)
    BY <2>1, SetModeDoes DEF Modes, Off
  <2>3. Off \in Sendable /\ ~TurnsOn(Off)
    BY CommandTypes DEF Modes, Off, TurnsOn, Command
  <2>4. /\ \A i \in DOMAIN queue' : queue'[i] = Off
        /\ 1 \in DOMAIN queue' /\ queue'[1] = Off
    <3>1. <<>> \in Seq(Sendable) /\ Len(<<>>) <= QUEUE_SIZE /\ DOMAIN <<>> = {}
      BY ConstantTypes
    <3> QED BY <2>2, <2>3, <3>1, SentDoes
  <2>5. OffAhead'
    BY <2>4 DEF OffAhead
  <2> QED BY <1>a, <2>1, <2>2, <2>3, <2>4, <2>5
<1>25. CASE Unlock
  BY <1>a, <1>i, <1>25 DEF Unlock, vfd, link, words, flags, OffAhead
<1>26. CASE UNCHANGED vars
  BY <1>a, <1>i, <1>26 DEF vars, vfd, link, words, flags, OffAhead
<1> QED BY <1>1, <1>5, <1>6, <1>7, <1>8, <1>9, <1>10, <1>11, <1>12, <1>13, <1>14, <1>15, <1>16, <1>17,
           <1>18, <1>19, <1>20, <1>21, <1>22, <1>23, <1>24, <1>25, <1>26
        DEF Next, Task, SetStates, Operator

\* A reset stops the drive, whatever was queued or under way when it fell and whichever
\* exchanges are lost: when the queue is empty and nothing more is to be said, the drive is
\* off unless a line has turned it on since (mc_reset(), VFD::stop(), vfd_cmd_task()).
THEOREM ResetStopsDrive == Spec => []DriveStopped
<1>1. Init => StoppingInv
  BY DEF Init, StoppingInv
<1>2. Types /\ StoppingInv /\ [Next]_vars => StoppingInv'
  BY StoppingStep
<1>3. Types /\ StoppingInv => DriveStopped
  <2> SUFFICES ASSUME Types, StoppingInv, Quiet, stopping
               PROVE  drive.mode = "off"
    BY DEF DriveStopped
  <2>1. OffAhead /\ queue = <<>> /\ request.what \in {"none", "poll"}
    BY DEF Quiet, StoppingInv
  <2>2. DOMAIN queue = {} /\ request # Off
    BY <2>1 DEF Off, Command
  <2> QED BY <2>1, <2>2 DEF OffAhead
<1> QED BY <1>1, <1>2, <1>3, TypesHold, PTL DEF Spec

-----------------------------------------------------------------------------
(***************************************************************************)
(* The drive runs as the last line said, if no command is lost to a full   *)
(* queue.                                                                  *)
(***************************************************************************)

\* The mode that the last command on its way to the drive asks for, or the drive has.
LastMode(q, r, d, m) ==
  \/ \E i \in DOMAIN q : /\ q[i].what = "mode" /\ q[i].to = m
                         /\ \A j \in DOMAIN q : i < j => q[j].what # "mode"
  \/ /\ \A j \in DOMAIN q : q[j].what # "mode"
     /\ IF r.what = "mode" THEN r.to = m ELSE d.mode = m

\* A command that turns the drive on is critical, so that its loss resets the machine; the
\* spindle is on in the firmware only if the last command turns the drive on the same way;
\* and set_state works on the mode that is current.
RunningInv ==
  /\ \A i \in DOMAIN queue : TurnsOn(queue[i]) => queue[i].critical
  /\ TurnsOn(request) => request.critical
  /\ ~reset /\ current # "off" => LastMode(queue, request, drive, current)
  /\ ~reset /\ main.step # "ready" => main.mode = current

\* There is room for one more command, so that none is lost.
Roomy == Len(queue) < QUEUE_SIZE

\* set_mode puts its command last.
LEMMA ModeSent ==
  ASSUME Types, Roomy, NEW m \in Modes, NEW c \in BOOLEAN, SetMode(m, c)
  PROVE  /\ current' = m
         /\ \A r, d : LastMode(queue', r, d, m)
         /\ \A i \in DOMAIN queue' : \/ queue'[i] = Command("mode", m, c)
                                     \/ i \in DOMAIN queue /\ queue'[i] = queue[i]
<1> DEFINE q == IF m = "off" THEN <<>> ELSE queue
           b == Command("mode", m, c)
<1>1. /\ q \in Seq(Sendable) /\ Len(q) < QUEUE_SIZE /\ Len(q) \in Nat
      /\ \A i \in DOMAIN q : i \in DOMAIN queue /\ q[i] = queue[i]
  BY ConstantTypes DEF Types, SpindleTypes, Roomy
<1>2. b \in Sendable /\ b.what = "mode" /\ b.to = m
  BY CommandTypes DEF Command
<1>3. current' = m /\ queue' = Append(q, b)
  BY <1>1 DEF SetMode, Sent
<1> HIDE DEF q, b
<1>4. /\ Len(q) + 1 \in DOMAIN queue' /\ queue'[Len(q) + 1] = b
      /\ \A i \in DOMAIN queue' : i \in Nat /\ i <= Len(q) + 1
      /\ \A i \in DOMAIN queue' : i = Len(q) + 1 \/ (i \in DOMAIN q /\ queue'[i] = q[i])
  BY <1>1, <1>2, <1>3
<1>5. \A j \in DOMAIN queue' : ~(Len(q) + 1 < j)
  BY <1>1, <1>4
<1>6. \A r, d : LastMode(queue', r, d, m)
  BY <1>2, <1>4, <1>5 DEF LastMode
<1> QED BY <1>1, <1>3, <1>4, <1>6 DEF b

\* A speed put on the queue asks for no mode.
LEMMA SpeedSent ==
  ASSUME Types, NEW v \in {0} \cup Speeds, ovr' \in {1, 2}, SetRpm(v)
  PROVE  /\ \A r, d, m : LastMode(queue, r, d, m) => LastMode(queue', r, d, m)
         /\ \A i \in DOMAIN queue' : TurnsOn(queue'[i]) => i \in DOMAIN queue /\ queue'[i] = queue[i]
<1> DEFINE s == v * ovr'
           b == Command("speed", s, s = 0)
<1>1. b \in Sendable /\ b.what # "mode"
  BY RateTypes, CommandTypes DEF Command
<1>2. queue \in Seq(Sendable) /\ Len(queue) \in Nat
  BY DEF Types, SpindleTypes
<1>3. queue' = queue \/ queue' = Append(queue, b)
  BY DEF SetRpm, Sent
<1> HIDE DEF b, s
<1>4. CASE queue' = queue
  BY <1>4
<1>5. CASE queue' = Append(queue, b)
  <2>1. /\ \A i \in DOMAIN queue : i \in DOMAIN queue' /\ queue'[i] = queue[i]
        /\ \A i \in DOMAIN queue' : queue'[i] = b \/ (i \in DOMAIN queue /\ queue'[i] = queue[i])
    BY <1>1, <1>2, <1>5
  <2>2. ASSUME NEW r, NEW d, NEW m, LastMode(queue, r, d, m)
        PROVE  LastMode(queue', r, d, m)
    <3>1. CASE \E i \in DOMAIN queue : /\ queue[i].what = "mode" /\ queue[i].to = m
                                       /\ \A j \in DOMAIN queue : i < j => queue[j].what # "mode"
      <4>1. PICK i \in DOMAIN queue : /\ queue[i].what = "mode" /\ queue[i].to = m
                                      /\ \A j \in DOMAIN queue : i < j => queue[j].what # "mode"
        BY <3>1
      <4>2. i \in DOMAIN queue' /\ queue'[i].what = "mode" /\ queue'[i].to = m
        BY <2>1, <4>1
      <4>3. \A j \in DOMAIN queue' : i < j => queue'[j].what # "mode"
        BY <1>1, <2>1, <4>1
      <4> QED BY <4>2, <4>3 DEF LastMode
    <3>2. CASE /\ \A j \in DOMAIN queue : queue[j].what # "mode"
               /\ IF r.what = "mode" THEN r.to = m ELSE d.mode = m
      <4>1. \A j \in DOMAIN queue' : queue'[j].what # "mode"
        BY <1>1, <2>1, <3>2
      <4> QED BY <3>2, <4>1 DEF LastMode
    <3> QED BY <2>2, <3>1, <3>2 DEF LastMode
  <2>3. ~TurnsOn(b)
    BY <1>1 DEF TurnsOn
  <2> QED BY <2>1, <2>2, <2>3
<1> QED BY <1>3, <1>4, <1>5

\* mc_reset sends the critical off command at most.
LEMMA ResetSends ==
  ASSUME Types, Roomy, McReset
  PROVE  /\ reset' = TRUE
         /\ \A i \in DOMAIN queue' : TurnsOn(queue'[i]) => i \in DOMAIN queue /\ queue'[i] = queue[i]
<1>1. CASE reset
  BY <1>1 DEF McReset
<1>2. CASE ~reset
  <2>1. SetMode("off", TRUE) /\ reset' = TRUE
    BY <1>2 DEF McReset, Stop
  <2>2. ~TurnsOn(Command("mode", "off", TRUE))
    BY DEF TurnsOn, Command
  <2> QED BY <2>1, <2>2, ModeSent DEF Modes
<1> QED BY <1>1, <1>2

\* set_state sends the mode it makes current, as a critical command if it turns the drive on.
LEMMA StateSent ==
  ASSUME Types, Roomy, RunningInv, ~reset, NEW m \in Modes, NEW r \in {0} \cup Speeds,
         NEW f \in {"line", "hold"}, SetState(m, r, f)
  PROVE  /\ current' = m /\ main'.mode = m
         /\ m # "off" => LastMode(queue', request, drive, m)
         /\ \A i \in DOMAIN queue' : TurnsOn(queue'[i]) => queue'[i].critical
<1>1. main'.mode = m
  BY DEF SetState
<1>2. CASE m # current
  <2>1. SetMode(m, m # "off")
    BY <1>2 DEF SetState
  <2>2. TurnsOn(Command("mode", m, m # "off")) => Command("mode", m, m # "off").critical
    BY DEF TurnsOn, Command
  <2>3. /\ current' = m /\ LastMode(queue', request, drive, m)
        /\ \A i \in DOMAIN queue' : \/ queue'[i] = Command("mode", m, m # "off")
                                    \/ i \in DOMAIN queue /\ queue'[i] = queue[i]
    BY <2>1, ModeSent
  <2> QED BY <1>1, <2>2, <2>3 DEF RunningInv
<1>3. CASE m = current
  <2>1. current' = current /\ queue' = queue
    BY <1>3 DEF SetState
  <2> QED BY <1>1, <1>3, <2>1 DEF RunningInv
<1> QED BY <1>2, <1>3

\* Every step keeps the invariant, if there is room.
LEMMA RunningStep ==
  ASSUME Types, Roomy, RunningInv, [Next]_vars
  PROVE  RunningInv'
<1>a. RunningInv' <=>
        /\ \A i \in DOMAIN queue' : TurnsOn(queue'[i]) => queue'[i].critical
        /\ TurnsOn(request') => request'.critical
        /\ ~reset' /\ current' # "off" => LastMode(queue', request', drive', current')
        /\ ~reset' /\ main'.step # "ready" => main'.mode = current'
  BY DEF RunningInv, TurnsOn, LastMode
<1>i. /\ \A i \in DOMAIN queue : TurnsOn(queue[i]) => queue[i].critical
      /\ TurnsOn(request) => request.critical
      /\ ~reset /\ current # "off" => LastMode(queue, request, drive, current)
      /\ ~reset /\ main.step # "ready" => main.mode = current
  BY DEF RunningInv
<1>t. /\ current \in Modes /\ queue \in Seq(Sendable) /\ request \in Requests /\ main \in Places
      /\ reset \in BOOLEAN
      /\ drive \in [mode : Modes, speed : Rates, turns : Modes \X Rates]
      /\ modal \in [mode : Modes, speed : {0} \cup Speeds] /\ ovr \in {1, 2}
  BY DEF Types, SpindleTypes, LinkTypes, MainTypes, RestTypes
<1>m. ASSUME NEW d, d.mode = drive.mode
      PROVE  \A m : LastMode(queue, request, drive, m) => LastMode(queue, request, d, m)
  BY <1>m DEF LastMode
<1>1. CASE Take
  <2>1. /\ UNCHANGED <<current, drive, main, reset>> /\ request = Nothing
        /\ \/ queue' = queue /\ request'.what # "mode"
           \/ queue # <<>> /\ request' = Head(queue) /\ queue' = Tail(queue)
    <3>1. [Poll EXCEPT !.what = "init"].what # "mode" /\ Poll.what # "mode"
      BY DEF Poll
    <3>2. /\ UNCHANGED <<current, drive, main, flags>> /\ request = Nothing
          /\ \/ queue' = queue /\ request' \in {Poll, [Poll EXCEPT !.what = "init"]}
             \/ queue # <<>> /\ request' = Head(queue) /\ queue' = Tail(queue)
      BY <1>1 DEF Take
    <3> QED BY <3>1, <3>2 DEF flags
  <2>2. request.what # "mode"
    BY <2>1 DEF Nothing
  <2>3. CASE queue' = queue /\ request'.what # "mode"
    BY <1>a, <1>i, <2>1, <2>2, <2>3 DEF LastMode, TurnsOn
  <2>4. CASE queue # <<>> /\ request' = Head(queue) /\ queue' = Tail(queue)
    <3>1. /\ \A i \in DOMAIN queue' : i + 1 \in DOMAIN queue /\ queue'[i] = queue[i + 1] /\ i \in Nat
          /\ \A i \in DOMAIN queue : i \in Nat /\ (i = 1 \/ (i - 1 \in DOMAIN queue' /\ queue'[i - 1] = queue[i]))
          /\ 1 \in DOMAIN queue /\ request' = queue[1]
      BY <1>t, <2>4
    <3>2. ASSUME NEW m, LastMode(queue, request, drive, m)
          PROVE  LastMode(queue', request', drive, m)
      <4>1. CASE \A j \in DOMAIN queue : queue[j].what # "mode"
        BY <2>2, <3>1, <3>2, <4>1 DEF LastMode
      <4>2. CASE \E i \in DOMAIN queue : /\ queue[i].what = "mode" /\ queue[i].to = m
                                         /\ \A j \in DOMAIN queue : i < j => queue[j].what # "mode"
        <5>1. PICK i \in DOMAIN queue : /\ queue[i].what = "mode" /\ queue[i].to = m
                                        /\ \A j \in DOMAIN queue : i < j => queue[j].what # "mode"
          BY <4>2
        <5>2. \A j \in DOMAIN queue' : i - 1 < j => queue'[j].what # "mode"
          BY <3>1, <5>1
        <5>3. CASE i = 1
          <6>1. \A j \in DOMAIN queue' : i - 1 < j
            BY <1>t, <2>4, <5>3
          <6> QED BY <3>1, <5>1, <5>2, <5>3, <6>1 DEF LastMode
        <5>4. CASE i # 1
          BY <3>1, <5>1, <5>2, <5>4 DEF LastMode
        <5> QED BY <5>3, <5>4
      <4> QED BY <3>2, <4>1, <4>2 DEF LastMode
    <3>3. \A i \in DOMAIN queue' : TurnsOn(queue'[i]) => queue'[i].critical
      BY <1>i, <3>1
    <3>4. TurnsOn(request') => request'.critical
      BY <1>i, <3>1
    <3> QED BY <1>a, <1>i, <2>1, <3>2, <3>3, <3>4
  <2> QED BY <2>1, <2>3, <2>4
<1>2. Obeyed.mode = IF request.what = "mode" THEN request.to ELSE drive.mode
  BY <1>t DEF Obeyed
<1>3. Nothing.what # "mode" /\ ~TurnsOn(Nothing)
  BY DEF Nothing, TurnsOn
<1>4. \A m : LastMode(queue, request, drive, m) => /\ LastMode(queue, Nothing, Obeyed, m)
                                                   /\ LastMode(queue, request, Obeyed, m)
  BY <1>2, <1>3 DEF LastMode
<1>5. CASE Answered
  <2>1. /\ UNCHANGED <<current, queue, main, reset>>
        /\ drive' = Obeyed /\ request' = Nothing
    BY <1>5 DEF Answered, flags
  <2> QED BY <1>a, <1>i, <1>3, <1>4, <2>1
<1>6. CASE Unanswered
  <2>1. /\ UNCHANGED main /\ drive' \in {drive, Obeyed}
        /\ \/ request' = request /\ UNCHANGED <<current, queue, reset>>
           \/ request' = Nothing /\ request.critical /\ McReset
           \/ request' = Nothing /\ ~request.critical /\ UNCHANGED <<current, queue, reset>>
    BY <1>6 DEF Unanswered, flags
  <2>2. CASE request' = request /\ UNCHANGED <<current, queue, reset>>
    BY <1>a, <1>i, <1>4, <2>1, <2>2
  <2>3. CASE request' = Nothing /\ request.critical /\ McReset
    BY <1>a, <1>i, <1>3, <2>3, ResetSends
  <2>4. CASE request' = Nothing /\ ~request.critical /\ UNCHANGED <<current, queue, reset>>
    <3>1. request.what = "mode" => request.to = "off"
      BY <1>i, <2>4 DEF TurnsOn
    <3>2. \A m : m # "off" /\ LastMode(queue, request, drive, m) => LastMode(queue, Nothing, drive', m)
      BY <1>2, <1>3, <2>1, <3>1 DEF LastMode
    <3> QED BY <1>a, <1>i, <1>3, <2>1, <2>4, <3>2
  <2> QED BY <2>1, <2>2, <2>3, <2>4
<1>7. CASE Turn
  <2>1. drive'.mode = drive.mode /\ UNCHANGED <<current, queue, request, main, reset>>
    BY <1>t, <1>7 DEF Turn, vfd, link, flags
  <2> QED BY <1>a, <1>i, <1>m, <2>1
<1>8. CASE SetSpeed
  <2>1. /\ UNCHANGED <<current, request, drive, reset>> /\ main.step = "rpm"
        /\ main' = [main EXCEPT !.step = IF main.waits THEN "begin" ELSE "end"]
        /\ UNCHANGED queue \/ (ovr' = ovr /\ SetRpm(main.rpm))
    BY <1>8 DEF SetSpeed, link, flags
  <2>2. main.rpm \in {0} \cup Speeds /\ main'.mode = main.mode
    BY <1>t, <2>1 DEF Places, Ready
  <2>3. CASE UNCHANGED queue
    BY <1>a, <1>i, <2>1, <2>2, <2>3
  <2>4. CASE ovr' = ovr /\ SetRpm(main.rpm)
    BY <1>a, <1>i, <1>t, <2>1, <2>2, <2>4, SpeedSent
  <2> QED BY <2>1, <2>3, <2>4
<1>9. CASE BeginWait \/ InRange \/ StartDwell \/ EndDwell
  <2>1. /\ UNCHANGED <<current, queue, request, drive, reset>>
        /\ main.step \in {"begin", "wait", "dwell"}
    BY <1>9 DEF BeginWait, InRange, StartDwell, EndDwell, vfd, link, flags
  <2>2. CASE BeginWait \/ InRange
    <3>1. main'.mode = main.mode
      BY <2>2 DEF BeginWait, InRange, Ended
    <3> QED BY <1>a, <1>i, <2>1, <3>1
  <2>3. CASE StartDwell \/ EndDwell
    <3>1. main \in [step : {"wait", "dwell"}, mode : Modes, rpm : {0} \cup Speeds, from : {"line", "hold"},
                   want : Rates, last : Rates \cup {Unknown}, unchanged : Nat]
      BY <1>t, <2>3 DEF StartDwell, EndDwell, Places, Ready
    <3>2. main'.mode = main.mode
      BY <2>3, <3>1 DEF StartDwell, EndDwell
    <3> QED BY <1>a, <1>i, <2>1, <3>2
  <2> QED BY <1>9, <2>2, <2>3
<1>10. CASE GiveUp
  <2>1. McReset /\ UNCHANGED request
    BY <1>10 DEF GiveUp, link
  <2> QED BY <1>a, <1>i, <2>1, ResetSends
<1>11. CASE Finish
  <2>1. /\ UNCHANGED <<queue, request, drive, reset>> /\ main.step = "end"
        /\ current' = main.mode /\ main'.step = "ready"
    BY <1>11 DEF Finish, link, flags, Ready
  <2> QED BY <1>a, <1>i, <2>1
<1>12. ASSUME NEW mode \in Modes, NEW speed \in Speeds, Line(mode, speed) PROVE RunningInv'
  <2>1. SetState(mode, speed, "line") /\ UNCHANGED <<request, drive, reset>> /\ ~reset
    BY <1>12 DEF Line, link, flags
  <2>2. /\ current' = mode /\ main'.mode = mode
        /\ mode # "off" => LastMode(queue', request, drive, mode)
        /\ \A i \in DOMAIN queue' : TurnsOn(queue'[i]) => queue'[i].critical
    BY <2>1, StateSent
  <2> QED BY <1>a, <1>i, <2>1, <2>2
<1>13. CASE Refresh
  <2>1. SetState(modal.mode, modal.speed, "hold") /\ UNCHANGED <<request, drive, reset>> /\ ~reset
    BY <1>13 DEF Refresh, link, flags
  <2>2. modal.mode \in Modes /\ modal.speed \in {0} \cup Speeds
    BY <1>t
  <2>3. /\ current' = modal.mode /\ main'.mode = modal.mode
        /\ modal.mode # "off" => LastMode(queue', request, drive, modal.mode)
        /\ \A i \in DOMAIN queue' : TurnsOn(queue'[i]) => queue'[i].critical
    BY <2>1, <2>2, StateSent
  <2> QED BY <1>a, <1>i, <2>1, <2>3
<1>14. CASE Motion \/ MotionEnds \/ FeedHold \/ CycleStart \/ Aborts \/ Unlock \/ UNCHANGED vars
  <2>1. UNCHANGED <<current, queue, request, drive, main, reset>>
    BY <1>14 DEF Motion, MotionEnds, FeedHold, CycleStart, Aborts, Unlock, vars, vfd, link, flags
  <2> QED BY <1>a, <1>i, <2>1
<1>15. CASE Override
  <2>1. /\ UNCHANGED <<current, request, drive, main, reset>>
        /\ UNCHANGED queue \/ SetRpm(modal.speed)
        /\ ovr' = 3 - ovr
    BY <1>15 DEF Override, link, flags
  <2>2. modal.speed \in {0} \cup Speeds /\ ovr' \in {1, 2}
    BY <1>t, <2>1
  <2>3. CASE UNCHANGED queue
    BY <1>a, <1>i, <2>1, <2>3
  <2>4. CASE SetRpm(modal.speed)
    BY <1>a, <1>i, <2>1, <2>2, <2>4, SpeedSent
  <2> QED BY <2>1, <2>3, <2>4
<1>16. CASE Reset
  <2>1. McReset /\ UNCHANGED request
    BY <1>16 DEF Reset, link
  <2> QED BY <1>a, <1>i, <2>1, ResetSends
<1>17. CASE Restart
  <2>1. /\ SetMode("off", TRUE) /\ UNCHANGED <<request, main>> /\ main.step = "ready"
    BY <1>17 DEF Restart, Stop, link, Ready
  <2>2. ~TurnsOn(Command("mode", "off", TRUE))
    BY DEF TurnsOn, Command
  <2> QED BY <1>a, <1>i, <2>1, <2>2, ModeSent DEF Modes
<1> QED BY <1>1, <1>5, <1>6, <1>7, <1>8, <1>9, <1>10, <1>11, <1>12, <1>13, <1>14, <1>15, <1>16, <1>17
        DEF Next, Task, SetStates, Operator

\* When a line leaves the spindle on and all is quiet without an alarm, the drive runs the
\* way the line said, whatever was lost, overridden, held or reset before, as long as the
\* queue never was full: a full queue loses commands without a word (set_mode(), set_rpm(),
\* vfd_cmd_task()).
THEOREM DriveFollowsLines == Spec /\ []Roomy => []DriveRuns
<1>1. Init => RunningInv
  BY DEF Init, RunningInv, TurnsOn, Nothing, Ready
<1>2. Types /\ Roomy /\ RunningInv /\ [Next]_vars => RunningInv'
  BY RunningStep
<1>3. Types /\ RunningInv => DriveRuns
  <2> SUFFICES ASSUME Types, RunningInv, Quiet, current # "off"
               PROVE  drive.mode = current
    BY DEF DriveRuns
  <2>1. LastMode(queue, request, drive, current) /\ queue = <<>> /\ request.what # "mode"
    BY DEF Quiet, RunningInv
  <2> QED BY <2>1 DEF LastMode
<1> QED BY <1>1, <1>2, <1>3, TypesHold, PTL DEF Spec

=============================================================================
