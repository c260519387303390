----------------------------- MODULE Motion_proofs -----------------------------
(***************************************************************************)
(* Proofs about motions that are planned, by the homing routines and by    *)
(* the planner.  First Homing, for both builds, every setting of the       *)
(* cycles, any squared axes, any broken switches and any number of resets  *)
(* and doors; then Planner, for queues and lines of every length, all      *)
(* corners, rates and overrides.                                           *)
(***************************************************************************)
EXTENDS Homing, Planner, SequenceTheorems, WellFoundedInduction, TLAPS

(***************************************************************************)
(* The invariant.                                                          *)
(***************************************************************************)
JobType == [axes: SUBSET Axes, locate: {0, 1}, own: BOOLEAN]
Working == {"plan", "look", "check", "stop"}

\* The records of the homing routines: between two jobs, at one, and at the end.
Between == [at: {"next", "return"}, mask: SUBSET Axes, jobs: Seq(JobType)]
AtJob   == [at: Working, mask: SUBSET Axes, jobs: Seq(JobType) \ {<<>>}, approach: BOOLEAN,
            travel: {Search, Pulloff, Locate}, count: 1..4, lock: SUBSET Axes]
Ending  == [at: {"end", "return"}, mask: SUBSET Axes]

Alarms == {"None", "FailApproach", "FailPulloff", "FailDoor", "FailReset"}

\* Types of the variables.
TypeOK ==
    /\ build \in [custom: BOOLEAN, kin: Modes, cycle: Cycles, fault: [Axes -> Faults]]
    /\ distance \in [Axes -> Int]
    /\ motors \in [running: BOOLEAN, moving: SUBSET Axes, lock: SUBSET Axes,
                   toward: BOOLEAN, left: Nat]
    /\ flags \in [reset: BOOLEAN, door: BOOLEAN, stopped: BOOLEAN, alarm: Alarms]
    /\ mode \in {"Idle", "Alarm", "Homing"} /\ abort \in BOOLEAN
    /\ task \in {Idle} \cup Between \cup AtJob \cup Ending
    /\ position \in Vectors /\ found \subseteq Axes /\ before \in Vectors
    /\ budget \in [homes: Int, events: Int]

\* A job homes axes that were asked for, and in the custom build those of the command.
Fits(j, custom, mask, wanted) ==
    /\ j.axes \subseteq wanted
    /\ j.own => custom /\ j.axes # {}
    /\ custom /\ mask # {} => j.axes = mask

FitInv ==
    task.at \in Working \cup {"next"} =>
        /\ ~SettingError
        /\ \A i \in DOMAIN task.jobs : Fits(task.jobs[i], build.custom, task.mask, Wanted)

\* The pull-off of the X and Y loop looks at the axes of the command alone.
Looked == build.custom => task.mask # {}

\* What an axis has when it is homed.
Homed(a) ==
    /\ a \in found
    /\ Looked => a \notin Engaged
    /\ ~build.custom => position[a] = HomedAt[a]

Pending(a) == task.at \notin {"end", "return"} /\ \E i \in DOMAIN task.jobs : a \in task.jobs[i].axes

\* Homing that has not failed yet.
Alive == task # Idle /\ ~abort

\* The state of the machine tells an aborted homing.
ModeInv ==
    /\ mode = "Homing" => Alive
    /\ mode = "Homing" /\ flags.reset => flags.alarm # "None"
    /\ ~build.custom /\ task.at \in Working => ~abort

\* The motors run for the job at hand only, in the direction of its phase.
MotionInv ==
    ~abort =>
        /\ task.at \notin Working \ {"plan"} => ~motors.running
        /\ motors.running => /\ motors.moving = Current.axes
                             /\ motors.lock \subseteq Current.axes
                             /\ motors.toward = task.approach

\* Within a job: the axes out of the lock have been found, a pull-off comes after an
\* approach that found all of them, and ends with all of them free.
JobInv ==
    Alive /\ task.at \in Working =>
        /\ Current.axes # {}
        /\ task.approach <=> task.count \in {2, 4}
        /\ task.approach /\ task.at \in {"look", "check"} => Current.axes \ task.lock \subseteq found
        /\ ~task.approach \/ task.at = "stop" => Current.axes \subseteq found
        /\ ~task.approach /\ task.at # "plan" => task.lock = Current.axes
        /\ ~task.approach /\ task.at = "stop" /\ Looked => Current.axes \cap Engaged = {}

\* Over the jobs: what is not homed is still to come, and nothing else has moved.
ProgressInv ==
    Alive =>
        /\ SettingError => task.at = "return"
        /\ ~SettingError => \A a \in Wanted : Homed(a) \/ Pending(a)
        /\ ~build.custom => \A a \in Axes \ Wanted : position[a] = before[a]
        /\ ~build.custom /\ task.at = "return" =>
             planner = position /\ parser = MotorsToCartesian(build.kin, planner)

HomingInv == TypeOK /\ FitInv /\ ModeInv /\ MotionInv /\ JobInv /\ ProgressInv

-----------------------------------------------------------------------------
\* What the place in the routines says of the record of the main task.
LEMMA TaskShape ==
    ASSUME TypeOK
    PROVE  /\ task.at \in Working \cup {"idle", "next", "end", "return"}
           /\ task.at = "idle" <=> task = Idle
           /\ task.at \in Working => task \in AtJob
           /\ task.at = "next" => task \in Between
           /\ task.at = "end" => task \in Ending
           /\ task # Idle => task.mask \in SUBSET Axes
<1>1. task \in {Idle} \cup Between \cup AtJob \cup Ending
  BY DEF TypeOK
<1>2. CASE task = Idle
  BY <1>2 DEF Idle, Working
<1>3. CASE task \in Between
  BY <1>3 DEF Between, Idle, Working
<1>4. CASE task \in AtJob
  BY <1>4 DEF AtJob, Idle, Working
<1>5. CASE task \in Ending
  BY <1>5 DEF Ending, Idle, Working
<1> QED
  BY <1>1, <1>2, <1>3, <1>4, <1>5

\* The axes of a command are axes of the machine.
LEMMA WantedType == ASSUME TypeOK, task # Idle PROVE Wanted \subseteq Axes
<1>1. task.mask \in SUBSET Axes
  BY TaskShape
<1>2. build.cycle \in Seq(SUBSET Axes) /\ Len(build.cycle) = 3
  BY HomingAssumption DEF HomingAssumption, TypeOK
<1>3. \A i \in 1..3 : build.cycle[i] \in SUBSET Axes
  BY <1>2
<1> QED
  BY <1>1, <1>3 DEF Wanted

\* The jobs that a pass over one cycle makes.
LEMMA PassesFit ==
    ASSUME NEW axes \in SUBSET Axes
    PROVE  /\ Passes(axes) \in Seq(JobType)
           /\ \A i \in DOMAIN Passes(axes) : Passes(axes)[i].axes = axes /\ ~Passes(axes)[i].own
           /\ axes # {} => 1 \in DOMAIN Passes(axes)
<1>1. Job(axes, 0, FALSE) \in JobType /\ Job(axes, 1, FALSE) \in JobType
  BY DEF Job, JobType
<1>2. Job(axes, 0, FALSE).axes = axes /\ ~Job(axes, 0, FALSE).own
  BY DEF Job
<1>3. Job(axes, 1, FALSE).axes = axes /\ ~Job(axes, 1, FALSE).own
  BY DEF Job
<1>4. CASE axes = {}
  BY <1>4 DEF Passes
<1>5. CASE axes # {}
  <2> DEFINE both == Job(axes, 0, FALSE)
             one == Job(axes, 1, FALSE)
  <2>1. Passes(axes) = <<both, one, one>> \/ Passes(axes) = <<one>>
    BY <1>5, Zenon DEF Passes
  <2> HIDE DEF both, one
  <2>2. both \in JobType /\ both.axes = axes /\ ~both.own
    BY <1>1, <1>2 DEF both
  <2>3. one \in JobType /\ one.axes = axes /\ ~one.own
    BY <1>1, <1>3 DEF one
  <2> DEFINE s3 == <<both, one, one>>
             s1 == <<one>>
  <2>4. s3 \in Seq(JobType) /\ DOMAIN s3 = 1..3 /\ \A i \in 1..3 : s3[i] \in {both, one}
    BY <2>2, <2>3
  <2>5. s1 \in Seq(JobType) /\ DOMAIN s1 = 1..1 /\ \A i \in 1..1 : s1[i] = one
    BY <2>3
  <2>6. Passes(axes) = s3 \/ Passes(axes) = s1
    BY <2>1
  <2> HIDE DEF s3, s1
  <2>7. CASE Passes(axes) = s3
    BY <2>2, <2>3, <2>4, <2>7
  <2>8. CASE Passes(axes) = s1
    BY <2>3, <2>5, <2>8
  <2> QED
    BY <2>6, <2>7, <2>8
<1> QED
  BY <1>4, <1>5

\* The one job of the paper machine's own routine for a cycle.
LEMMA OwnFits ==
    ASSUME NEW axes \in SUBSET Axes
    PROVE  /\ <<Own(axes)>> \in Seq(JobType)
           /\ \A i \in DOMAIN <<Own(axes)>> : /\ <<Own(axes)>>[i].axes = axes
                                              /\ <<Own(axes)>>[i].own => axes # {}
           /\ 1 \in DOMAIN <<Own(axes)>>
<1>1. Own(axes) \in JobType /\ Own(axes).axes = axes /\ (Own(axes).own => axes # {})
  BY DEF Own, Job, JobType
<1> DEFINE j == Own(axes)
<1> HIDE DEF j
<1>2. <<j>> \in Seq(JobType) /\ DOMAIN <<j>> = 1..1 /\ <<j>>[1] = j
  BY <1>1 DEF j
<1> QED
  BY <1>1, <1>2 DEF j

\* One pass, in either build.
Pass(axes) == IF build.custom THEN <<Own(axes)>> ELSE Passes(axes)

\* The jobs of a pass, in either build, home the axes of that pass.
LEMMA PassFits ==
    ASSUME NEW axes \in SUBSET Axes
    PROVE  /\ Pass(axes) \in Seq(JobType)
           /\ \A i \in DOMAIN Pass(axes) :
                /\ Pass(axes)[i].axes = axes
                /\ Pass(axes)[i].own => build.custom /\ axes # {}
           /\ axes # {} => 1 \in DOMAIN Pass(axes)
BY PassesFit, OwnFits DEF Pass

\* The elements of a concatenation are those of its parts.
LEMMA ConcatParts ==
    ASSUME NEW s \in Seq(JobType), NEW t \in Seq(JobType)
    PROVE  /\ s \o t \in Seq(JobType)
           /\ \A i \in DOMAIN (s \o t) : \/ \E j \in DOMAIN s : (s \o t)[i] = s[j]
                                         \/ \E j \in DOMAIN t : (s \o t)[i] = t[j]
           /\ \A j \in DOMAIN s : \E i \in DOMAIN (s \o t) : (s \o t)[i] = s[j]
           /\ \A j \in DOMAIN t : \E i \in DOMAIN (s \o t) : (s \o t)[i] = t[j]
<1>1. /\ s \o t \in Seq(JobType) /\ Len(s \o t) = Len(s) + Len(t)
      /\ \A i \in 1..Len(s)+Len(t) : (s \o t)[i] = IF i <= Len(s) THEN s[i] ELSE t[i - Len(s)]
  BY ConcatProperties
<1>2. DOMAIN (s \o t) = 1..Len(s)+Len(t) /\ DOMAIN s = 1..Len(s) /\ DOMAIN t = 1..Len(t)
      /\ Len(s) \in Nat /\ Len(t) \in Nat
  BY <1>1
<1>3. ASSUME NEW i \in 1..Len(s)+Len(t)
      PROVE  \/ \E j \in 1..Len(s) : (s \o t)[i] = s[j]
             \/ \E j \in 1..Len(t) : (s \o t)[i] = t[j]
  <2>1. CASE i <= Len(s)
    BY <1>1, <1>2, <2>1
  <2>2. CASE i > Len(s)
    <3>1. i - Len(s) \in 1..Len(t) /\ (s \o t)[i] = t[i - Len(s)]
      BY <1>1, <1>2, <2>2
    <3> QED
      BY <3>1
  <2> QED
    BY <1>2, <2>1, <2>2
<1>4. ASSUME NEW j \in 1..Len(s)
      PROVE  j \in 1..Len(s)+Len(t) /\ (s \o t)[j] = s[j]
  BY <1>1, <1>2
<1>5. ASSUME NEW j \in 1..Len(t)
      PROVE  j + Len(s) \in 1..Len(s)+Len(t) /\ (s \o t)[j + Len(s)] = t[j]
  BY <1>1, <1>2
<1> QED
  BY <1>1, <1>2, <1>3, <1>4, <1>5

\* mc_homing_cycle and user_defined_homing: the jobs of a command are for the axes it
\* names and for all of them, and nothing is homed that was not asked for.
LEMMA JobsFit ==
    ASSUME TypeOK, NEW mask \in SUBSET Axes, ~SettingError
    PROVE  LET wanted == IF mask = {} THEN UNION {build.cycle[i] : i \in 1..3} ELSE mask IN
           /\ Jobs(mask) \in Seq(JobType)
           /\ \A i \in DOMAIN Jobs(mask) :
                /\ Jobs(mask)[i].axes \subseteq wanted
                /\ Jobs(mask)[i].own => build.custom /\ Jobs(mask)[i].axes # {}
                /\ build.custom /\ mask # {} => Jobs(mask)[i].axes = mask
           /\ \A a \in wanted : \E i \in DOMAIN Jobs(mask) : a \in Jobs(mask)[i].axes
<1> DEFINE wanted == IF mask = {} THEN UNION {build.cycle[i] : i \in 1..3} ELSE mask
<1>1. build.cycle \in Seq(SUBSET Axes) /\ Len(build.cycle) = 3
  BY HomingAssumption DEF HomingAssumption, TypeOK
<1>2. \A i \in 1..3 : build.cycle[i] \in SUBSET Axes
  BY <1>1
<1>3. CASE mask # {}
  <2>1. Jobs(mask) = Pass(mask)
    BY <1>3 DEF Jobs, Pass
  <2> QED
    BY <1>3, <2>1, PassFits
<1>4. CASE mask = {}
  <2> DEFINE p1 == Pass(build.cycle[1])
             p2 == Pass(build.cycle[2])
             p3 == Pass(build.cycle[3])
  <2>1. Jobs(mask) = p1 \o p2 \o p3
    BY <1>4 DEF Jobs, Pass
  <2>2. p1 \in Seq(JobType) /\ p2 \in Seq(JobType) /\ p3 \in Seq(JobType)
    BY <1>2, PassFits
  <2>3. \A n \in 1..3 : \A i \in DOMAIN Pass(build.cycle[n]) :
          /\ Pass(build.cycle[n])[i].axes = build.cycle[n]
          /\ Pass(build.cycle[n])[i].own => build.custom /\ Pass(build.cycle[n])[i].axes # {}
    BY <1>2, PassFits
  <2>4. \A n \in 1..3 : build.cycle[n] # {} => 1 \in DOMAIN Pass(build.cycle[n])
    BY <1>2, PassFits
  <2> HIDE DEF p1, p2, p3
  <2>5. /\ p1 \o p2 \in Seq(JobType)
        /\ \A i \in DOMAIN (p1 \o p2) : \/ \E j \in DOMAIN p1 : (p1 \o p2)[i] = p1[j]
                                        \/ \E j \in DOMAIN p2 : (p1 \o p2)[i] = p2[j]
        /\ \A j \in DOMAIN p1 : \E i \in DOMAIN (p1 \o p2) : (p1 \o p2)[i] = p1[j]
        /\ \A j \in DOMAIN p2 : \E i \in DOMAIN (p1 \o p2) : (p1 \o p2)[i] = p2[j]
    BY <2>2, ConcatParts
  <2> DEFINE q == p1 \o p2
  <2>6. /\ q \o p3 \in Seq(JobType)
        /\ \A i \in DOMAIN (q \o p3) : \/ \E j \in DOMAIN q : (q \o p3)[i] = q[j]
                                       \/ \E j \in DOMAIN p3 : (q \o p3)[i] = p3[j]
        /\ \A j \in DOMAIN q : \E i \in DOMAIN (q \o p3) : (q \o p3)[i] = q[j]
        /\ \A j \in DOMAIN p3 : \E i \in DOMAIN (q \o p3) : (q \o p3)[i] = p3[j]
    <3>1. q \in Seq(JobType)
      BY <2>5
    <3> HIDE DEF q
    <3> QED
      BY <2>2, <3>1, ConcatParts
  <2>7. ASSUME NEW i \in DOMAIN (q \o p3)
        PROVE  \E n \in 1..3 : \E j \in DOMAIN Pass(build.cycle[n]) :
                 (q \o p3)[i] = Pass(build.cycle[n])[j]
    <3>1. \A j \in DOMAIN q : \/ \E k \in DOMAIN p1 : q[j] = p1[k]
                              \/ \E k \in DOMAIN p2 : q[j] = p2[k]
      BY <2>5
    <3>2. \/ \E j \in DOMAIN q : (q \o p3)[i] = q[j]
          \/ \E j \in DOMAIN p3 : (q \o p3)[i] = p3[j]
      BY <2>6
    <3> HIDE DEF q
    <3>3. \/ \E j \in DOMAIN p1 : (q \o p3)[i] = p1[j]
          \/ \E j \in DOMAIN p2 : (q \o p3)[i] = p2[j]
          \/ \E j \in DOMAIN p3 : (q \o p3)[i] = p3[j]
      BY <3>1, <3>2
    <3> QED
      BY <3>3 DEF p1, p2, p3
  <2>8. ASSUME NEW n \in 1..3, NEW j \in DOMAIN Pass(build.cycle[n])
        PROVE  \E i \in DOMAIN (q \o p3) : (q \o p3)[i] = Pass(build.cycle[n])[j]
    <3>1. CASE n = 1
      <4>1. j \in DOMAIN p1 /\ Pass(build.cycle[n])[j] = p1[j]
        BY <3>1 DEF p1
      <4> QED
        BY <2>5, <2>6, <4>1, SMTT(60)
    <3>2. CASE n = 2
      <4>1. j \in DOMAIN p2 /\ Pass(build.cycle[n])[j] = p2[j]
        BY <3>2 DEF p2
      <4> QED
        BY <2>5, <2>6, <4>1
    <3>3. CASE n = 3
      BY <2>6, <3>3 DEF p3
    <3> QED
      BY <3>1, <3>2, <3>3
  <2>9. Jobs(mask) = q \o p3 /\ wanted = UNION {build.cycle[i] : i \in 1..3}
    BY <1>4, <2>1
  <2> HIDE DEF q
  <2>10. \A i \in DOMAIN Jobs(mask) :
           /\ Jobs(mask)[i].axes \subseteq wanted
           /\ Jobs(mask)[i].own => build.custom /\ Jobs(mask)[i].axes # {}
    BY <2>3, <2>7, <2>9
  <2>11. \A a \in wanted : \E i \in DOMAIN Jobs(mask) : a \in Jobs(mask)[i].axes
    <3> TAKE a \in wanted
    <3>1. PICK n \in 1..3 : a \in build.cycle[n]
      BY <2>9
    <3>2. 1 \in DOMAIN Pass(build.cycle[n]) /\ Pass(build.cycle[n])[1].axes = build.cycle[n]
      BY <2>3, <2>4, <3>1
    <3>3. PICK i \in DOMAIN (q \o p3) : (q \o p3)[i] = Pass(build.cycle[n])[1]
      BY <2>8, <3>1, <3>2
    <3>4. Jobs(mask)[i].axes = build.cycle[n] /\ i \in DOMAIN Jobs(mask)
      BY <2>9, <3>2, <3>3
    <3> QED
      BY <3>1, <3>4
  <2> QED
    BY <1>4, <2>6, <2>9, <2>10, <2>11
<1> QED
  BY <1>3, <1>4
\* The job at hand and those that are left.
LEMMA CurrentFits ==
    ASSUME TypeOK, task.at \in Working \/ (task.at = "next" /\ task.jobs # <<>>)
    PROVE  /\ task.jobs \in Seq(JobType) /\ Current \in JobType /\ 1 \in DOMAIN task.jobs
           /\ Tail(task.jobs) \in Seq(JobType)
           /\ \A i \in DOMAIN task.jobs :
                i = 1 \/ \E k \in DOMAIN Tail(task.jobs) : Tail(task.jobs)[k] = task.jobs[i]
           /\ \A k \in DOMAIN Tail(task.jobs) :
                \E i \in DOMAIN task.jobs : Tail(task.jobs)[k] = task.jobs[i]
<1>1. task.jobs \in Seq(JobType) /\ task.jobs # <<>>
  BY TaskShape DEF AtJob, Between
<1> DEFINE s == task.jobs
<1> HIDE DEF s
<1>2. s \in Seq(JobType) /\ s # <<>>
  BY <1>1 DEF s
<1>3. /\ Len(s) \in Nat /\ Len(s) > 0 /\ DOMAIN s = 1..Len(s)
      /\ Tail(s) \in Seq(JobType) /\ DOMAIN Tail(s) = 1..Len(s)-1
      /\ \A k \in 1..Len(s)-1 : Tail(s)[k] = s[k+1]
  BY <1>2
<1>4. ASSUME NEW i \in 1..Len(s), i # 1
      PROVE  i - 1 \in 1..Len(s)-1 /\ Tail(s)[i - 1] = s[i]
  <2>1. i - 1 \in 1..Len(s)-1 /\ (i - 1) + 1 = i
    BY <1>3, <1>4
  <2> QED
    BY <1>3, <2>1
<1>5. ASSUME NEW k \in 1..Len(s)-1
      PROVE  k + 1 \in 1..Len(s) /\ Tail(s)[k] = s[k + 1]
  BY <1>3
<1>6. 1 \in 1..Len(s) /\ s[1] \in JobType
  BY <1>2, <1>3
<1> QED
  BY <1>1, <1>2, <1>3, <1>4, <1>5, <1>6 DEF s, Current

\* The setting of the cycles and the command stay what they are.
LEMMA CommandStays ==
    ASSUME UNCHANGED build, task'.mask = task.mask
    PROVE  /\ Wanted' = Wanted /\ (SettingError' <=> SettingError) /\ (Looked' <=> Looked)
BY DEF Wanted, SettingError, Looked

\* Travels and starting distances are counted in pulses.
LEMMA LengthsType == Search \in Nat /\ Pulloff \in Nat /\ Locate \in Nat /\ Starts \subseteq Nat
BY HomingAssumption DEF HomingAssumption

\* The origin and the homed position are positions.
LEMMA ConstantVectors == Origin \in Vectors /\ HomedAt \in Vectors
BY DEF Origin, HomedAt, Vectors, Axes

\* The two-motor conversion of user_defined_homing gives a position.
LEMMA HomingMotorsType == \A v \in Vectors : HomingMotors(v) \in Vectors
BY DEF HomingMotors, Vectors, Axes

-----------------------------------------------------------------------------
(* The steps of the main task.                                             *)

\* Nothing is homed at power-up, and no motor turns.
LEMMA InitInv == Init => HomingInv
<1> SUFFICES ASSUME Init PROVE HomingInv
  OBVIOUS
<1>1. /\ motors = Stopped /\ flags = NoFlags /\ mode = "Idle" /\ abort = FALSE /\ task = Idle
      /\ position = Origin /\ found = {} /\ before = Origin
      /\ budget = [homes |-> MaxHomes, events |-> MaxEvents]
  BY DEF Init
<1>2. PICK custom \in Builds, c \in Cycles, f \in [Axes -> Faults] :
        build = [custom |-> custom, kin |-> IF custom THEN "CoreXY" ELSE "Cartesian",
                 cycle |-> c, fault |-> f]
  BY DEF Init
<1>3. build \in [custom: BOOLEAN, kin: Modes, cycle: Cycles, fault: [Axes -> Faults]]
  BY <1>2, HomingAssumption DEF HomingAssumption, Modes
<1>4. distance \in [Axes -> Int]
  <2>1. distance \in [Axes -> Starts] /\ Starts \subseteq Int
    BY LengthsType DEF Init
  <2> QED
    BY <2>1
<1>5. TypeOK
  <2>1. /\ motors \in [running: BOOLEAN, moving: SUBSET Axes, lock: SUBSET Axes,
                       toward: BOOLEAN, left: Nat]
        /\ flags \in [reset: BOOLEAN, door: BOOLEAN, stopped: BOOLEAN, alarm: Alarms]
    BY <1>1 DEF Stopped, NoFlags, Alarms
  <2>2. budget \in [homes: Int, events: Int]
    BY <1>1, HomingAssumption DEF HomingAssumption
  <2> QED
    BY <1>1, <1>3, <1>4, <2>1, <2>2, ConstantVectors DEF TypeOK
<1>6. task.at = "idle" /\ ~motors.running
  BY <1>1 DEF Idle, Stopped
<1> QED
  BY <1>1, <1>5, <1>6 DEF HomingInv, FitInv, ModeInv, MotionInv, JobInv, ProgressInv, Alive, Working

\* $H fixes the axes that are wanted; a broken setting is refused at once.
LEMMA HomeCommandInv == ASSUME HomingInv, HomeCommand PROVE HomingInv'
<1>1. TypeOK /\ MotionInv
  BY DEF HomingInv
<1>2. /\ task = Idle /\ ~abort /\ flags = NoFlags /\ mode' = "Homing"
      /\ found' = {} /\ before' = position /\ budget' = [budget EXCEPT !.homes = @ - 1]
      /\ UNCHANGED <<build, distance, motors, flags, abort, position, planner, parser>>
  BY DEF HomeCommand
<1>3. PICK mask \in SUBSET Axes :
        task' = [at |-> IF SettingError THEN "return" ELSE "next", mask |-> mask, jobs |-> Jobs(mask)]
  BY DEF HomeCommand, Axes
<1>4. Jobs(mask) \in Seq(JobType)
  <2>1. CASE SettingError
    BY <2>1 DEF Jobs
  <2>2. CASE ~SettingError
    BY <1>1, <2>2, JobsFit
  <2> QED
    BY <2>1, <2>2
<1>5. task' \in Between /\ task'.mask = mask /\ task'.jobs = Jobs(mask)
      /\ task'.at = (IF SettingError THEN "return" ELSE "next")
  BY <1>3, <1>4 DEF Between
<1>6. TypeOK'
  BY <1>1, <1>2, <1>5 DEF TypeOK
<1>7. task'.at \notin Working /\ task' # Idle
  BY <1>5 DEF Working, Idle
<1>8. ~motors'.running
  BY <1>1, <1>2 DEF MotionInv, Working, Idle
<1>9. ModeInv'
  BY <1>2, <1>7 DEF ModeInv, Alive, NoFlags
<1>10. MotionInv' /\ JobInv'
  BY <1>7, <1>8 DEF MotionInv, JobInv
<1>11. (SettingError' <=> SettingError)
       /\ Wanted' = IF mask = {} THEN UNION {build.cycle[i] : i \in 1..3} ELSE mask
  BY <1>2, <1>5 DEF SettingError, Wanted
<1>12. CASE SettingError
  <2>1. build.custom
    BY <1>12 DEF SettingError
  <2> QED
    BY <1>2, <1>5, <1>6, <1>9, <1>10, <1>11, <1>12, <2>1
       DEF HomingInv, FitInv, ProgressInv, Working
<1>13. CASE ~SettingError
  <2>1. /\ \A i \in DOMAIN Jobs(mask) :
             /\ Jobs(mask)[i].axes \subseteq Wanted'
             /\ Jobs(mask)[i].own => build.custom /\ Jobs(mask)[i].axes # {}
             /\ build.custom /\ mask # {} => Jobs(mask)[i].axes = mask
        /\ \A a \in Wanted' : \E i \in DOMAIN Jobs(mask) : a \in Jobs(mask)[i].axes
    BY <1>1, <1>11, <1>13, JobsFit
  <2>2. FitInv'
    BY <1>2, <1>5, <1>11, <1>13, <2>1 DEF FitInv, Fits
  <2>3. \A a \in Wanted' : Pending(a)'
    BY <1>5, <1>13, <2>1 DEF Pending
  <2>4. ProgressInv'
    BY <1>2, <1>5, <1>11, <1>13, <2>3 DEF ProgressInv
  <2> QED
    BY <1>6, <1>9, <1>10, <2>2, <2>4 DEF HomingInv
<1> QED
  BY <1>12, <1>13

\* The next job is taken: an empty one is skipped, and no axis is forgotten.
LEMMA BeginInv == ASSUME HomingInv, Begin PROVE HomingInv'
<1>1. TypeOK /\ FitInv /\ ModeInv /\ MotionInv /\ ProgressInv
  BY DEF HomingInv
<1>2. /\ task.at = "next"
      /\ UNCHANGED <<build, distance, motors, flags, mode, abort, position, planner, parser,
                     found, before, budget>>
  BY DEF Begin
<1>3. task \in Between /\ task # Idle
  BY <1>1, <1>2, TaskShape DEF Idle
<1>4. Engaged' = Engaged
  BY <1>2 DEF Engaged
<1>5. ~abort => ~motors.running
  BY <1>1, <1>2 DEF MotionInv, Working
<1>6. /\ ~SettingError
      /\ \A i \in DOMAIN task.jobs : Fits(task.jobs[i], build.custom, task.mask, Wanted)
  BY <1>1, <1>2 DEF FitInv
<1>7. ~abort => /\ \A a \in Wanted : Homed(a) \/ Pending(a)
                /\ ~build.custom => \A a \in Axes \ Wanted : position[a] = before[a]
  BY <1>1, <1>3, <1>6 DEF ProgressInv, Alive
<1>8. CASE task.jobs = <<>>
  <2>1. task' = [at |-> "end", mask |-> task.mask]
    BY <1>8 DEF Begin
  <2>2. task' \in Ending /\ task'.at = "end" /\ task'.mask = task.mask /\ task' # Idle
    BY <1>3, <2>1 DEF Between, Ending, Idle
  <2>3. TypeOK' /\ FitInv'
    BY <1>1, <1>2, <2>2 DEF TypeOK, FitInv, Working
  <2>4. ModeInv' /\ MotionInv' /\ JobInv'
    BY <1>1, <1>2, <1>3, <1>5, <2>2 DEF ModeInv, MotionInv, JobInv, Working, Alive
  <2>5. ProgressInv'
    <3>1. \A a : ~Pending(a)
      BY <1>8 DEF Pending
    <3>2. \A a : Homed(a)' <=> Homed(a)
      BY <1>2, <1>4, <2>2, CommandStays DEF Homed
    <3>3. ~SettingError' /\ Wanted' = Wanted
      BY <1>2, <1>6, <2>2, CommandStays
    <3> QED
      BY <1>2, <1>7, <2>2, <3>1, <3>2, <3>3 DEF ProgressInv, Alive
  <2> QED
    BY <2>3, <2>4, <2>5 DEF HomingInv
<1>9. CASE task.jobs # <<>>
  <2>1. /\ task.jobs \in Seq(JobType) /\ Current \in JobType /\ 1 \in DOMAIN task.jobs
        /\ Tail(task.jobs) \in Seq(JobType)
        /\ \A i \in DOMAIN task.jobs :
             i = 1 \/ \E k \in DOMAIN Tail(task.jobs) : Tail(task.jobs)[k] = task.jobs[i]
        /\ \A k \in DOMAIN Tail(task.jobs) :
             \E i \in DOMAIN task.jobs : Tail(task.jobs)[k] = task.jobs[i]
    BY <1>1, <1>2, <1>9, CurrentFits
  <2>2. CASE Blocked(Current)
    <3>1. task' = NextJob
      BY <1>9, <2>2 DEF Begin
    <3>2. task' \in Between /\ task'.at = "next" /\ task'.mask = task.mask /\ task' # Idle
          /\ task'.jobs = Tail(task.jobs)
      BY <1>3, <2>1, <3>1 DEF Between, NextJob, Idle
    <3>3. TypeOK'
      BY <1>1, <1>2, <3>2 DEF TypeOK
    <3>4. ModeInv' /\ MotionInv' /\ JobInv'
      BY <1>1, <1>2, <1>3, <1>5, <3>2 DEF ModeInv, MotionInv, JobInv, Working, Alive
    <3>5. ~SettingError' /\ Wanted' = Wanted
      BY <1>2, <1>6, <3>2, CommandStays
    <3>6. FitInv'
      BY <1>2, <1>6, <2>1, <3>2, <3>5 DEF FitInv
    <3>7. ASSUME ~abort PROVE ProgressInv'
      <4>1. Current.axes = {}
        BY <2>2, <3>7 DEF Blocked
      <4>2. ASSUME NEW a, Pending(a) PROVE Pending(a)'
        <5>1. PICK i \in DOMAIN task.jobs : a \in task.jobs[i].axes
          BY <4>2 DEF Pending
        <5>2. i # 1
          BY <4>1, <5>1 DEF Current
        <5>3. PICK k \in DOMAIN Tail(task.jobs) : Tail(task.jobs)[k] = task.jobs[i]
          BY <2>1, <5>2
        <5> QED
          BY <3>2, <5>1, <5>3 DEF Pending
      <4>3. \A a : Homed(a)' <=> Homed(a)
        BY <1>2, <1>4, <3>2, CommandStays DEF Homed
      <4> QED
        BY <1>2, <1>7, <3>2, <3>5, <3>7, <4>2, <4>3 DEF ProgressInv
    <3> QED
      BY <1>2, <3>3, <3>4, <3>6, <3>7 DEF HomingInv, ProgressInv, Alive
  <2>3. CASE ~Blocked(Current)
    <3>1. task' = [at |-> "plan", mask |-> task.mask, jobs |-> task.jobs, approach |-> TRUE,
                   travel |-> Search, count |-> 2 * Current.locate + 2, lock |-> {}]
      BY <1>9, <2>3 DEF Begin
    <3>2. Current.locate \in {0, 1} /\ 2 * Current.locate + 2 \in {2, 4}
      BY <2>1 DEF JobType
    <3>3. /\ task'.at = "plan" /\ task'.mask = task.mask /\ task'.jobs = task.jobs
          /\ task'.approach = TRUE /\ task'.travel = Search /\ task'.lock = {}
          /\ task'.count = 2 * Current.locate + 2 /\ task' # Idle
      BY <3>1 DEF Idle
    <3>4. task' \in AtJob
      BY <1>3, <1>9, <2>1, <3>1, <3>2 DEF Between, AtJob, Working
    <3>5. TypeOK'
      BY <1>1, <1>2, <3>4 DEF TypeOK
    <3>6. Current' = Current
      BY <3>3 DEF Current
    <3>7. (~abort \/ Current.own) /\ (Current.axes # {} \/ Current.own)
      BY <2>3 DEF Blocked
    <3>8. (Current.own => build.custom /\ Current.axes # {})
      BY <1>6, <2>1 DEF Current, Fits
    <3>9. ~SettingError' /\ Wanted' = Wanted
      BY <1>2, <1>6, <3>3, CommandStays
    <3>10. FitInv'
      BY <1>2, <1>6, <3>3, <3>9 DEF FitInv
    <3>11. ModeInv' /\ MotionInv'
      BY <1>1, <1>2, <1>3, <1>5, <3>3, <3>7, <3>8 DEF ModeInv, MotionInv, Working, Alive
    <3>12. JobInv'
      BY <3>2, <3>3, <3>6, <3>7, <3>8 DEF JobInv
    <3>13. ProgressInv'
      <4>1. \A a : Homed(a)' <=> Homed(a)
        BY <1>2, <1>4, <3>3, CommandStays DEF Homed
      <4>2. \A a : Pending(a)' <=> Pending(a)
        BY <1>2, <3>3 DEF Pending
      <4> QED
        BY <1>2, <1>7, <3>3, <3>9, <4>1, <4>2 DEF ProgressInv, Alive
    <3> QED
      BY <3>5, <3>10, <3>11, <3>12, <3>13 DEF HomingInv
  <2> QED
    BY <2>2, <2>3
<1> QED
  BY <1>8, <1>9
\* A step within a job: what is done to the axes of the job is not known yet, the
\* others stay homed, or still to come.
LEMMA WithinJob ==
    ASSUME HomingInv, task.at \in Working, task'.at \in Working,
           UNCHANGED <<build, before, abort>>,
           task'.mask = task.mask, task'.jobs = task.jobs, task # Idle, task' # Idle,
           ~abort =>
             \A a \in Axes \ Current.axes :
               /\ a \in found => a \in found'
               /\ a \in Engaged' => a \in Engaged
               /\ ~build.custom => position'[a] = position[a]
    PROVE  FitInv' /\ ProgressInv' /\ Current' = Current
<1>1. TypeOK /\ FitInv /\ ProgressInv
  BY DEF HomingInv
<1>2. Current \in JobType /\ 1 \in DOMAIN task.jobs
  BY <1>1, CurrentFits
<1>3. /\ ~SettingError
      /\ \A i \in DOMAIN task.jobs : Fits(task.jobs[i], build.custom, task.mask, Wanted)
  BY <1>1 DEF FitInv
<1>4. ~SettingError' /\ Wanted' = Wanted /\ (Looked' <=> Looked)
  BY <1>3, CommandStays
<1>5. FitInv'
  BY <1>3, <1>4 DEF FitInv
<1>6. Current.axes \subseteq Wanted /\ Wanted \subseteq Axes
  BY <1>1, <1>2, <1>3, WantedType DEF Fits, Current
<1>7. \A a : Pending(a)' <=> Pending(a)
  BY DEF Pending, Working
<1>8. \A a \in Current.axes : Pending(a)
  BY <1>2 DEF Pending, Current, Working
<1>9. ASSUME ~abort, NEW a \in Axes \ Current.axes, Homed(a) PROVE Homed(a)'
  BY <1>4, <1>9 DEF Homed
<1>10. ASSUME ~abort PROVE ProgressInv'
  <2>1. \A a \in Wanted : Homed(a) \/ Pending(a)
    BY <1>1, <1>3, <1>10 DEF ProgressInv, Alive
  <2>2. \A a \in Wanted : Homed(a)' \/ Pending(a)'
    BY <1>6, <1>7, <1>8, <1>9, <1>10, <2>1
  <2>3. ~build.custom => \A a \in Axes \ Wanted : position[a] = before[a]
    BY <1>1, <1>10 DEF ProgressInv, Alive
  <2>4. ~build.custom => \A a \in Axes \ Wanted : position'[a] = before[a]
    BY <1>6, <1>10, <2>3
  <2> QED
    BY <1>4, <2>2, <2>4 DEF ProgressInv, Working
<1>11. ProgressInv'
  BY <1>10 DEF ProgressInv, Alive
<1> QED
  BY <1>5, <1>11 DEF Current

\* A phase of the job starts its motors, for the axes still locked.
LEMMA PlanInv == ASSUME HomingInv, Plan PROVE HomingInv'
<1>1. TypeOK /\ ModeInv /\ MotionInv /\ JobInv
  BY DEF HomingInv
<1>2. /\ task.at = "plan"
      /\ position' = [a \in Axes |->
            IF a \in (IF Current.own THEN {"X", "Y"} ELSE Current.axes) THEN 0 ELSE position[a]]
      /\ motors' = [running |-> TRUE, moving |-> Current.axes, lock |-> Current.axes,
                    toward |-> task.approach, left |-> task.travel]
      /\ task' = [task EXCEPT !.at = "look", !.lock = Current.axes]
      /\ found' = IF task.approach THEN found \ Current.axes ELSE found
      /\ UNCHANGED <<build, distance, flags, mode, abort, planner, parser, before, budget>>
  BY DEF Plan
<1>3. task \in AtJob /\ task # Idle
  BY <1>1, <1>2, TaskShape DEF Idle, Working
<1>4. Current \in JobType
  BY <1>1, <1>2, CurrentFits DEF Working
<1>5. Current.axes \in SUBSET Axes /\ task.travel \in Nat /\ task.approach \in BOOLEAN
  BY <1>3, <1>4, LengthsType DEF JobType, AtJob
<1>6. /\ task' \in AtJob /\ task'.at = "look" /\ task'.mask = task.mask /\ task'.jobs = task.jobs
      /\ task'.approach = task.approach /\ task'.count = task.count /\ task'.lock = Current.axes
      /\ task' # Idle
  BY <1>2, <1>3, <1>5 DEF AtJob, Idle, Working
<1>7. TypeOK'
  <2>1. position' \in Vectors
    BY <1>1, <1>2 DEF TypeOK, Vectors
  <2>2. motors' \in [running: BOOLEAN, moving: SUBSET Axes, lock: SUBSET Axes,
                     toward: BOOLEAN, left: Nat]
    BY <1>2, <1>5
  <2> QED
    BY <1>1, <1>2, <1>6, <2>1, <2>2 DEF TypeOK
<1>8. Engaged' = Engaged
  BY <1>2 DEF Engaged
<1>9. ~build.custom => ~Current.own
  <2>1. Fits(Current, build.custom, task.mask, Wanted)
    BY <1>1, <1>2, CurrentFits DEF HomingInv, FitInv, Working, Current
  <2> QED
    BY <2>1 DEF Fits
<1>10. \A a \in Axes \ Current.axes :
         /\ a \in found => a \in found'
         /\ ~build.custom => position'[a] = position[a]
  BY <1>2, <1>9
<1>11. FitInv' /\ ProgressInv' /\ Current' = Current
  BY <1>2, <1>3, <1>6, <1>8, <1>10, WithinJob DEF Working
<1>12. ModeInv' /\ MotionInv'
  BY <1>1, <1>2, <1>3, <1>6, <1>11 DEF ModeInv, MotionInv, Alive, Working
<1>13. JobInv'
  BY <1>1, <1>2, <1>3, <1>6, <1>11 DEF JobInv, Alive, Working
<1> QED
  BY <1>7, <1>11, <1>12, <1>13 DEF HomingInv

\* An axis whose switch is seen leaves the lock, and counts as found.
LEMMA LookInv == ASSUME HomingInv, Look PROVE HomingInv'
<1>1. TypeOK /\ ModeInv /\ MotionInv /\ JobInv
  BY DEF HomingInv
<1>2. PICK lock : /\ lock = IF task.approach THEN task.lock \ Engaged ELSE task.lock
                  /\ task' = [task EXCEPT !.at = "check", !.lock = lock]
                  /\ motors' = IF Current.own THEN motors ELSE [motors EXCEPT !.lock = @ \cap lock]
                  /\ found' = found \cup (task.lock \ lock)
  BY DEF Look
<1>3. /\ task.at = "look"
      /\ UNCHANGED <<build, distance, flags, mode, abort, position, planner, parser, before, budget>>
  BY DEF Look
<1>4. task \in AtJob /\ task # Idle
  BY <1>1, <1>3, TaskShape DEF Idle, Working
<1>5. lock \in SUBSET Axes /\ task.lock \in SUBSET Axes
  BY <1>2, <1>4 DEF AtJob
<1>6. /\ task' \in AtJob /\ task'.at = "check" /\ task'.mask = task.mask /\ task'.jobs = task.jobs
      /\ task'.approach = task.approach /\ task'.count = task.count /\ task'.lock = lock
      /\ task' # Idle
  BY <1>2, <1>4, <1>5 DEF AtJob, Idle, Working
<1>7. /\ motors'.running = motors.running /\ motors'.moving = motors.moving
      /\ motors'.toward = motors.toward /\ motors'.lock \subseteq motors.lock
      /\ motors' \in [running: BOOLEAN, moving: SUBSET Axes, lock: SUBSET Axes,
                       toward: BOOLEAN, left: Nat]
  <2>1. motors \in [running: BOOLEAN, moving: SUBSET Axes, lock: SUBSET Axes,
                     toward: BOOLEAN, left: Nat]
    BY <1>1 DEF TypeOK
  <2>2. CASE motors' = motors
    BY <2>1, <2>2
  <2>3. CASE motors' = [motors EXCEPT !.lock = @ \cap lock]
    BY <2>1, <2>3
  <2> QED
    BY <1>2, <2>2, <2>3
<1>8. TypeOK'
  BY <1>1, <1>2, <1>3, <1>5, <1>6, <1>7 DEF TypeOK
<1>9. Engaged' = Engaged
  BY <1>3 DEF Engaged
<1>10. FitInv' /\ ProgressInv' /\ Current' = Current
  BY <1>2, <1>3, <1>4, <1>6, <1>9, WithinJob DEF Working
<1>11. ModeInv' /\ MotionInv'
  BY <1>1, <1>3, <1>4, <1>6, <1>7, <1>10 DEF ModeInv, MotionInv, Alive, Working
<1>12. JobInv'
  BY <1>1, <1>2, <1>3, <1>4, <1>6, <1>10 DEF JobInv, Alive, Working
<1> QED
  BY <1>8, <1>10, <1>11, <1>12 DEF HomingInv

\* Homing that fails is aborted, and then nothing is claimed but the state of the machine.
LEMMA Failed ==
    ASSUME TypeOK', FitInv', abort', mode' # "Homing",
           ~build'.custom => task'.at \notin Working
    PROVE  HomingInv'
BY DEF HomingInv, ModeInv, MotionInv, JobInv, ProgressInv, Alive

\* A pull-off that ends on a switch, a missed approach, the door or a reset fails the job.
LEMMA CheckInv == ASSUME HomingInv, Check PROVE HomingInv'
<1>1. TypeOK /\ FitInv /\ ModeInv /\ MotionInv /\ JobInv
  BY DEF HomingInv
<1>2. /\ task.at = "check"
      /\ UNCHANGED <<build, distance, position, planner, parser, found, before, budget>>
  BY DEF Check
<1>3. task \in AtJob /\ task # Idle
  BY <1>1, <1>2, TaskShape DEF Idle, Working
<1>4. /\ Current \in JobType /\ 1 \in DOMAIN task.jobs /\ Tail(task.jobs) \in Seq(JobType)
      /\ \A k \in DOMAIN Tail(task.jobs) :
           \E i \in DOMAIN task.jobs : Tail(task.jobs)[k] = task.jobs[i]
  BY <1>1, <1>2, CurrentFits DEF Working
<1>5. Engaged' = Engaged
  BY <1>2 DEF Engaged
<1>6. /\ ~SettingError
      /\ \A i \in DOMAIN task.jobs : Fits(task.jobs[i], build.custom, task.mask, Wanted)
  BY <1>1, <1>2 DEF FitInv, Working
<1> DEFINE checked == IF Current.own THEN task.mask ELSE Current.axes
           alarm == NewAlarm(checked)
<1>7. CASE ~(flags.door \/ flags.reset \/ flags.stopped)
  <2>1. /\ task' = [task EXCEPT !.at = IF task.lock = {} THEN "stop" ELSE "look"]
        /\ UNCHANGED <<motors, flags, mode, abort>>
    BY <1>7 DEF Check
  <2>2. /\ task' \in AtJob /\ task'.at = (IF task.lock = {} THEN "stop" ELSE "look")
        /\ task'.mask = task.mask /\ task'.jobs = task.jobs
        /\ task'.approach = task.approach /\ task'.count = task.count /\ task'.lock = task.lock
        /\ task' # Idle
    BY <1>3, <2>1 DEF AtJob, Idle, Working
  <2>3. FitInv' /\ ProgressInv' /\ Current' = Current
    BY <1>2, <1>3, <1>5, <2>1, <2>2, WithinJob DEF Working
  <2>4. ModeInv' /\ MotionInv' /\ TypeOK'
    BY <1>1, <1>2, <1>3, <2>1, <2>2, <2>3 DEF ModeInv, MotionInv, TypeOK, Alive, Working
  <2>5. JobInv'
    BY <1>1, <1>2, <1>3, <2>1, <2>2, <2>3 DEF JobInv, Alive, Working
  <2> QED
    BY <2>3, <2>4, <2>5 DEF HomingInv
<1>8. CASE (flags.door \/ flags.reset \/ flags.stopped) /\ alarm = "None"
  <2>1. /\ task' = [task EXCEPT !.at = "stop"] /\ flags' = [flags EXCEPT !.stopped = FALSE]
        /\ UNCHANGED <<motors, mode, abort>>
    BY <1>8 DEF Check
  <2>2. /\ task' \in AtJob /\ task'.at = "stop" /\ task'.mask = task.mask /\ task'.jobs = task.jobs
        /\ task'.approach = task.approach /\ task'.count = task.count /\ task'.lock = task.lock
        /\ task' # Idle
    BY <1>3, <2>1 DEF AtJob, Idle, Working
  <2>3. FitInv' /\ ProgressInv' /\ Current' = Current
    BY <1>2, <1>3, <1>5, <2>1, <2>2, WithinJob DEF Working
  <2>4. /\ flags'.reset = flags.reset /\ flags'.alarm = flags.alarm
        /\ flags' \in [reset: BOOLEAN, door: BOOLEAN, stopped: BOOLEAN, alarm: Alarms]
    BY <1>1, <2>1 DEF TypeOK
  <2>5. ModeInv' /\ MotionInv' /\ TypeOK'
    BY <1>1, <1>2, <1>3, <2>1, <2>2, <2>3, <2>4 DEF ModeInv, MotionInv, TypeOK, Alive, Working
  <2>6. ~task.approach /\ Engaged \cap checked = {}
    BY <1>8 DEF NewAlarm
  <2>7. Looked => Engaged \cap Current.axes = {}
    <3>1. Fits(Current, build.custom, task.mask, Wanted)
      BY <1>4, <1>6 DEF Current
    <3> QED
      BY <2>6, <3>1 DEF Fits, Looked
  <2>8. Looked' <=> Looked
    BY <1>2, <2>2, CommandStays
  <2>9. JobInv'
    BY <1>1, <1>2, <1>3, <1>5, <2>1, <2>2, <2>3, <2>6, <2>7, <2>8 DEF JobInv, Alive, Working
  <2> QED
    BY <2>3, <2>5, <2>9 DEF HomingInv
<1>9. CASE (flags.door \/ flags.reset \/ flags.stopped) /\ alarm # "None"
  <2>1. /\ task' = IF Current.own THEN [at |-> "return", mask |-> task.mask] ELSE NextJob
        /\ motors' = IF flags.reset THEN motors ELSE Stopped
        /\ flags' = [flags EXCEPT !.reset = TRUE, !.alarm = "None"]
        /\ mode' = "Alarm" /\ abort' = TRUE
    BY <1>9 DEF Check
  <2>2. task.mask \in SUBSET Axes
    BY <1>3 DEF AtJob
  <2>3. CASE Current.own
    <3>1. task' \in Ending /\ task'.at = "return"
      BY <2>1, <2>2, <2>3 DEF Ending
    <3>2. TypeOK'
      BY <1>1, <1>2, <2>1, <3>1 DEF TypeOK, Stopped, Alarms
    <3> QED
      BY <2>1, <3>1, <3>2, Failed DEF FitInv, Working
  <2>4. CASE ~Current.own
    <3>1. task' \in Between /\ task'.at = "next" /\ task'.mask = task.mask
          /\ task'.jobs = Tail(task.jobs)
      BY <1>4, <2>1, <2>2, <2>4 DEF Between, NextJob
    <3>2. TypeOK'
      BY <1>1, <1>2, <2>1, <3>1 DEF TypeOK, Stopped, Alarms
    <3>3. ~SettingError' /\ Wanted' = Wanted
      BY <1>2, <1>6, <3>1, CommandStays
    <3>4. FitInv'
      BY <1>2, <1>4, <1>6, <3>1, <3>3 DEF FitInv
    <3> QED
      BY <2>1, <3>1, <3>2, <3>4, Failed DEF Working
  <2> QED
    BY <2>3, <2>4
<1> QED
  BY <1>7, <1>8, <1>9
\* Approach and pull-off alternate; the last pull-off sets the position of the axes.
LEMMA StopInv == ASSUME HomingInv, Stop PROVE HomingInv'
<1>1. TypeOK /\ FitInv /\ ModeInv /\ MotionInv /\ JobInv /\ ProgressInv
  BY DEF HomingInv
<1>2. /\ task.at = "stop" /\ motors' = Stopped
      /\ UNCHANGED <<build, distance, flags, mode, abort, planner, parser, found, before, budget>>
  BY DEF Stop
<1>3. task \in AtJob /\ task # Idle
  BY <1>1, <1>2, TaskShape DEF Idle, Working
<1>4. /\ Current \in JobType /\ 1 \in DOMAIN task.jobs /\ Tail(task.jobs) \in Seq(JobType)
      /\ \A i \in DOMAIN task.jobs :
           i = 1 \/ \E k \in DOMAIN Tail(task.jobs) : Tail(task.jobs)[k] = task.jobs[i]
      /\ \A k \in DOMAIN Tail(task.jobs) :
           \E i \in DOMAIN task.jobs : Tail(task.jobs)[k] = task.jobs[i]
  BY <1>1, <1>2, CurrentFits DEF Working
<1>5. Engaged' = Engaged
  BY <1>2 DEF Engaged
<1>6. task.count \in 1..4 /\ task.approach \in BOOLEAN
  BY <1>3 DEF AtJob
<1>7. motors' \in [running: BOOLEAN, moving: SUBSET Axes, lock: SUBSET Axes,
                   toward: BOOLEAN, left: Nat] /\ ~motors'.running
  BY <1>2 DEF Stopped
<1>8. CASE task.count > 1
  <2>1. /\ task' = [task EXCEPT !.at = "plan", !.approach = ~@, !.count = @ - 1,
                                !.travel = IF task.approach THEN Pulloff ELSE Locate]
        /\ UNCHANGED position
    BY <1>8 DEF Stop
  <2>2. task.count - 1 \in 1..4
    BY <1>6, <1>8
  <2>3. /\ task' \in AtJob /\ task'.at = "plan" /\ task'.mask = task.mask /\ task'.jobs = task.jobs
        /\ task'.approach = ~task.approach /\ task'.count = task.count - 1 /\ task'.lock = task.lock
        /\ task' # Idle
    BY <1>3, <1>6, <2>1, <2>2 DEF AtJob, Idle, Working
  <2>4. FitInv' /\ ProgressInv' /\ Current' = Current
    BY <1>2, <1>3, <1>5, <2>1, <2>3, WithinJob DEF Working
  <2>5. ModeInv' /\ MotionInv' /\ TypeOK'
    BY <1>1, <1>2, <1>3, <1>7, <2>1, <2>3, <2>4 DEF ModeInv, MotionInv, TypeOK, Alive, Working
  <2>6. ASSUME ~abort PROVE JobInv'
    <3>1. /\ Current.axes # {} /\ (task.approach <=> task.count \in {2, 4})
          /\ Current.axes \subseteq found
      BY <1>1, <1>2, <1>3, <2>6 DEF JobInv, Alive, Working
    <3>2. task'.approach <=> task'.count \in {2, 4}
      <4>1. task.count - 1 \in {2, 4} <=> ~(task.count \in {2, 4})
        <5>1. task.count = 2 \/ task.count = 3 \/ task.count = 4
          BY <1>6, <1>8
        <5> QED
          BY <5>1
      <4>2. task'.count \in {2, 4} <=> ~(task.count \in {2, 4})
        BY <2>3, <4>1
      <4>3. task'.approach <=> ~task.approach
        BY <2>3
      <4> QED
        BY <3>1, <4>2, <4>3
    <3> QED
      BY <1>2, <2>3, <2>4, <3>1, <3>2 DEF JobInv
  <2> QED
    BY <1>2, <2>4, <2>5, <2>6 DEF HomingInv, JobInv, Alive
<1>9. CASE ~(task.count > 1)
  <2>1. /\ task' = NextJob
        /\ position' = IF Current.own THEN position
                       ELSE [a \in Axes |-> IF a \in Current.axes THEN HomedAt[a]
                                            ELSE position[a]]
    BY <1>9 DEF Stop
  <2>2. task' \in Between /\ task'.at = "next" /\ task'.mask = task.mask /\ task' # Idle
        /\ task'.jobs = Tail(task.jobs)
    BY <1>3, <1>4, <2>1 DEF AtJob, Between, NextJob, Idle
  <2>3. position' \in Vectors
    BY <1>1, <2>1, ConstantVectors DEF TypeOK, Vectors
  <2>4. TypeOK'
    BY <1>1, <1>2, <1>7, <2>2, <2>3 DEF TypeOK
  <2>5. ModeInv' /\ MotionInv' /\ JobInv'
    BY <1>1, <1>2, <1>3, <1>7, <2>2 DEF ModeInv, MotionInv, JobInv, Working, Alive
  <2>6. /\ ~SettingError
        /\ \A i \in DOMAIN task.jobs : Fits(task.jobs[i], build.custom, task.mask, Wanted)
    BY <1>1, <1>2 DEF FitInv, Working
  <2>7. ~SettingError' /\ Wanted' = Wanted /\ (Looked' <=> Looked)
    BY <1>2, <2>2, <2>6, CommandStays
  <2>8. FitInv'
    BY <1>2, <1>4, <2>2, <2>6, <2>7 DEF FitInv
  <2>9. Fits(Current, build.custom, task.mask, Wanted) /\ Wanted \subseteq Axes
    BY <1>1, <1>3, <1>4, <2>6, WantedType DEF Current
  <2>10. ASSUME ~abort PROVE ProgressInv'
    <3>1. Current.axes \subseteq found /\ (Looked => Current.axes \cap Engaged = {})
      <4>1. /\ task.approach <=> task.count \in {2, 4}
            /\ ~task.approach \/ task.at = "stop" => Current.axes \subseteq found
            /\ ~task.approach /\ task.at = "stop" /\ Looked => Current.axes \cap Engaged = {}
        BY <1>1, <1>2, <1>3, <2>10 DEF JobInv, Alive, Working
      <4> QED
        BY <1>2, <1>6, <1>9, <4>1
    <3>2. \A a \in Current.axes : Homed(a)'
      BY <1>2, <1>5, <2>1, <2>7, <2>9, <3>1 DEF Homed, Fits
    <3>3. ASSUME NEW a \in Wanted, Homed(a), a \notin Current.axes PROVE Homed(a)'
      BY <1>2, <1>5, <2>1, <2>7, <2>9, <3>3 DEF Homed, Fits
    <3>4. ASSUME NEW a \in Wanted, Pending(a), a \notin Current.axes PROVE Pending(a)'
      <4>1. PICK i \in DOMAIN task.jobs : a \in task.jobs[i].axes
        BY <3>4 DEF Pending
      <4>2. i # 1
        BY <3>4, <4>1 DEF Current
      <4>3. PICK k \in DOMAIN Tail(task.jobs) : Tail(task.jobs)[k] = task.jobs[i]
        BY <1>4, <4>2
      <4> QED
        BY <2>2, <4>1, <4>3 DEF Pending
    <3>5. /\ \A a \in Wanted : Homed(a) \/ Pending(a)
          /\ ~build.custom => \A a \in Axes \ Wanted : position[a] = before[a]
      BY <1>1, <1>3, <2>6, <2>10 DEF ProgressInv, Alive
    <3>6. \A a \in Wanted' : Homed(a)' \/ Pending(a)'
      BY <2>7, <3>2, <3>3, <3>4, <3>5
    <3>7. ~build.custom => \A a \in Axes \ Wanted : position'[a] = before[a]
      BY <2>1, <2>9, <3>5 DEF Fits
    <3> QED
      BY <1>2, <2>2, <2>7, <3>6, <3>7 DEF ProgressInv
  <2> QED
    BY <1>2, <2>4, <2>5, <2>8, <2>10 DEF HomingInv, ProgressInv, Alive
<1> QED
  BY <1>8, <1>9

\* A step that neither reads nor moves an axis, with the homing at its end.
LEMMA EndStays ==
    ASSUME HomingInv, task.at = "end", task'.at = "return", task'.mask = task.mask, task' # Idle,
           UNCHANGED <<build, distance, found, before, motors>>,
           ~build.custom => position' = position, abort => abort'
    PROVE  /\ FitInv' /\ MotionInv' /\ JobInv'
           /\ ~build.custom =>
                /\ ~abort' => \A a \in Wanted' : Homed(a)'
                /\ ~abort' => \A a \in Axes \ Wanted' : position'[a] = before'[a]
           /\ build.custom /\ ~abort' /\ ~SettingError' => \A a \in Wanted' : Homed(a)'
<1>1. TypeOK /\ MotionInv /\ ProgressInv /\ task # Idle
  BY DEF HomingInv, Idle
<1>2. FitInv' /\ MotionInv' /\ JobInv'
  BY <1>1 DEF FitInv, MotionInv, JobInv, Working
<1>3. Engaged' = Engaged
  BY DEF Engaged
<1>4. Wanted' = Wanted /\ (SettingError' <=> SettingError) /\ (Looked' <=> Looked)
  BY CommandStays
<1>5. ASSUME ~abort'
      PROVE  /\ ~SettingError => \A a \in Wanted : Homed(a)
             /\ ~build.custom => \A a \in Axes \ Wanted : position[a] = before[a]
  BY <1>1, <1>5 DEF ProgressInv, Alive, Pending
<1>6. \A a : Homed(a) => Homed(a)'
  BY <1>3, <1>4 DEF Homed
<1>7. ~build.custom => ~SettingError
  BY DEF SettingError
<1> QED
  BY <1>2, <1>4, <1>5, <1>6, <1>7

\* mc_homing_cycle synchronises planner and parser when the jobs are over.
LEMMA EndDefaultInv == ASSUME HomingInv, EndDefault PROVE HomingInv'
<1>1. TypeOK /\ ModeInv
  BY DEF HomingInv
<1>2. /\ task.at = "end" /\ ~build.custom
      /\ \/ /\ flags.reset \/ abort
            /\ mode' = IF flags.alarm # "None" THEN "Alarm" ELSE mode
            /\ abort' = TRUE
            /\ UNCHANGED <<planner, parser>>
         \/ ~abort /\ Sync(position) /\ UNCHANGED <<mode, abort>>
      /\ flags' = [flags EXCEPT !.alarm = "None", !.door = FALSE, !.stopped = FALSE]
      /\ task' = [task EXCEPT !.at = "return"]
      /\ UNCHANGED <<build, distance, motors, position, found, before, budget>>
  BY DEF EndDefault
<1>3. task \in Ending /\ task # Idle
  BY <1>1, <1>2, TaskShape DEF Idle
<1>4. task' \in Ending /\ task'.at = "return" /\ task'.mask = task.mask /\ task' # Idle
  BY <1>2, <1>3 DEF Ending, Idle
<1>5. /\ flags'.reset = flags.reset /\ flags'.alarm = "None"
      /\ flags' \in [reset: BOOLEAN, door: BOOLEAN, stopped: BOOLEAN, alarm: Alarms]
  BY <1>1, <1>2 DEF TypeOK, Alarms
<1>6. TypeOK'
  BY <1>1, <1>2, <1>4, <1>5 DEF TypeOK
<1>7. /\ FitInv' /\ MotionInv' /\ JobInv'
      /\ ~abort' => \A a \in Wanted' : Homed(a)'
      /\ ~abort' => \A a \in Axes \ Wanted' : position'[a] = before'[a]
  BY <1>2, <1>4, EndStays
<1>8. ModeInv'
  <2>1. CASE abort'
    BY <1>1, <1>2, <1>4, <2>1 DEF ModeInv, Alive, Working
  <2>2. CASE ~abort'
    <3>1. ~flags.reset /\ mode' = mode
      BY <1>2, <2>2 DEF EndDefault
    <3> QED
      BY <1>1, <1>2, <1>3, <1>4, <1>5, <2>2, <3>1 DEF ModeInv, Alive, Working
  <2> QED
    BY <2>1, <2>2
<1>9. ~abort' => planner' = position' /\ parser' = MotorsToCartesian(build'.kin, planner')
  BY <1>2 DEF Sync
<1>10. ProgressInv'
  BY <1>2, <1>4, <1>7, <1>9 DEF ProgressInv, Alive, SettingError
<1> QED
  BY <1>6, <1>7, <1>8, <1>10 DEF HomingInv

\* The paper machine's routine synchronises through its own conversion.
LEMMA EndCustomInv == ASSUME HomingInv, EndCustom PROVE HomingInv'
<1>1. TypeOK /\ ModeInv
  BY DEF HomingInv
<1>2. /\ task.at = "end" /\ build.custom
      /\ position' = HomingMotors([HomedAt EXCEPT !.Z = position.Z])
      /\ task' = [task EXCEPT !.at = "return"]
      /\ UNCHANGED <<build, distance, motors, flags, mode, abort, found, before, budget>>
  BY DEF EndCustom
<1>3. task \in Ending /\ task # Idle
  BY <1>1, <1>2, TaskShape DEF Idle
<1>4. task' \in Ending /\ task'.at = "return" /\ task'.mask = task.mask /\ task' # Idle
  BY <1>2, <1>3 DEF Ending, Idle
<1>5. position' \in Vectors
  <2>1. position.Z \in Int
    BY <1>1 DEF TypeOK, Vectors, Axes
  <2>2. [HomedAt EXCEPT !.Z = position.Z] \in Vectors
    BY <2>1, ConstantVectors DEF Vectors
  <2> QED
    BY <1>2, <2>2, HomingMotorsType
<1>6. TypeOK'
  BY <1>1, <1>2, <1>4, <1>5 DEF TypeOK
<1>7. /\ FitInv' /\ MotionInv' /\ JobInv'
      /\ ~abort' /\ ~SettingError' => \A a \in Wanted' : Homed(a)'
  BY <1>2, <1>4, EndStays
<1>8. ModeInv'
  BY <1>1, <1>2, <1>3, <1>4 DEF ModeInv, Alive, Working
<1>9. ProgressInv'
  BY <1>2, <1>4, <1>7 DEF ProgressInv, Alive, Working
<1> QED
  BY <1>6, <1>7, <1>8, <1>9 DEF HomingInv

\* With the main task out of the homing routines little is left to claim.
LEMMA OutOfHoming ==
    ASSUME TypeOK', task'.at = "idle", mode' # "Homing", ~abort' => ~motors'.running
    PROVE  HomingInv'
<1>1. task' = Idle
  <2>1. task' \in {Idle} \cup Between \cup AtJob \cup Ending
    BY DEF TypeOK
  <2> QED
    BY <2>1 DEF Between, AtJob, Ending, Working
<1> QED
  BY <1>1 DEF HomingInv, FitInv, ModeInv, MotionInv, JobInv, ProgressInv, Alive, Working

\* The command returns to Idle unless it failed.
LEMMA ReturnInv == ASSUME HomingInv, Return PROVE HomingInv'
<1>1. TypeOK /\ ModeInv
  BY DEF HomingInv
<1>2. /\ mode' = (IF abort THEN mode ELSE "Idle") /\ motors' = (IF abort THEN motors ELSE Stopped)
      /\ task' = Idle
      /\ UNCHANGED <<build, distance, flags, abort, position, planner, parser, found, before,
                     budget>>
  BY DEF Return
<1>3. motors' \in [running: BOOLEAN, moving: SUBSET Axes, lock: SUBSET Axes,
                   toward: BOOLEAN, left: Nat] /\ (~abort => ~motors'.running)
  BY <1>1, <1>2 DEF TypeOK, Stopped
<1>4. TypeOK'
  BY <1>1, <1>2, <1>3 DEF TypeOK
<1> QED
  BY <1>1, <1>2, <1>3, <1>4, OutOfHoming DEF ModeInv, Alive, Idle

\* The abort takes the main task back to its loop.
LEMMA MainLoopInv == ASSUME HomingInv, MainLoop PROVE HomingInv'
<1>1. TypeOK /\ ModeInv /\ MotionInv
  BY DEF HomingInv
<1>2. /\ task = Idle /\ ~abort
      /\ mode' = (IF flags.alarm # "None" THEN "Alarm" ELSE mode)
      /\ abort' = flags.reset
      /\ flags' = [NoFlags EXCEPT !.reset = flags.reset]
      /\ UNCHANGED <<build, distance, motors, task, position, planner, parser, found, before,
                     budget>>
  BY DEF MainLoop
<1>3. TypeOK'
  BY <1>1, <1>2 DEF TypeOK, NoFlags, Alarms
<1>4. mode # "Homing" /\ ~motors.running
  BY <1>1, <1>2 DEF ModeInv, MotionInv, Alive, Idle, Working
<1> QED
  BY <1>2, <1>3, <1>4, OutOfHoming DEF Idle

\* run_once starts over: what was known of the position is kept.
LEMMA RestartInv == ASSUME HomingInv, Restart PROVE HomingInv'
<1>1. TypeOK
  BY DEF HomingInv
<1>2. /\ task = Idle /\ flags' = NoFlags /\ motors' = Stopped /\ abort' = FALSE
      /\ mode' = IF mode = "Alarm" THEN "Alarm" ELSE "Idle"
      /\ UNCHANGED <<build, distance, task, position, found, before, budget>>
  BY DEF Restart
<1>3. TypeOK' /\ ~motors'.running
  BY <1>1, <1>2 DEF TypeOK, NoFlags, Stopped, Alarms
<1> QED
  BY <1>2, <1>3, OutOfHoming DEF Idle

-----------------------------------------------------------------------------
(* The interrupt, the input task and the door.                             *)

\* Motors and flags changed by another task, while no axis moves.
LEMMA OthersStay ==
    ASSUME HomingInv, TypeOK',
           UNCHANGED <<build, distance, abort, task, position, planner, parser, found, before, mode>>,
           ~motors'.running \/ UNCHANGED motors,
           mode = "Homing" /\ flags'.reset => flags'.alarm # "None"
    PROVE  HomingInv'
<1>1. FitInv /\ ModeInv /\ MotionInv /\ JobInv /\ ProgressInv
  BY DEF HomingInv
<1>2. Engaged' = Engaged /\ Wanted' = Wanted /\ (SettingError' <=> SettingError)
      /\ (Looked' <=> Looked) /\ Current' = Current
  BY DEF Engaged, Wanted, SettingError, Looked, Current
<1>3. FitInv' /\ ModeInv' /\ MotionInv'
  BY <1>1, <1>2 DEF FitInv, ModeInv, MotionInv, Alive
<1>4. JobInv'
  BY <1>1, <1>2 DEF JobInv, Alive
<1>5. \A a : (Homed(a)' <=> Homed(a)) /\ (Pending(a)' <=> Pending(a))
  BY <1>2 DEF Homed, Pending
<1>6. ProgressInv'
  BY <1>1, <1>2, <1>5 DEF ProgressInv, Alive
<1> QED
  BY <1>3, <1>4, <1>6 DEF HomingInv

\* A pulse moves the axes out of the lock, and none else.
LEMMA StepInv == ASSUME HomingInv, Step PROVE HomingInv'
<1>1. TypeOK /\ FitInv /\ ModeInv /\ MotionInv /\ JobInv
  BY DEF HomingInv
<1>2. /\ motors.running /\ motors.left > 0
      /\ distance' = [a \in Axes |-> IF a \notin motors.lock THEN distance[a]
                           ELSE IF motors.toward THEN distance[a] - 1 ELSE distance[a] + 1]
      /\ position' = [a \in Axes |-> position[a] + Delta[a]]
      /\ motors' = [motors EXCEPT !.left = @ - 1]
      /\ UNCHANGED <<build, flags, mode, abort, task, planner, parser, found, before, budget>>
  BY DEF Step
<1>3. Delta \in Vectors /\ (~build.custom => \A a \in Axes \ motors.moving : Delta[a] = 0)
  <2> DEFINE unit == [a \in Axes |-> IF a \notin motors.moving THEN 0
                                     ELSE IF motors.toward THEN 1 ELSE -1]
  <2>1. unit \in Vectors /\ \A a \in Axes \ motors.moving : unit[a] = 0
    BY DEF Vectors
  <2>2. Delta = IF build.custom THEN HomingMotors(unit) ELSE unit
    BY DEF Delta
  <2> QED
    BY <2>1, <2>2, HomingMotorsType
<1>4. /\ motors' \in [running: BOOLEAN, moving: SUBSET Axes, lock: SUBSET Axes,
                       toward: BOOLEAN, left: Nat]
      /\ motors'.running = motors.running /\ motors'.moving = motors.moving
      /\ motors'.lock = motors.lock /\ motors'.toward = motors.toward
  <2>1. motors \in [running: BOOLEAN, moving: SUBSET Axes, lock: SUBSET Axes,
                     toward: BOOLEAN, left: Nat]
    BY <1>1 DEF TypeOK
  <2>2. motors.left - 1 \in Nat
    BY <1>2, <2>1
  <2> QED
    BY <1>2, <2>1, <2>2
<1>5. TypeOK'
  <2>1. position' \in Vectors
    BY <1>1, <1>2, <1>3 DEF TypeOK, Vectors
  <2>2. distance' \in [Axes -> Int]
    BY <1>1, <1>2 DEF TypeOK
  <2> QED
    BY <1>1, <1>2, <1>4, <2>1, <2>2 DEF TypeOK
<1>6. ModeInv'
  BY <1>1, <1>2 DEF ModeInv, Alive
<1>7. FitInv'
  BY <1>1, <1>2 DEF FitInv, SettingError, Wanted
<1>8. CASE abort
  BY <1>2, <1>5, <1>6, <1>7, <1>8 DEF HomingInv, MotionInv, JobInv, ProgressInv, Alive
<1>9. CASE ~abort
  <2>1. /\ task.at \in Working \ {"plan"}
        /\ motors.moving = Current.axes /\ motors.lock \subseteq Current.axes
        /\ motors.toward = task.approach
    BY <1>1, <1>2, <1>9 DEF MotionInv
  <2>2. task # Idle
    BY <2>1 DEF Working, Idle
  <2>3. ASSUME NEW a \in Axes \ Current.axes
        PROVE  /\ distance'[a] = distance[a]
               /\ ~build.custom => position'[a] = position[a]
    <3>1. distance'[a] = distance[a]
      BY <1>2, <2>1
    <3>2. ~build.custom => position'[a] = position[a] + 0 /\ position[a] \in Int
      BY <1>1, <1>2, <1>3, <2>1 DEF TypeOK, Vectors
    <3> QED
      BY <3>1, <3>2
  <2>4. \A a \in Axes \ Current.axes :
          /\ a \in found => a \in found'
          /\ a \in Engaged' => a \in Engaged
          /\ ~build.custom => position'[a] = position[a]
    BY <1>2, <2>3 DEF Engaged
  <2>5. ProgressInv' /\ Current' = Current
    BY <1>2, <2>1, <2>2, <2>4, WithinJob
  <2>6. MotionInv'
    BY <1>1, <1>2, <1>4, <2>5 DEF MotionInv
  <2>7. ~task.approach => \A a \in Engaged' : a \in Engaged
    <3> SUFFICES ASSUME ~task.approach, NEW a \in Axes, distance'[a] <= 0 PROVE distance[a] <= 0
      BY <1>2 DEF Engaged
    <3>1. distance'[a] = distance[a] \/ distance'[a] = distance[a] + 1
      BY <1>2, <2>1
    <3> QED
      BY <1>1, <3>1 DEF TypeOK
  <2>8. Looked' <=> Looked
    BY <1>2, CommandStays
  <2>9. JobInv'
    BY <1>1, <1>2, <2>2, <2>5, <2>7, <2>8, <1>9 DEF JobInv, Alive
  <2> QED
    BY <1>5, <1>6, <1>7, <2>5, <2>6, <2>9 DEF HomingInv
<1> QED
  BY <1>8, <1>9

\* The stepper interrupt ends a motion that used up its travel.
LEMMA CompleteInv == ASSUME HomingInv, Complete PROVE HomingInv'
<1>1. TypeOK /\ ModeInv
  BY DEF HomingInv
<1>2. /\ motors' = Stopped /\ flags' = [flags EXCEPT !.stopped = TRUE]
      /\ UNCHANGED <<build, distance, mode, abort, task, position, planner, parser,
                     found, before, budget>>
  BY DEF Complete, AtEnd
<1>3. /\ flags' \in [reset: BOOLEAN, door: BOOLEAN, stopped: BOOLEAN, alarm: Alarms]
      /\ flags'.reset = flags.reset /\ flags'.alarm = flags.alarm
  BY <1>1, <1>2 DEF TypeOK
<1>4. TypeOK' /\ ~motors'.running
  BY <1>1, <1>2, <1>3 DEF TypeOK, Stopped
<1> QED
  BY <1>1, <1>2, <1>3, <1>4, OthersStay DEF ModeInv

\* A reset while homing stops the motors and leaves its alarm.
LEMMA ResetInv == ASSUME HomingInv, Reset PROVE HomingInv'
<1>1. TypeOK
  BY DEF HomingInv
<1>2. /\ budget' = [budget EXCEPT !.events = @ - 1]
      /\ flags' = [flags EXCEPT !.reset = TRUE,
                       !.alarm = IF mode = "Homing" /\ @ = "None" THEN "FailReset" ELSE @]
      /\ motors' = Stopped
      /\ UNCHANGED <<build, distance, mode, abort, task, position, planner, parser, found, before>>
  BY DEF Reset, Event
<1>3. /\ flags' \in [reset: BOOLEAN, door: BOOLEAN, stopped: BOOLEAN, alarm: Alarms]
      /\ mode = "Homing" => flags'.alarm # "None"
  BY <1>1, <1>2 DEF TypeOK, Alarms
<1>4. TypeOK' /\ ~motors'.running
  BY <1>1, <1>2, <1>3 DEF TypeOK, Stopped
<1> QED
  BY <1>2, <1>3, <1>4, OthersStay

\* The door raises a flag only.
LEMMA DoorInv == ASSUME HomingInv, Door PROVE HomingInv'
<1>1. TypeOK /\ ModeInv
  BY DEF HomingInv
<1>2. /\ budget' = [budget EXCEPT !.events = @ - 1] /\ flags' = [flags EXCEPT !.door = TRUE]
      /\ UNCHANGED <<build, distance, motors, mode, abort, task, position, planner, parser,
                     found, before>>
  BY DEF Door, Event
<1>3. /\ flags' \in [reset: BOOLEAN, door: BOOLEAN, stopped: BOOLEAN, alarm: Alarms]
      /\ flags'.reset = flags.reset /\ flags'.alarm = flags.alarm
  BY <1>1, <1>2 DEF TypeOK
<1>4. TypeOK'
  BY <1>1, <1>2, <1>3 DEF TypeOK
<1> QED
  BY <1>1, <1>2, <1>3, <1>4, OthersStay DEF ModeInv

-----------------------------------------------------------------------------
\* Every step of the specification keeps the invariant.
LEMMA NextInv == HomingInv /\ [Next]_vars => HomingInv'
<1> SUFFICES ASSUME HomingInv, [Next]_vars PROVE HomingInv'
  OBVIOUS
<1>1. CASE UNCHANGED vars
  <2>1. TypeOK'
    BY <1>1 DEF HomingInv, vars, TypeOK
  <2> QED
    BY <1>1, <2>1, OthersStay DEF vars, HomingInv, ModeInv
<1> QED
  BY <1>1, HomeCommandInv, BeginInv, PlanInv, LookInv, CheckInv, StopInv, EndDefaultInv,
     EndCustomInv, ReturnInv, MainLoopInv, RestartInv, StepInv, CompleteInv, ResetInv, DoorInv
     DEF Next, Main

\* The invariant in every reachable state.
LEMMA HomingHolds == Spec => []HomingInv
BY InitInv, NextInv, PTL DEF Spec

\* $H, mc_homing_cycle, limits_go_home and user_defined_homing: whichever switches are
\* broken, and whenever a reset, the end of a motion or the door falls in, homing that
\* ends well has found and freed the switch of every axis it was to home, and (with the
\* default routine) every axis is where the settings say, the others are where they
\* were, and parser and planner agree with the machine.
THEOREM HomingSucceeds == Spec => HomedAxesKnown
<1>1. HomingInv /\ [Next]_vars => [Succeeds => Found /\ Freed /\ Placed]_vars
  <2> SUFFICES ASSUME HomingInv, Next, Succeeds PROVE Found /\ Freed /\ Placed
    BY DEF Succeeds
  <2>1. TypeOK /\ ModeInv /\ ProgressInv
    BY DEF HomingInv
  <2>2. Alive /\ mode = "Homing" /\ mode' = "Idle"
    BY <2>1 DEF Succeeds, ModeInv
  <2>3. Return
    <3>1. ~HomeCommand /\ ~MainLoop /\ ~Restart
      BY <2>2 DEF HomeCommand, MainLoop, Restart, Alive
    <3>2. Check => mode' \in {mode, "Alarm"}
      BY DEF Check
    <3>3. EndDefault => mode' \in {mode, "Alarm"}
      BY DEF EndDefault
    <3>4. Begin \/ Plan \/ Look \/ Stop \/ EndCustom \/ Step \/ Complete \/ Reset \/ Door
            => mode' = mode
      BY DEF Begin, Plan, Look, Stop, EndCustom, Step, Complete, Reset, Door
    <3> QED
      BY <2>2, <3>1, <3>2, <3>3, <3>4 DEF Next, Main
  <2>4. task.at = "return"
    BY <2>3 DEF Return
  <2>5. ~SettingError => \A a \in Wanted : Homed(a)
    BY <2>1, <2>2, <2>4 DEF ProgressInv, Pending
  <2>6. Found /\ Freed
    BY <2>5 DEF Found, Freed, Homed, Looked
  <2>7. Placed
    <3> SUFFICES ASSUME ~build.custom
                 PROVE  /\ \A a \in Axes : position[a] = IF a \in Wanted THEN HomedAt[a] ELSE before[a]
                        /\ planner = position /\ parser = MotorsToCartesian(build.kin, planner)
      BY DEF Placed
    <3>1. ~SettingError
      BY DEF SettingError
    <3> QED
      BY <2>1, <2>2, <2>4, <2>5, <3>1 DEF ProgressInv, Homed
  <2> QED
    BY <2>6, <2>7
<1> QED
  BY <1>1, HomingHolds, PTL DEF Spec, HomedAxesKnown

\* limits_go_home and mc_homing_cycle: with the default routine no motion is started
\* any more once a failure, a reset or the door has aborted the homing.
THEOREM AbortStartsNothing == Spec => NoMotionAfterAbort
<1>1. HomingInv /\ [Next]_vars => [~motors.running /\ motors'.running => ~abort \/ build.custom]_vars
  <2> SUFFICES ASSUME HomingInv, Next, ~motors.running, motors'.running, ~build.custom
               PROVE  ~abort
    OBVIOUS
  <2>1. Plan => task.at \in Working
    BY DEF Plan, Working
  <2>2. ~Plan => ~motors'.running
    <3>1. TypeOK /\ motors \in [running: BOOLEAN, moving: SUBSET Axes, lock: SUBSET Axes,
                                toward: BOOLEAN, left: Nat]
      BY DEF HomingInv, TypeOK
    <3>2. Look => ~motors'.running
      BY <3>1 DEF Look
    <3>3. Check \/ Stop \/ Return \/ Restart \/ Complete \/ Reset => ~motors'.running
      BY DEF Check, Stop, Return, Restart, Complete, AtEnd, Reset, Stopped
    <3>4. HomeCommand \/ Begin \/ EndDefault \/ EndCustom \/ MainLoop \/ Door => ~motors'.running
      BY DEF HomeCommand, Begin, EndDefault, EndCustom, MainLoop, Door
    <3>5. ~Step
      BY DEF Step
    <3> QED
      BY <3>2, <3>3, <3>4, <3>5 DEF Next, Main
  <2> QED
    BY <2>1, <2>2 DEF HomingInv, ModeInv
<1> QED
  BY <1>1, HomingHolds, PTL DEF Spec, NoMotionAfterAbort

-----------------------------------------------------------------------------
(***************************************************************************)
(* Planner: intervals, and the two passes of planner_recalculate().        *)
(***************************************************************************)
Block == [left : Nat \ {0}, entry : Nat, max : Nat, junction : Nat, rate : Rates, rapid : BOOLEAN]

\* A nonempty set of numbers has a least one.
LEMMA NatMin ==
  ASSUME NEW T \in SUBSET Nat, T # {}
  PROVE \E x \in T : \A y \in T : x <= y
<1> DEFINE R == OpToRel(<, Nat)
<1>1. IsWellFoundedOn(R, Nat)
  BY NatLessThanWellFounded
<1>2. \A y, x \in Nat : y < x => <<y, x>> \in R
  BY DEF OpToRel
<1> HIDE DEF R
<1>3. \E x \in T : \A y \in T : ~ (<<y, x>> \in R)
  BY <1>1, WFMin
<1>4. PICK x \in T : \A y \in T : ~ (<<y, x>> \in R)
  BY <1>3
<1>5. ASSUME NEW y \in T PROVE x <= y
  <2>1. x \in Nat /\ y \in Nat
    OBVIOUS
  <2>2. ~ (y < x)
    BY <1>2, <1>4, <2>1
  <2> QED BY <2>1, <2>2
<1> QED
  BY <1>5

\* What holds at the start of an interval and goes on from each place to the next
\* holds all along it; and the same from its end down.
LEMMA Upward ==
  ASSUME NEW a \in Int, NEW b \in Int, NEW T, a \in T, \A i \in a .. b - 1 : i \in T => i + 1 \in T
  PROVE a .. b \subseteq T
<1> DEFINE M == {m \in Nat : a + m <= b /\ a + m \notin T}
<1> SUFFICES M = {}
  <2> SUFFICES ASSUME NEW i \in a .. b, i \notin T PROVE FALSE
    OBVIOUS
  <2> DEFINE m == i - a
  <2>1. m \in Nat /\ a + m = i
    OBVIOUS
  <2> HIDE DEF m
  <2>2. m \in M
    BY <2>1
  <2> QED BY <2>2
<1> SUFFICES ASSUME M # {} PROVE FALSE
  OBVIOUS
<1>1. PICK m \in M : \A k \in M : m <= k
  BY NatMin
<1>2. m # 0
  OBVIOUS
<1>3. m - 1 \in Nat /\ m - 1 \notin M
  BY <1>1, <1>2
<1>4. a + (m - 1) \in T /\ a + (m - 1) \in a .. b - 1
  BY <1>3
<1>5. a + (m - 1) + 1 \in T
  BY <1>4
<1>6. a + (m - 1) + 1 = a + m
  OBVIOUS
<1> QED BY <1>5, <1>6

\* The same downward.
LEMMA Downward ==
  ASSUME NEW a \in Int, NEW b \in Int, NEW T, b \in T, \A i \in a .. b - 1 : i + 1 \in T => i \in T
  PROVE a .. b \subseteq T
<1> DEFINE M == {m \in Nat : a <= b - m /\ b - m \notin T}
<1> SUFFICES M = {}
  <2> SUFFICES ASSUME NEW i \in a .. b, i \notin T PROVE FALSE
    OBVIOUS
  <2> DEFINE m == b - i
  <2>1. m \in Nat /\ b - m = i
    OBVIOUS
  <2> HIDE DEF m
  <2>2. m \in M
    BY <2>1
  <2> QED BY <2>2
<1> SUFFICES ASSUME M # {} PROVE FALSE
  OBVIOUS
<1>1. PICK m \in M : \A k \in M : m <= k
  BY NatMin
<1>2. m # 0
  OBVIOUS
<1>3. m - 1 \in Nat /\ m - 1 \notin M
  BY <1>1, <1>2
<1>4. b - (m - 1) \in T /\ b - m \in a .. b - 1 /\ b - m + 1 = b - (m - 1)
  BY <1>2, <1>3
<1>5. b - m \in T
  BY <1>4
<1> QED BY <1>5

\* Max of a nonempty set of numbers that a bound exceeds.
LEMMA MaxExists ==
  ASSUME NEW T \in SUBSET Int, NEW a \in T, NEW b \in Int, \A i \in T : i <= b
  PROVE Max(T) \in T /\ \A i \in T : i <= Max(T)
<1> DEFINE M == {m \in Nat : b - m \in T}
<1>1. b - a \in M
  <2>1. b - (b - a) = a /\ a <= b
    OBVIOUS
  <2> QED BY <2>1
<1>2. PICK m \in M : \A k \in M : m <= k
  BY <1>1, NatMin
<1>3. \A i \in T : i <= b - m
  <2> SUFFICES ASSUME NEW i \in T PROVE i <= b - m
    OBVIOUS
  <2> DEFINE k == b - i
  <2>1. k \in Nat /\ b - k = i
    OBVIOUS
  <2> HIDE DEF k
  <2>2. k \in M
    BY <2>1
  <2>3. m <= k
    BY <1>2, <2>2
  <2> QED BY <2>1, <2>3
<1>4. \E x \in T : \A y \in T : x >= y
  BY <1>3
<1> QED BY <1>4 DEF Max

\* The reverse pass is what its equations say, at every block behind q[p].
LEMMA BackwardDef ==
  ASSUME NEW q \in Seq(Block), NEW p \in 1 .. Len(q)
  PROVE  /\ Backward(q, p) \in [(p + 1) .. Len(q) -> Nat]
         /\ \A i \in (p + 1) .. Len(q) : Backward(q, p)[i] =
              IF i = Len(q) THEN Braking(q[i], 0)
              ELSE IF q[i].entry = q[i].max THEN q[i].max ELSE Braking(q[i], Backward(q, p)[i + 1])
<1> DEFINE n == Len(q)
           D == (p + 1) .. n
           Rhs(g, i) == IF i = n THEN Braking(q[i], 0)
                        ELSE IF q[i].entry = q[i].max THEN q[i].max ELSE Braking(q[i], g[i + 1])
           T == {k \in (p + 1) .. n + 1 : \E g \in [D -> Nat] : \A i \in k .. n : g[i] = Rhs(g, i)}
<1>0. n \in Nat /\ p \in Nat /\ \A i \in D : q[i] \in Block
  OBVIOUS
<1>a. \A g : \A i \in D : (i # n => g[i + 1] \in Nat) => Rhs(g, i) \in Nat
  <2> SUFFICES ASSUME NEW g, NEW i \in D, i # n => g[i + 1] \in Nat PROVE Rhs(g, i) \in Nat
    OBVIOUS
  <2>1. q[i].max \in Nat /\ q[i].left \in Nat
    BY <1>0 DEF Block
  <2>2. CASE i = n
    BY <2>1, <2>2 DEF Braking, Lesser
  <2>3. CASE i # n
    BY <2>1, <2>3 DEF Braking, Lesser
  <2> QED BY <2>2, <2>3
<1>b. \A g, h : \A i \in D : (i # n => g[i + 1] = h[i + 1]) => Rhs(g, i) = Rhs(h, i)
  OBVIOUS
<1>c. Backward(q, p) = CHOOSE f : f = [i \in D |-> Rhs(f, i)]
  <2> DEFINE Code(f, i) == CASE i = n -> Braking(q[i], 0)
                             [] i < n /\ q[i].entry = q[i].max -> q[i].max
                             [] OTHER -> Braking(q[i], f[i + 1])
  <2>1. Backward(q, p) = CHOOSE f : f = [i \in D |-> Code(f, i)]
    BY DEF Backward
  <2>2. \A f : \A i \in D : Code(f, i) = Rhs(f, i)
    <3> SUFFICES ASSUME NEW f, NEW i \in D PROVE Code(f, i) = Rhs(f, i)
      OBVIOUS
    <3>1. i = n \/ i < n
      BY <1>0
    <3> QED BY <3>1, <1>0
  <2> HIDE DEF Code, Rhs
  <2>3. \A f : [i \in D |-> Code(f, i)] = [i \in D |-> Rhs(f, i)]
    BY <2>2
  <2> QED BY <2>1, <2>3
<1> HIDE DEF Rhs
<1>1. n + 1 \in T
  <2>1. [i \in D |-> 0] \in [D -> Nat]
    OBVIOUS
  <2>2. n + 1 \in (p + 1) .. n + 1 /\ (n + 1) .. n = {}
    BY <1>0
  <2> QED BY <2>1, <2>2
<1>2. ASSUME NEW k \in (p + 1) .. n, k + 1 \in T PROVE k \in T
  <2>1. PICK g \in [D -> Nat] : \A i \in k + 1 .. n : g[i] = Rhs(g, i)
    BY <1>2
  <2> DEFINE h == [g EXCEPT ![k] = Rhs(g, k)]
  <2>2. Rhs(g, k) \in Nat /\ k \in D
    <3>1. k \in D /\ (k # n => k + 1 \in D)
      BY <1>0
    <3> QED BY <3>1, <1>a
  <2>3. h \in [D -> Nat] /\ h[k] = Rhs(g, k) /\ \A i \in D \ {k} : h[i] = g[i]
    BY <2>2
  <2> HIDE DEF h
  <2>4. \A i \in k .. n : i \in D /\ (i # n => i + 1 \in D \ {k})
    BY <1>0
  <2>5. \A i \in k .. n : Rhs(h, i) = Rhs(g, i)
    BY <2>3, <2>4, <1>b
  <2>6. \A i \in k .. n : i = k \/ i \in k + 1 .. n
    BY <1>0
  <2>7. \A i \in k .. n : h[i] = Rhs(h, i)
    BY <2>1, <2>3, <2>4, <2>5, <2>6
  <2>8. k \in (p + 1) .. n + 1
    BY <1>0
  <2> QED BY <2>3, <2>7, <2>8
<1>3. (p + 1) .. (n + 1) \subseteq T
  <2> DEFINE a == p + 1
             b == n + 1
  <2> HIDE DEF T
  <2>1. a \in Int /\ b \in Int /\ b \in T
    BY <1>0, <1>1
  <2>2. \A i \in a .. b - 1 : i + 1 \in T => i \in T
    BY <1>2, <1>0
  <2> HIDE DEF a, b
  <2>3. a .. b \subseteq T
    BY <2>1, <2>2, Downward
  <2> QED BY <2>3 DEF a, b
<1>4. \E g \in [D -> Nat] : \A i \in D : g[i] = Rhs(g, i)
  <2>1. p + 1 \in (p + 1) .. (n + 1)
    BY <1>0
  <2>2. p + 1 \in T
    BY <1>3, <2>1
  <2> QED BY <2>2
<1>5. PICK g \in [D -> Nat] : \A i \in D : g[i] = Rhs(g, i)
  BY <1>4
<1>6. g = [i \in D |-> Rhs(g, i)]
  BY <1>5
<1>7. Backward(q, p) = [i \in D |-> Rhs(Backward(q, p), i)]
  BY <1>6, <1>c
<1> DEFINE b == Backward(q, p)
<1> HIDE DEF b
<1>8. b = [i \in D |-> Rhs(b, i)]
  BY <1>7 DEF b
<1>9. \A i \in D : b[i] = Rhs(b, i)
  BY <1>8
<1>10. b \in [D -> Nat]
  <2> DEFINE a == p + 1
             Z == {i \in D : b[i] \in Nat}
  <2>1. CASE D = {}
    BY <1>8, <2>1
  <2>2. CASE D # {}
    <3>1. n \in D
      BY <2>2, <1>0
    <3>3. b[n] \in Nat
      BY <1>9, <3>1, <1>a
    <3>4. ASSUME NEW i \in a .. n - 1, i + 1 \in Z PROVE i \in Z
      <4>1. i \in D /\ b[i + 1] \in Nat
        BY <1>0, <3>4
      <4> QED BY <4>1, <1>9, <1>a
    <3>5. a \in Int /\ n \in Int /\ n \in Z
      BY <1>0, <3>1, <3>3
    <3> HIDE DEF Z, a, n
    <3>6. a .. n \subseteq Z
      BY <3>4, <3>5, Downward
    <3>7. \A i \in D : b[i] \in Nat
      BY <3>6 DEF Z, a
    <3> QED BY <3>7, <1>8
  <2> QED BY <2>1, <2>2
<1> QED BY <1>9, <1>10 DEF Rhs, b

\* A function may be defined by recursion upwards over an interval.
Recursion(g, a, b, c, F) == \A i \in a .. b : g[i] = IF i = a THEN c ELSE F[<<i, g[i - 1]>>]

\* A function that goes up an interval, each value being computed from the one
\* before, exists.
LEMMA RecursionUp ==
  ASSUME NEW a \in Int, NEW b \in Int, NEW c \in Nat, NEW F \in [(a .. b) \X Nat -> Nat]
  PROVE  \E g \in [a .. b -> Nat] : Recursion(g, a, b, c, F)
<1> USE DEF Recursion
<1> DEFINE D == a .. b
           Rhs(g, i) == IF i = a THEN c ELSE F[<<i, g[i - 1]>>]
           T == {k \in D : \E g \in [D -> Nat] : \A i \in a .. k : g[i] = Rhs(g, i)}
<1>1. CASE D = {}
  <2>1. [i \in D |-> 0] \in [D -> Nat]
    OBVIOUS
  <2> QED BY <1>1, <2>1
<1>2. CASE D # {}
  <2>1. a \in T
    <3>1. [i \in D |-> c] \in [D -> Nat] /\ a \in D /\ a .. a = {a}
      BY <1>2
    <3> QED BY <3>1
  <2>2. ASSUME NEW k \in a .. b - 1, k \in T PROVE k + 1 \in T
    <3>1. PICK g \in [D -> Nat] : \A i \in a .. k : g[i] = Rhs(g, i)
      BY <2>2
    <3> DEFINE h == [g EXCEPT ![k + 1] = F[<<k + 1, g[k]>>]]
    <3>2. k + 1 \in D /\ k \in D /\ g[k] \in Nat /\ F[<<k + 1, g[k]>>] \in Nat
      OBVIOUS
    <3>3. h \in [D -> Nat] /\ h[k + 1] = F[<<k + 1, g[k]>>] /\ \A i \in D \ {k + 1} : h[i] = g[i]
      BY <3>2
    <3> HIDE DEF h
    <3>4. \A i \in a .. k : Rhs(h, i) = Rhs(g, i) /\ h[i] = g[i]
      <4> SUFFICES ASSUME NEW i \in a .. k PROVE Rhs(h, i) = Rhs(g, i) /\ h[i] = g[i]
        OBVIOUS
      <4>1. i \in D \ {k + 1} /\ (i # a => i - 1 \in D \ {k + 1})
        OBVIOUS
      <4> QED BY <4>1, <3>3
    <3>5. Rhs(h, k + 1) = F[<<k + 1, g[k]>>]
      <4> DEFINE m == k + 1
      <4>1. m # a /\ m - 1 = k /\ k \in D \ {k + 1}
        OBVIOUS
      <4>2. h[m - 1] = g[k]
        BY <4>1, <3>3
      <4> HIDE DEF m
      <4>3. Rhs(h, m) = F[<<m, g[k]>>]
        BY <4>1, <4>2
      <4> QED BY <4>3 DEF m
    <3>6. \A i \in a .. k + 1 : i = k + 1 \/ i \in a .. k
      OBVIOUS
    <3>7. \A i \in a .. k + 1 : h[i] = Rhs(h, i)
      <4> HIDE DEF Rhs
      <4> QED BY <3>1, <3>3, <3>4, <3>5, <3>6
    <3> QED BY <3>2, <3>3, <3>7
  <2>3. a .. b \subseteq T
    <3> HIDE DEF T
    <3> QED BY <2>1, <2>2, Upward
  <2>4. b \in T
    <3>1. b \in a .. b
      BY <1>2
    <3> QED BY <3>1, <2>3
  <2> QED BY <2>4
<1> QED BY <1>1, <1>2

\* The forward pass is what its equations say, at every block from q[p] on.
LEMMA ForwardDef ==
  ASSUME NEW q \in Seq(Block), NEW p \in 1 .. Len(q)
  PROVE  /\ Forward(q, p) \in [p .. Len(q) -> Nat]
         /\ Forward(q, p)[p] = q[p].entry
         /\ \A i \in (p + 1) .. Len(q) :
              Forward(q, p)[i] = Lesser(Backward(q, p)[i], Forward(q, p)[i - 1] + q[i - 1].left)
<1> DEFINE n == Len(q)
           D == p .. n
           back == Backward(q, p)
           Rhs(g, i) == IF i = p THEN q[p].entry ELSE Lesser(back[i], g[i - 1] + q[i - 1].left)
           F == [x \in D \X Nat |-> IF x[1] = p THEN 0 ELSE Lesser(back[x[1]], x[2] + q[x[1] - 1].left)]
<1> HIDE DEF back, F
<1>0. n \in Nat /\ p \in Nat /\ p \in D /\ \A i \in D : q[i] \in Block /\ q[i].left \in Nat /\ q[i].entry \in Nat
  <2>1. n \in Nat /\ p \in Nat /\ p \in D /\ \A i \in D : q[i] \in Block
    OBVIOUS
  <2> QED BY <2>1 DEF Block
<1>1. \A i \in D : i # p => i \in (p + 1) .. n /\ i - 1 \in D
  BY <1>0
<1>2. \A i \in D : i # p => back[i] \in Nat
  BY <1>1, BackwardDef DEF back
<1>3. F \in [D \X Nat -> Nat]
  <2> SUFFICES ASSUME NEW i \in D, NEW y \in Nat, i # p PROVE Lesser(back[i], y + q[i - 1].left) \in Nat
    BY DEF F
  <2> QED BY <1>0, <1>1, <1>2 DEF Lesser, F
<1>4. \E g \in [D -> Nat] : \A i \in D : g[i] = Rhs(g, i)
  <2> DEFINE c == q[p].entry
  <2>1. c \in Nat
    BY <1>0
  <2>a. p \in Int /\ n \in Int
    BY <1>0
  <2> HIDE DEF c, n
  <2>b. F \in [(p .. n) \X Nat -> Nat]
    BY <1>3
  <2>c. PICK g \in [p .. n -> Nat] : Recursion(g, p, n, c, F)
    BY <2>1, <2>b, <2>a, RecursionUp
  <2>2. g \in [D -> Nat] /\ \A i \in D : g[i] = IF i = p THEN c ELSE F[<<i, g[i - 1]>>]
    BY <2>c DEF Recursion
  <2>3. \A i \in D : i # p => F[<<i, g[i - 1]>>] = Rhs(g, i)
    BY <1>1 DEF F
  <2>4. \A i \in D : g[i] = Rhs(g, i)
    BY <2>2, <2>3 DEF c
  <2> QED BY <2>4
<1>5. Forward(q, p) = CHOOSE f : f = [i \in D |-> Rhs(f, i)]
  BY DEF Forward, AcceleratedTo, back
<1> HIDE DEF Rhs
<1>6. PICK g \in [D -> Nat] : \A i \in D : g[i] = Rhs(g, i)
  BY <1>4
<1>7. g = [i \in D |-> Rhs(g, i)]
  BY <1>6
<1>8. Forward(q, p) = [i \in D |-> Rhs(Forward(q, p), i)]
  BY <1>7, <1>5
<1> DEFINE f == Forward(q, p)
<1> HIDE DEF f
<1>9. f = [i \in D |-> Rhs(f, i)]
  BY <1>8 DEF f
<1>10. \A i \in D : f[i] = Rhs(f, i)
  BY <1>9
<1>11. f \in [D -> Nat]
  <2> DEFINE Z == {i \in D : f[i] \in Nat}
  <2>1. p \in Z
    BY <1>0, <1>10 DEF Rhs
  <2>2. ASSUME NEW i \in p .. n - 1, i \in Z PROVE i + 1 \in Z
    <3>1. i + 1 \in D /\ i + 1 # p /\ i + 1 - 1 = i /\ q[i].left \in Nat /\ f[i] \in Nat
      BY <2>2, <1>0
    <3>2. f[i + 1] = Lesser(back[i + 1], f[i] + q[i].left) /\ back[i + 1] \in Nat
      BY <3>1, <1>10, <1>2 DEF Rhs
    <3> QED BY <3>1, <3>2, SMTT(60) DEF Lesser
  <2>a. p \in Int /\ n \in Int
    BY <1>0
  <2> HIDE DEF Z, n
  <2>3. p .. n \subseteq Z
    BY <2>1, <2>2, <2>a, Upward
  <2>4. \A i \in D : f[i] \in Nat
    BY <2>3 DEF Z
  <2> QED BY <2>4, <1>9
<1>12. \A i \in (p + 1) .. n : i \in D /\ i # p
  BY <1>0
<1> QED BY <1>0, <1>10, <1>11, <1>12 DEF Rhs, f, back
-----------------------------------------------------------------------------

\* The speed block k is entered at, or has reached by now, and the one it is left at.
Entry(q, v, k) == IF k = 1 THEN v ELSE q[k].entry
Onward(q, k) == IF k = Len(q) THEN 0 ELSE q[k + 1].entry

\* Every block can brake to the speed it is left at; none is left faster than it
\* accelerates to; what keeps block k from being entered faster.
Feasible(q, v) == \A k \in 1 .. Len(q) : Entry(q, v, k) <= Onward(q, k) + q[k].left
ReachedUpTo(q, v, p) == \A k \in 2 .. p : q[k].entry <= Entry(q, v, k - 1) + q[k - 1].left
AtLimit(q, v, k) == \/ q[k].entry = q[k].max
                    \/ q[k].entry = Entry(q, v, k - 1) + q[k - 1].left
TightAt(q, v, k) == AtLimit(q, v, k) \/ q[k].entry = Onward(q, k) + q[k].left
Final(q, v, p) == p > 1 => AtLimit(q, v, p)
WithinMax(q) == \A k \in 2 .. Len(q) : q[k].entry <= q[k].max

\* w[k] is the way from block k to the end of the queue; the queue can stop within it.
Way(q, w) == /\ w \in [1 .. Len(q) + 1 -> Nat]
             /\ w[Len(q) + 1] = 0
             /\ \A k \in 1 .. Len(q) : w[k] = w[k + 1] + q[k].left
Stoppable(q, v, w) == Way(q, w) /\ v <= w[1] /\ \A k \in 2 .. Len(q) : q[k].entry <= w[k]

\* The fields of a queued block.
LEMMA BlockFields ==
  ASSUME NEW q \in Seq(Block), NEW k \in 1 .. Len(q)
  PROVE  /\ q[k].left \in Nat /\ q[k].left > 0 /\ q[k].entry \in Nat /\ q[k].max \in Nat
         /\ q[k].junction \in Nat /\ q[k].rate \in Rates /\ q[k].rapid \in BOOLEAN
<1>1. q[k] \in Block
  OBVIOUS
<1> QED BY <1>1, SMTT(60) DEF Block

\* A recalculation changes nothing but the entry speeds behind q[p]; planned moves
\* to a block where the forward pass was the limit, or the maximum was reached.
LEMMA RecalculatedDef ==
  ASSUME NEW q \in Seq(Block), NEW p \in 1 .. Len(q)
  PROVE  LET r == Recalculated(q, p) IN
         /\ r.blocks \in Seq(Block) /\ Len(r.blocks) = Len(q)
         /\ \A i \in 1 .. Len(q) : /\ r.blocks[i].left = q[i].left /\ r.blocks[i].max = q[i].max
                                   /\ r.blocks[i].junction = q[i].junction
                                   /\ r.blocks[i].rate = q[i].rate /\ r.blocks[i].rapid = q[i].rapid
                                   /\ r.blocks[i].entry = IF i > p THEN Forward(q, p)[i] ELSE q[i].entry
         /\ r.planned \in p .. Len(q)
         /\ \/ r.planned = p
            \/ /\ r.planned \in p + 1 .. Len(q)
               /\ \/ Forward(q, p)[r.planned - 1] + q[r.planned - 1].left < Backward(q, p)[r.planned]
                  \/ Forward(q, p)[r.planned] = q[r.planned].max
<1> DEFINE n == Len(q)
           back == Backward(q, p)
           fwd == Forward(q, p)
           optimal == {i \in (p + 1) .. n : fwd[i - 1] + q[i - 1].left < back[i] \/ fwd[i] = q[i].max}
           b == [i \in 1 .. n |-> IF i > p THEN [q[i] EXCEPT !.entry = fwd[i]] ELSE q[i]]
           m == Max({p} \union optimal)
           r == Recalculated(q, p)
<1>1. r = [blocks |-> b, planned |-> m]
  <2>1. DOMAIN q = 1 .. n
    OBVIOUS
  <2> QED BY <2>1 DEF Recalculated, AcceleratedTo
<1>2. n \in Nat /\ p \in Nat
  OBVIOUS
<1>3. \A i \in (p + 1) .. n : fwd[i] \in Nat
  BY ForwardDef
<1> HIDE DEF fwd, back
<1>4. \A i \in 1 .. n : /\ b[i] \in Block
                        /\ b[i].left = q[i].left /\ b[i].max = q[i].max /\ b[i].junction = q[i].junction
                        /\ b[i].rate = q[i].rate /\ b[i].rapid = q[i].rapid
                        /\ b[i].entry = IF i > p THEN fwd[i] ELSE q[i].entry
  <2> SUFFICES ASSUME NEW i \in 1 .. n
               PROVE  /\ b[i] \in Block
                      /\ b[i].left = q[i].left /\ b[i].max = q[i].max /\ b[i].junction = q[i].junction
                      /\ b[i].rate = q[i].rate /\ b[i].rapid = q[i].rapid
                      /\ b[i].entry = IF i > p THEN fwd[i] ELSE q[i].entry
    OBVIOUS
  <2>1. q[i] \in Block
    OBVIOUS
  <2>2. i > p => fwd[i] \in Nat
    BY <1>3, <1>2
  <2> QED BY <2>1, <2>2 DEF Block
<1>5. b \in Seq(Block) /\ Len(b) = n
  <2> HIDE DEF b, n
  <2>1. b \in [1 .. n -> Block]
    <3>1. b = [i \in 1 .. n |-> b[i]]
      BY DEF b
    <3> QED BY <3>1, <1>4
  <2> QED BY <2>1, <1>2, SeqDef
<1>6. m \in {p} \union optimal
  <2> DEFINE T == {p} \union optimal
  <2>1. T \in SUBSET Int /\ p \in T /\ \A i \in T : i <= n
    BY <1>2
  <2>a. n \in Int
    BY <1>2
  <2> HIDE DEF T, n
  <2>2. Max(T) \in T
    BY <2>1, <2>a, MaxExists
  <2> QED BY <2>2 DEF T
<1>7. m = p \/ m \in optimal
  BY <1>6
<1> HIDE DEF m, b
<1>8. m \in p .. n
  BY <1>7, <1>2
<1> QED BY <1>1, <1>4, <1>5, <1>7, <1>8 DEF fwd, back

\* What the two passes compute for the blocks behind p.
LEMMA BothPasses ==
  ASSUME NEW q \in Seq(Block), NEW p \in 1 .. Len(q)
  PROVE  LET r == Recalculated(q, p).blocks
             back == Backward(q, p) IN
         \A i \in (p + 1) .. Len(q) :
           /\ back[i] \in Nat /\ r[i].entry \in Nat
           /\ back[i] <= q[i].max
           /\ back[i] <= q[i].left + IF i = Len(q) THEN 0 ELSE IF q[i].entry = q[i].max THEN q[i].max ELSE back[i + 1]
           /\ \/ back[i] = q[i].max
              \/ back[i] = q[i].left + IF i = Len(q) THEN 0 ELSE back[i + 1]
           /\ r[i].entry = Lesser(back[i], r[i - 1].entry + q[i - 1].left)
<1> DEFINE n == Len(q)
           r == Recalculated(q, p).blocks
           back == Backward(q, p)
           fwd == Forward(q, p)
<1>1. n \in Nat /\ p \in Nat /\ p >= 1
  OBVIOUS
<1>2. \A i \in (p + 1) .. n : /\ back[i] \in Nat
        /\ back[i] = IF i = n THEN Braking(q[i], 0)
                     ELSE IF q[i].entry = q[i].max THEN q[i].max ELSE Braking(q[i], back[i + 1])
  BY BackwardDef
<1>3. /\ \A i \in p .. n : fwd[i] \in Nat
      /\ fwd[p] = q[p].entry
      /\ \A i \in (p + 1) .. n : fwd[i] = Lesser(back[i], fwd[i - 1] + q[i - 1].left)
  BY ForwardDef
<1>4. \A i \in 1 .. n : r[i].entry = IF i > p THEN fwd[i] ELSE q[i].entry
  BY RecalculatedDef
<1> HIDE DEF r, back, fwd
<1> SUFFICES ASSUME NEW i \in (p + 1) .. n
             PROVE  /\ back[i] \in Nat /\ r[i].entry \in Nat
                    /\ back[i] <= q[i].max
                    /\ back[i] <= q[i].left + IF i = n THEN 0 ELSE IF q[i].entry = q[i].max THEN q[i].max ELSE back[i + 1]
                    /\ \/ back[i] = q[i].max
                       \/ back[i] = q[i].left + IF i = n THEN 0 ELSE back[i + 1]
                    /\ r[i].entry = Lesser(back[i], r[i - 1].entry + q[i - 1].left)
  BY DEF r, back
<1> HIDE DEF n
<1>5. i \in 1 .. n /\ i - 1 \in p .. n /\ i - 1 \in 1 .. n /\ i > p /\ (i # n => i + 1 \in (p + 1) .. n)
  BY <1>1
<1>6. q[i].left \in Nat /\ q[i].max \in Nat /\ q[i].entry \in Nat
  BY <1>5, BlockFields DEF n
<1>7. back[i] \in Nat /\ (i # n => back[i + 1] \in Nat)
  BY <1>2, <1>5
<1>8. back[i] = IF i = n THEN Braking(q[i], 0)
                ELSE IF q[i].entry = q[i].max THEN q[i].max ELSE Braking(q[i], back[i + 1])
  BY <1>2
<1>9. /\ back[i] <= q[i].max
      /\ back[i] <= q[i].left + IF i = n THEN 0 ELSE IF q[i].entry = q[i].max THEN q[i].max ELSE back[i + 1]
      /\ \/ back[i] = q[i].max
         \/ back[i] = q[i].left + IF i = n THEN 0 ELSE back[i + 1]
  <2>1. CASE i = n
    BY <2>1, <1>6, <1>8 DEF Braking, Lesser
  <2>2. CASE i # n /\ q[i].entry = q[i].max
    BY <2>2, <1>6, <1>8
  <2>3. CASE i # n /\ q[i].entry # q[i].max
    BY <2>3, <1>6, <1>7, <1>8 DEF Braking, Lesser
  <2> QED BY <2>1, <2>2, <2>3
<1>10. r[i].entry = fwd[i] /\ fwd[i] \in Nat
  BY <1>3, <1>4, <1>5
<1>11. r[i - 1].entry = fwd[i - 1]
  <2>1. CASE i - 1 > p
    BY <2>1, <1>4, <1>5
  <2>2. CASE i - 1 = p
    BY <2>2, <1>3, <1>4, <1>5
  <2> QED BY <2>1, <2>2, <1>5, <1>1
<1>12. fwd[i] = Lesser(back[i], fwd[i - 1] + q[i - 1].left)
  BY <1>3
<1> QED BY <1>7, <1>9, <1>10, <1>11, <1>12

\* The reverse pass takes no speed from a queue that could brake before.
LEMMA BackwardKeeps ==
  ASSUME NEW q \in Seq(Block), NEW p \in 1 .. Len(q), WithinMax(q),
         \A k \in (p + 1) .. Len(q) : q[k].entry <= Onward(q, k) + q[k].left
  PROVE  \A k \in (p + 1) .. Len(q) : q[k].entry <= Backward(q, p)[k]
<1> DEFINE n == Len(q)
           back == Backward(q, p)
           T == {k \in (p + 1) .. n : q[k].entry <= back[k]}
           a == p + 1
<1>1. n \in Nat /\ p \in Nat /\ p >= 1 /\ a \in Int /\ n \in Int
  OBVIOUS
<1>2. \A i \in (p + 1) .. n : /\ back[i] \in Nat
           /\ \/ back[i] = q[i].max
              \/ back[i] = q[i].left + IF i = n THEN 0 ELSE back[i + 1]
  BY BothPasses
<1>3. \A i \in (p + 1) .. n : q[i].entry \in Nat /\ q[i].left \in Nat /\ q[i].entry <= q[i].max
                              /\ q[i].entry <= (IF i = n THEN 0 ELSE q[i + 1].entry) + q[i].left
  BY <1>1, BlockFields DEF WithinMax, Onward
<1> HIDE DEF back, n
<1>4. ASSUME NEW k \in (p + 1) .. n, k # n => k + 1 \in T
      PROVE  k \in T
  <2>1. /\ back[k] \in Nat /\ q[k].entry \in Nat /\ q[k].left \in Nat /\ q[k].entry <= q[k].max
        /\ k # n => q[k + 1].entry <= back[k + 1] /\ k + 1 \in (p + 1) .. n
    BY <1>2, <1>3, <1>4
  <2>2. k # n => back[k + 1] \in Nat /\ q[k + 1].entry \in Nat
    BY <1>2, <1>3, <2>1
  <2>3. \/ back[k] = q[k].max
        \/ back[k] = q[k].left + IF k = n THEN 0 ELSE back[k + 1]
    BY <1>2
  <2>4. q[k].entry <= (IF k = n THEN 0 ELSE q[k + 1].entry) + q[k].left
    BY <1>3
  <2>5. q[k].entry <= back[k]
    BY <2>1, <2>2, <2>3, <2>4
  <2> QED BY <2>5
<1>5. (p + 1) .. n \subseteq T
  <2>1. CASE (p + 1) .. n = {}
    BY <2>1
  <2>2. CASE (p + 1) .. n # {}
    <3>1. n \in (p + 1) .. n
      BY <2>2, <1>1
    <3>2. n \in T
      BY <3>1, <1>4
    <3>3. \A k \in a .. n - 1 : k + 1 \in T => k \in T
      BY <1>4, <1>1
    <3> HIDE DEF T, a
    <3>4. a .. n \subseteq T
      BY <3>2, <3>3, <1>1, Downward
    <3> QED BY <3>4 DEF a
  <2> QED BY <2>1, <2>2
<1> QED BY <1>5 DEF n, back

\* The reverse pass leaves every block a way to stop within.
LEMMA BackwardStops ==
  ASSUME NEW q \in Seq(Block), NEW p \in 1 .. Len(q), NEW w, Way(q, w),
         \A k \in 2 .. Len(q) : q[k].entry <= w[k]
  PROVE  \A k \in (p + 1) .. Len(q) : Backward(q, p)[k] <= w[k]
<1> DEFINE n == Len(q)
           back == Backward(q, p)
           T == {k \in (p + 1) .. n : back[k] <= w[k]}
           a == p + 1
<1>1. n \in Nat /\ p \in Nat /\ p >= 1 /\ a \in Int /\ n \in Int
  OBVIOUS
<1>2. \A i \in (p + 1) .. n :
           /\ back[i] \in Nat /\ back[i] <= q[i].max
           /\ back[i] <= q[i].left + IF i = n THEN 0 ELSE IF q[i].entry = q[i].max THEN q[i].max ELSE back[i + 1]
           /\ \/ back[i] = q[i].max
              \/ back[i] = q[i].left + IF i = n THEN 0 ELSE back[i + 1]
  BY BothPasses
<1>3. \A i \in (p + 1) .. n : /\ q[i].left \in Nat /\ q[i].max \in Nat /\ q[i].entry <= w[i]
                              /\ w[i] = w[i + 1] + q[i].left /\ w[i] \in Nat /\ w[i + 1] \in Nat
  <2> SUFFICES ASSUME NEW i \in (p + 1) .. n
               PROVE  /\ q[i].left \in Nat /\ q[i].max \in Nat /\ q[i].entry <= w[i]
                      /\ w[i] = w[i + 1] + q[i].left /\ w[i] \in Nat /\ w[i + 1] \in Nat
    OBVIOUS
  <2>1. i \in 1 .. Len(q) /\ i \in 2 .. Len(q) /\ i \in 1 .. Len(q) + 1 /\ i + 1 \in 1 .. Len(q) + 1
    BY <1>1
  <2>2. q[i].left \in Nat /\ q[i].max \in Nat
    BY <2>1, BlockFields
  <2>3. w[i] = w[i + 1] + q[i].left /\ w[i] \in Nat /\ w[i + 1] \in Nat
    BY <2>1 DEF Way
  <2> QED BY <2>1, <2>2, <2>3
<1>3a. w[n + 1] = 0
  BY DEF Way
<1> HIDE DEF back, n
<1>4. ASSUME NEW k \in (p + 1) .. n, k # n => k + 1 \in T
      PROVE  k \in T
  <2>1. /\ back[k] \in Nat /\ q[k].left \in Nat /\ q[k].max \in Nat /\ q[k].entry <= w[k]
        /\ w[k] = w[k + 1] + q[k].left /\ w[k] \in Nat /\ w[k + 1] \in Nat
        /\ back[k] <= q[k].max
        /\ back[k] <= q[k].left + IF k = n THEN 0 ELSE IF q[k].entry = q[k].max THEN q[k].max ELSE back[k + 1]
    BY <1>2, <1>3
  <2>2. k # n => back[k + 1] \in Nat /\ back[k + 1] <= w[k + 1]
    BY <1>2, <1>4
  <2>3. back[k] <= w[k]
    <3>1. CASE k = n
      BY <3>1, <2>1, <1>3a
    <3>2. CASE k # n /\ q[k].entry = q[k].max
      BY <3>2, <2>1
    <3>3. CASE k # n /\ q[k].entry # q[k].max
      BY <3>3, <2>1, <2>2, SMTT(60)
    <3> QED BY <3>1, <3>2, <3>3
  <2> QED BY <2>3
<1>5. (p + 1) .. n \subseteq T
  <2>1. CASE (p + 1) .. n = {}
    BY <2>1
  <2>2. CASE (p + 1) .. n # {}
    <3>1. n \in (p + 1) .. n
      BY <2>2, <1>1
    <3>2. n \in T
      BY <3>1, <1>4
    <3>3. \A k \in a .. n - 1 : k + 1 \in T => k \in T
      BY <1>4, <1>1
    <3> HIDE DEF T, a
    <3>4. a .. n \subseteq T
      BY <3>2, <3>3, <1>1, Downward
    <3> QED BY <3>4 DEF a
  <2> QED BY <2>1, <2>2
<1> QED BY <1>5 DEF n, back

\* Re-planning keeps a queue that can brake one that can, from any speed up to that
\* of the first block.
LEMMA RecalculatedFeasible ==
  ASSUME NEW q \in Seq(Block), NEW p \in 1 .. Len(q), NEW v \in Nat, WithinMax(q), Feasible(q, v),
         p = 1 => v <= q[1].entry
  PROVE  Feasible(Recalculated(q, p).blocks, v)
<1> DEFINE n == Len(q)
           r == Recalculated(q, p).blocks
           back == Backward(q, p)
<1>1. n \in Nat /\ p \in Nat /\ p >= 1 /\ p <= n
  OBVIOUS
<1>2. /\ r \in Seq(Block) /\ Len(r) = n
      /\ \A i \in 1 .. n : r[i].left = q[i].left /\ (i <= p => r[i].entry = q[i].entry)
  BY <1>1, RecalculatedDef
<1>3. \A k \in (p + 1) .. n : q[k].entry <= back[k]
  <2>1. \A k \in (p + 1) .. n : q[k].entry <= Onward(q, k) + q[k].left
    BY <1>1 DEF Feasible, Entry
  <2> QED BY <2>1, BackwardKeeps
<1>4. \A i \in (p + 1) .. n :
           /\ back[i] \in Nat /\ r[i].entry \in Nat
           /\ back[i] <= q[i].left + IF i = n THEN 0 ELSE IF q[i].entry = q[i].max THEN q[i].max ELSE back[i + 1]
           /\ back[i] <= q[i].max
           /\ r[i].entry = Lesser(back[i], r[i - 1].entry + q[i - 1].left)
  BY BothPasses
<1>5. \A i \in 1 .. n : q[i].left \in Nat /\ q[i].entry \in Nat /\ r[i].entry \in Nat
  BY <1>2, BlockFields
<1>6. \A k \in 1 .. n : Entry(q, v, k) <= (IF k = n THEN 0 ELSE q[k + 1].entry) + q[k].left
  BY DEF Feasible, Onward
<1> HIDE DEF n, r, back
<1> SUFFICES ASSUME NEW k \in 1 .. n
             PROVE  Entry(r, v, k) <= (IF k = n THEN 0 ELSE r[k + 1].entry) + q[k].left
  BY <1>2 DEF Feasible, Onward, n, r
<1>7. /\ q[k].left \in Nat /\ q[k].entry \in Nat /\ r[k].entry \in Nat
      /\ k # n => k + 1 \in 1 .. n /\ q[k + 1].entry \in Nat /\ r[k + 1].entry \in Nat
  BY <1>1, <1>5
<1>8. Entry(q, v, k) <= (IF k = n THEN 0 ELSE q[k + 1].entry) + q[k].left
  BY <1>6
<1>9. CASE k < p
  <2>1. r[k + 1].entry = q[k + 1].entry /\ r[k].entry = q[k].entry /\ k # n
    BY <1>9, <1>1, <1>2
  <2> QED BY <2>1, <1>8 DEF Entry
<1>10. CASE k >= p
  <2>1. CASE k = n
    <3>1. CASE k = p
      <4>1. r[k].entry = q[k].entry
        BY <3>1, <1>2
      <4> QED BY <4>1, <2>1, <1>8 DEF Entry
    <3>2. CASE k > p
      <4>1. /\ k \in (p + 1) .. n /\ k # 1
        BY <3>2, <1>1
      <4>2. back[k] \in Nat /\ back[k] <= q[k].left + 0 /\ r[k].entry <= back[k]
        <5>1. /\ back[k] \in Nat /\ r[k].entry \in Nat
              /\ back[k] <= q[k].left + 0
              /\ r[k].entry = Lesser(back[k], r[k - 1].entry + q[k - 1].left)
          BY <4>1, <2>1, <1>4
        <5>2. r[k - 1].entry \in Nat /\ q[k - 1].left \in Nat
          <6>1. k - 1 \in 1 .. n
            BY <4>1, <1>1
          <6> QED BY <6>1, <1>5
        <5> QED BY <5>1, <5>2 DEF Lesser
      <4> QED BY <4>1, <4>2, <2>1, <1>7 DEF Entry
    <3> QED BY <3>1, <3>2, <1>10, <1>1
  <2>2. CASE k # n
    <3>1. /\ k + 1 \in (p + 1) .. n /\ k + 1 - 1 = k /\ k + 1 \in 1 .. n
      BY <2>2, <1>10, <1>1
    <3>2. /\ back[k + 1] \in Nat /\ q[k + 1].entry <= back[k + 1]
          /\ r[k + 1].entry = Lesser(back[k + 1], r[k].entry + q[k].left)
      <4> DEFINE j == k + 1
      <4>1. j \in (p + 1) .. n /\ j - 1 = k
        BY <3>1
      <4> HIDE DEF j
      <4>2. /\ back[j] \in Nat /\ q[j].entry <= back[j]
            /\ r[j].entry = Lesser(back[j], r[k].entry + q[k].left)
        BY <4>1, <1>3, <1>4
      <4> QED BY <4>2 DEF j
    <3>3. CASE k = p
      <4>1. r[k].entry = q[k].entry
        BY <3>3, <1>2
      <4>2. Entry(r, v, k) = Entry(q, v, k)
        BY <4>1 DEF Entry
      <4>3. Entry(q, v, k) <= q[k].entry /\ Entry(q, v, k) \in Nat
        BY <3>3, <1>7 DEF Entry
      <4>4. Entry(q, v, k) <= q[k + 1].entry + q[k].left
        BY <1>8, <2>2
      <4>5. r[k + 1].entry = back[k + 1] \/ r[k + 1].entry = q[k].entry + q[k].left
        BY <3>2, <4>1 DEF Lesser
      <4>6. Entry(q, v, k) <= r[k + 1].entry + q[k].left
        <5>1. q[k + 1].entry \in Nat /\ back[k + 1] \in Nat /\ q[k + 1].entry <= back[k + 1]
          BY <3>2, <1>7, <2>2
        <5>2. q[k].entry \in Nat /\ q[k].left \in Nat
          BY <1>7
        <5>3. CASE r[k + 1].entry = back[k + 1]
          BY <5>1, <5>2, <5>3, <4>3, <4>4
        <5>4. CASE r[k + 1].entry = q[k].entry + q[k].left
          BY <5>2, <5>4, <4>3
        <5> QED BY <5>3, <5>4, <4>5
      <4> QED BY <4>2, <4>6, <2>2
    <3>4. CASE k > p
      <4>1. k \in (p + 1) .. n /\ k # 1
        BY <3>4, <1>1
      <4>2. r[k].entry <= back[k]
        <5>1. k - 1 \in 1 .. n
          BY <4>1, <1>1
        <5>2. r[k - 1].entry \in Nat /\ q[k - 1].left \in Nat
          BY <5>1, <1>5
        <5> QED BY <4>1, <1>4, <5>2, SMTT(60) DEF Lesser
      <4>3. /\ back[k] \in Nat /\ back[k] <= q[k].max
            /\ back[k] <= q[k].left + IF q[k].entry = q[k].max THEN q[k].max ELSE back[k + 1]
        BY <4>1, <2>2, <1>4
      <4>4. q[k].entry <= q[k + 1].entry + q[k].left
        BY <1>8, <2>2, <4>1 DEF Entry
      <4>5. back[k] <= back[k + 1] + q[k].left
        <5>1. q[k + 1].entry \in Nat /\ back[k + 1] \in Nat /\ q[k + 1].entry <= back[k + 1]
          BY <3>2, <1>7, <2>2
        <5>2. CASE q[k].entry = q[k].max
          <6>1. back[k] <= q[k].entry
            BY <4>3, <5>2
          <6> QED BY <6>1, <5>1, <4>3, <4>4, <1>7, SMTT(60)
        <5>3. CASE q[k].entry # q[k].max
          BY <5>1, <5>3, <4>3, <1>7
        <5> QED BY <5>2, <5>3
      <4>6. r[k].entry <= r[k + 1].entry + q[k].left
        BY <4>2, <4>3, <4>5, <3>2, <1>7, <2>2, SMTT(60) DEF Lesser
      <4> QED BY <4>6, <4>1, <2>2 DEF Entry
    <3> QED BY <3>3, <3>4, <1>10, <1>1
  <2> QED BY <2>1, <2>2
<1> QED BY <1>9, <1>10, <1>1

\* Re-planning leaves every block within its maximum and within the way to stop.
LEMMA RecalculatedLimits ==
  ASSUME NEW q \in Seq(Block), NEW p \in 1 .. Len(q), \A k \in 2 .. p : q[k].entry <= q[k].max
  PROVE  WithinMax(Recalculated(q, p).blocks)
<1> DEFINE r == Recalculated(q, p).blocks
<1>1. /\ Len(q) \in Nat /\ p \in Nat /\ p >= 1 /\ Len(r) = Len(q)
      /\ \A i \in 1 .. Len(q) : r[i].max = q[i].max /\ (i <= p => r[i].entry = q[i].entry)
  BY RecalculatedDef
<1>2. \A i \in (p + 1) .. Len(q) :
           /\ Backward(q, p)[i] \in Nat /\ r[i].entry \in Nat
           /\ Backward(q, p)[i] <= q[i].max
           /\ r[i].entry = Lesser(Backward(q, p)[i], r[i - 1].entry + q[i - 1].left)
  BY BothPasses
<1>3. \A i \in 1 .. Len(q) : q[i].max \in Nat
  BY BlockFields
<1> HIDE DEF r
<1> SUFFICES ASSUME NEW k \in 2 .. Len(q) PROVE r[k].entry <= r[k].max
  BY <1>1 DEF WithinMax, r
<1>4. CASE k <= p
  <2>1. k \in 2 .. p /\ k \in 1 .. Len(q)
    BY <1>4, <1>1
  <2> QED BY <2>1, <1>1
<1>5. CASE k > p
  <2>1. k \in (p + 1) .. Len(q) /\ k \in 1 .. Len(q)
    BY <1>5, <1>1
  <2>2. r[k].entry = Lesser(Backward(q, p)[k], r[k - 1].entry + q[k - 1].left) /\ r[k].max = q[k].max
        /\ r[k].entry \in Nat /\ Backward(q, p)[k] \in Nat /\ Backward(q, p)[k] <= q[k].max
    BY <2>1, <1>1, <1>2
  <2>3. r[k - 1].entry \in Nat /\ q[k - 1].left \in Nat
    <3>1. k - 1 \in 1 .. Len(q)
      BY <2>1, <1>1
    <3>2. r \in Seq(Block)
      BY RecalculatedDef DEF r
    <3> QED BY <3>1, <3>2, BlockFields, <1>1
  <2> QED BY <2>2, <2>3, <1>3 DEF Lesser
<1> QED BY <1>4, <1>5, <1>1

\* A recalculation leaves the queue long enough to stop in.
LEMMA RecalculatedStops ==
  ASSUME NEW q \in Seq(Block), NEW p \in 1 .. Len(q), NEW v \in Nat, NEW w, Stoppable(q, v, w)
  PROVE  Stoppable(Recalculated(q, p).blocks, v, w)
<1> DEFINE r == Recalculated(q, p).blocks
<1>1. /\ Len(q) \in Nat /\ p \in Nat /\ p >= 1 /\ Len(r) = Len(q) /\ r \in Seq(Block)
      /\ \A i \in 1 .. Len(q) : r[i].left = q[i].left /\ (i <= p => r[i].entry = q[i].entry)
  BY RecalculatedDef
<1>2. \A i \in (p + 1) .. Len(q) :
           /\ Backward(q, p)[i] \in Nat
           /\ r[i].entry = Lesser(Backward(q, p)[i], r[i - 1].entry + q[i - 1].left)
  BY BothPasses
<1>3. \A i \in (p + 1) .. Len(q) : Backward(q, p)[i] <= w[i]
  BY BackwardStops DEF Stoppable
<1>4. Way(q, w) /\ v <= w[1] /\ \A k \in 2 .. Len(q) : q[k].entry <= w[k]
  BY DEF Stoppable
<1> HIDE DEF r
<1>5. Way(r, w)
  BY <1>1, <1>4 DEF Way
<1>6. ASSUME NEW k \in 2 .. Len(q) PROVE r[k].entry <= w[k]
  <2>1. CASE k <= p
    BY <2>1, <1>1, <1>4
  <2>2. CASE k > p
    <3>1. k \in (p + 1) .. Len(q) /\ k - 1 \in 1 .. Len(q) /\ k \in 1 .. Len(q) + 1
      BY <2>2, <1>1
    <3>2. r[k - 1].entry \in Nat /\ q[k - 1].left \in Nat /\ w[k] \in Nat
      BY <3>1, <1>1, <1>4, BlockFields DEF Way
    <3> QED BY <3>1, <3>2, <1>2, <1>3, SMTT(60) DEF Lesser
  <2> QED BY <2>1, <2>2, <1>1
<1> QED BY <1>1, <1>4, <1>5, <1>6 DEF Stoppable, r

\* Re-planning from p on leaves no block faster than it can be reached, and every
\* block as fast as one of its limits: if the part up to p was like that and p final.
LEMMA RecalculatedTight ==
  ASSUME NEW q \in Seq(Block), NEW p \in 1 .. Len(q), NEW v \in Nat,
         p = 1 => v = q[1].entry,
         ReachedUpTo(q, v, p), \A k \in 2 .. p : TightAt(q, v, k), Final(q, v, p)
  PROVE  LET r == Recalculated(q, p) IN
         /\ ReachedUpTo(r.blocks, v, Len(q))
         /\ \A k \in 2 .. Len(q) : TightAt(r.blocks, v, k)
         /\ Final(r.blocks, v, r.planned)
<1> DEFINE n == Len(q)
           r == Recalculated(q, p).blocks
           m == Recalculated(q, p).planned
           back == Backward(q, p)
           fwd == Forward(q, p)
<1>1. n \in Nat /\ p \in Nat /\ p >= 1 /\ p <= n
  OBVIOUS
<1>2. /\ r \in Seq(Block) /\ Len(r) = n
      /\ \A i \in 1 .. n : /\ r[i].left = q[i].left /\ r[i].max = q[i].max
                           /\ r[i].entry = IF i > p THEN fwd[i] ELSE q[i].entry
      /\ m \in p .. n
      /\ \/ m = p
         \/ /\ m \in p + 1 .. n
            /\ fwd[m - 1] + q[m - 1].left < back[m] \/ fwd[m] = q[m].max
  BY RecalculatedDef
<1>3. \A i \in (p + 1) .. n :
           /\ back[i] \in Nat
           /\ \/ back[i] = q[i].max
              \/ back[i] = q[i].left + IF i = n THEN 0 ELSE back[i + 1]
           /\ r[i].entry = Lesser(back[i], r[i - 1].entry + q[i - 1].left)
  BY BothPasses
<1>4. \A i \in 1 .. n : q[i].left \in Nat /\ r[i].entry \in Nat /\ q[i].max \in Nat
  BY <1>2, BlockFields
<1>5. fwd[p] = q[p].entry
  BY ForwardDef
<1> HIDE DEF r, m, back, fwd
<1>6. \A i \in 1 .. n : Entry(r, v, i) \in Nat /\ (i > p => Entry(r, v, i) = r[i].entry)
                        /\ (i <= p => Entry(r, v, i) = Entry(q, v, i))
  BY <1>1, <1>2, <1>4 DEF Entry
<1>7. Entry(r, v, p) = r[p].entry
  BY <1>1, <1>2 DEF Entry
<1> HIDE DEF n

\* Behind p the forward pass decides.
<1>8. \A k \in (p + 1) .. n : /\ k \in 2 .. n /\ k - 1 \in p .. n /\ k - 1 \in 1 .. n
                              /\ Entry(r, v, k - 1) = r[k - 1].entry
                              /\ r[k].entry = Lesser(back[k], Entry(r, v, k - 1) + q[k - 1].left)
  <2> SUFFICES ASSUME NEW k \in (p + 1) .. n
               PROVE  /\ k \in 2 .. n /\ k - 1 \in p .. n /\ k - 1 \in 1 .. n
                      /\ Entry(r, v, k - 1) = r[k - 1].entry
                      /\ r[k].entry = Lesser(back[k], Entry(r, v, k - 1) + q[k - 1].left)
    OBVIOUS
  <2>1. k \in 2 .. n /\ k - 1 \in p .. n /\ k - 1 \in 1 .. n
    BY <1>1
  <2>2. Entry(r, v, k - 1) = r[k - 1].entry
    BY <2>1, <1>6, <1>7, <1>1
  <2> QED BY <2>1, <2>2, <1>3
<1>9. \A k \in 2 .. n : k > p => k \in (p + 1) .. n
  BY <1>1
<1>10. \A k \in 2 .. n : k <= p => k \in 2 .. p /\ k - 1 \in 1 .. n /\ k - 1 <= p /\ k \in 1 .. n
  BY <1>1
<1>11. ASSUME NEW k \in 2 .. n PROVE r[k].entry <= Entry(r, v, k - 1) + r[k - 1].left
  <2>1. CASE k > p
    <3>1. k \in (p + 1) .. n
      BY <2>1, <1>9
    <3>2. Entry(r, v, k - 1) \in Nat /\ q[k - 1].left \in Nat /\ r[k - 1].left = q[k - 1].left
      BY <3>1, <1>8, <1>6, <1>4, <1>2
    <3> QED BY <3>1, <3>2, <1>3, <1>8 DEF Lesser
  <2>2. CASE k <= p
    <3>1. k \in 2 .. p /\ k - 1 \in 1 .. n /\ k - 1 <= p /\ k \in 1 .. n /\ ~ (k > p)
      BY <2>2, <1>10, <1>1
    <3>2. q[k].entry <= Entry(q, v, k - 1) + q[k - 1].left
      BY <3>1 DEF ReachedUpTo
    <3>3. r[k].entry = q[k].entry /\ r[k - 1].left = q[k - 1].left /\ Entry(r, v, k - 1) = Entry(q, v, k - 1)
      BY <3>1, <1>2, <1>6
    <3> QED BY <3>2, <3>3
  <2> QED BY <2>1, <2>2, <1>1
<1>12. ASSUME NEW k \in 2 .. n, k <= p PROVE AtLimit(q, v, k) => AtLimit(r, v, k)
  BY <1>10, <1>12, <1>2, <1>6 DEF AtLimit
<1>13. ASSUME NEW k \in 2 .. n PROVE TightAt(r, v, k)
  <2>1. CASE k < p
    <3>1. k \in 2 .. p /\ k # n /\ k + 1 \in 1 .. n /\ k + 1 <= p /\ k \in 1 .. n
      BY <2>1, <1>1
    <3>2. CASE AtLimit(q, v, k)
      BY <3>2, <2>1, <1>12 DEF TightAt
    <3>3. CASE q[k].entry = Onward(q, k) + q[k].left
      <4>1. Onward(q, k) = q[k + 1].entry /\ Onward(r, k) = r[k + 1].entry
        BY <3>1, <1>2 DEF Onward, n
      <4>2. r[k + 1].entry = q[k + 1].entry /\ r[k].entry = q[k].entry /\ r[k].left = q[k].left
        BY <3>1, <1>2, <2>1, <1>1
      <4> QED BY <4>1, <4>2, <3>3 DEF TightAt
    <3> QED BY <3>1, <3>2, <3>3 DEF TightAt
  <2>2. CASE k = p
    BY <2>2, <1>12, <1>1 DEF Final, TightAt
  <2>3. CASE k > p
    <3>1. k \in (p + 1) .. n /\ k - 1 \in 1 .. n
      BY <2>3, <1>9, <1>8
    <3>2. /\ back[k] \in Nat /\ Entry(r, v, k - 1) \in Nat /\ q[k - 1].left \in Nat
          /\ r[k - 1].left = q[k - 1].left /\ r[k].left = q[k].left /\ r[k].max = q[k].max
          /\ r[k].entry = Lesser(back[k], Entry(r, v, k - 1) + q[k - 1].left)
          /\ \/ back[k] = q[k].max
             \/ back[k] = q[k].left + IF k = n THEN 0 ELSE back[k + 1]
          /\ q[k].left \in Nat
      BY <3>1, <1>2, <1>3, <1>4, <1>6, <1>8
    <3>3. CASE r[k].entry = Entry(r, v, k - 1) + q[k - 1].left
      BY <3>2, <3>3 DEF TightAt, AtLimit
    <3>4. CASE r[k].entry = back[k] /\ back[k] = q[k].max
      BY <3>2, <3>4 DEF TightAt, AtLimit
    <3>5. CASE r[k].entry = back[k] /\ k = n /\ back[k] = q[k].left + 0
      BY <3>2, <3>5, <1>2 DEF TightAt, Onward, n
    <3>6. CASE r[k].entry = back[k] /\ k # n /\ back[k] = q[k].left + back[k + 1]
      <4> DEFINE j == k + 1
      <4>1. j \in (p + 1) .. n /\ j - 1 = k
        BY <3>1, <3>6, <1>1
      <4>2. Entry(r, v, k) = r[k].entry
        BY <3>1, <1>1 DEF Entry
      <4> HIDE DEF j
      <4>3. back[j] \in Nat /\ r[j].entry = Lesser(back[j], r[k].entry + q[k].left)
        BY <4>1, <4>2, <1>3, <1>8
      <4>4. back[k] = q[k].left + back[j]
        BY <3>6 DEF j
      <4>5. r[j].entry = back[j]
        <5>1. r[k].entry = q[k].left + back[j] /\ q[k].left \in Nat /\ back[j] \in Nat
          BY <4>3, <4>4, <3>2, <3>6
        <5>2. ~ (r[k].entry + q[k].left < back[j])
          BY <5>1
        <5>3. r[j].entry = IF back[j] < r[k].entry + q[k].left THEN back[j] ELSE r[k].entry + q[k].left
          BY <4>3 DEF Lesser
        <5> QED BY <5>1, <5>2, <5>3
      <4>6. Onward(r, k) = r[j].entry
        BY <3>6, <1>2 DEF Onward, j, n
      <4>7. r[k].entry = Onward(r, k) + r[k].left
        <5>1. r[k].entry = q[k].left + back[j]
          BY <3>6, <4>4
        <5>2. Onward(r, k) = back[j] /\ r[k].left = q[k].left
          BY <3>2, <4>5, <4>6
        <5>3. q[k].left \in Nat /\ back[j] \in Nat
          BY <3>2, <4>3
        <5>4. q[k].left + back[j] = back[j] + q[k].left
          BY <5>3
        <5> QED BY <5>1, <5>2, <5>4
      <4> QED BY <4>7 DEF TightAt
    <3>7. r[k].entry = back[k] \/ r[k].entry = Entry(r, v, k - 1) + q[k - 1].left
      BY <3>2 DEF Lesser
    <3> QED BY <3>2, <3>3, <3>4, <3>5, <3>6, <3>7
  <2> QED BY <2>1, <2>2, <2>3, <1>1
<1>14. Final(r, v, m)
  <2> SUFFICES ASSUME m > 1 PROVE AtLimit(r, v, m)
    BY DEF Final
  <2>1. m \in 2 .. n
    BY <1>1, <1>2
  <2>2. CASE m = p
    BY <2>1, <2>2, <1>12 DEF Final
  <2>3. CASE m # p
    <3>1. m \in (p + 1) .. n /\ m \in 1 .. n
      BY <2>3, <1>1, <1>2
    <3>2. m - 1 \in p .. n /\ m - 1 \in 1 .. n /\ Entry(r, v, m - 1) = r[m - 1].entry
          /\ r[m].entry = Lesser(back[m], Entry(r, v, m - 1) + q[m - 1].left)
      BY <3>1, <1>8
    <3>3. r[m - 1].entry = fwd[m - 1]
      <4>1. CASE m - 1 = p
        BY <4>1, <3>2, <1>2, <1>5, <1>1
      <4>2. CASE m - 1 > p
        BY <4>2, <3>2, <1>2
      <4> QED BY <4>1, <4>2, <3>2, <1>1
    <3>4. r[m].entry = fwd[m] /\ r[m].max = q[m].max /\ r[m - 1].left = q[m - 1].left
      BY <3>1, <3>2, <1>1, <1>2
    <3>5. back[m] \in Nat /\ r[m - 1].entry \in Nat /\ q[m - 1].left \in Nat
      BY <3>1, <3>2, <1>3, <1>4
    <3>6. CASE fwd[m - 1] + q[m - 1].left < back[m]
      BY <3>2, <3>3, <3>4, <3>5, <3>6 DEF AtLimit, Lesser
    <3>7. CASE fwd[m] = q[m].max
      BY <3>4, <3>7 DEF AtLimit
    <3> QED BY <3>6, <3>7, <2>3, <1>2
  <2> QED BY <2>2, <2>3
<1> QED BY <1>11, <1>13, <1>14 DEF ReachedUpTo, n, r, m
-----------------------------------------------------------------------------

\* The places of the blocks are what their equation says.
LEMMA PlacesDef ==
  ASSUME NEW q \in Seq(Block)
  PROVE  /\ Places(q) \in [1 .. Len(q) + 1 -> Nat]
         /\ Places(q)[1] = 0
         /\ \A i \in 1 .. Len(q) : Places(q)[i + 1] = Places(q)[i] + q[i].left
<1> DEFINE n == Len(q)
           b == n + 1
           D == 1 .. b
           Rhs(g, i) == IF i = 1 THEN 0 ELSE g[i - 1] + q[i - 1].left
           F == [x \in D \X Nat |-> IF x[1] = 1 THEN 0 ELSE x[2] + q[x[1] - 1].left]
<1> HIDE DEF F
<1>0. n \in Nat /\ b \in Int /\ 1 \in Int /\ 0 \in Nat /\ 1 \in D
  OBVIOUS
<1>1. \A i \in D : i # 1 => i - 1 \in 1 .. n /\ i - 1 \in D
  BY <1>0
<1>2. \A i \in 1 .. n : q[i].left \in Nat
  BY BlockFields
<1>3. F \in [(1 .. b) \X Nat -> Nat]
  <2> SUFFICES ASSUME NEW i \in D, NEW y \in Nat, i # 1 PROVE y + q[i - 1].left \in Nat
    BY DEF F
  <2> QED BY <1>1, <1>2
<1>4. \E g \in [D -> Nat] : \A i \in D : g[i] = Rhs(g, i)
  <2> HIDE DEF b
  <2>1. PICK g \in [1 .. b -> Nat] : Recursion(g, 1, b, 0, F)
    BY <1>0, <1>3, RecursionUp
  <2>2. g \in [D -> Nat] /\ \A i \in D : g[i] = IF i = 1 THEN 0 ELSE F[<<i, g[i - 1]>>]
    BY <2>1 DEF Recursion
  <2>3. \A i \in D : i # 1 => F[<<i, g[i - 1]>>] = Rhs(g, i)
    BY <1>1, <2>1 DEF F
  <2>4. \A i \in D : g[i] = Rhs(g, i)
    BY <2>2, <2>3
  <2> QED BY <2>1, <2>4
<1>5. Places(q) = CHOOSE f : f = [i \in D |-> Rhs(f, i)]
  BY DEF Places
<1> HIDE DEF Rhs
<1>6. PICK g \in [D -> Nat] : \A i \in D : g[i] = Rhs(g, i)
  BY <1>4
<1>7. g = [i \in D |-> Rhs(g, i)]
  BY <1>6
<1>8. Places(q) = [i \in D |-> Rhs(Places(q), i)]
  BY <1>7, <1>5
<1> DEFINE f == Places(q)
<1> HIDE DEF f
<1>9. f = [i \in D |-> Rhs(f, i)]
  BY <1>8 DEF f
<1>10. \A i \in D : f[i] = Rhs(f, i)
  BY <1>9
<1>11. f[1] = 0
  BY <1>0, <1>10 DEF Rhs
<1>12. \A i \in 1 .. n : f[i + 1] = f[i] + q[i].left
  <2> SUFFICES ASSUME NEW i \in 1 .. n PROVE f[i + 1] = f[i] + q[i].left
    OBVIOUS
  <2> DEFINE j == i + 1
  <2>1. j \in D /\ j # 1 /\ j - 1 = i
    BY <1>0
  <2> HIDE DEF j
  <2>2. f[j] = f[i] + q[i].left
    BY <2>1, <1>10 DEF Rhs
  <2> QED BY <2>2 DEF j
<1>13. f \in [D -> Nat]
  <2> DEFINE Z == {i \in D : f[i] \in Nat}
  <2>1. 1 \in Z
    BY <1>0, <1>11
  <2>2. ASSUME NEW i \in 1 .. b - 1, i \in Z PROVE i + 1 \in Z
    <3>1. i \in 1 .. n /\ i + 1 \in D
      BY <1>0, <2>2
    <3>2. f[i + 1] = f[i] + q[i].left /\ q[i].left \in Nat /\ f[i] \in Nat
      BY <1>2, <1>12, <2>2, <3>1
    <3> HIDE DEF D
    <3> QED BY <3>1, <3>2
  <2> HIDE DEF Z, b
  <2>3. 1 .. b \subseteq Z
    BY <2>1, <2>2, <1>0, Upward
  <2>4. \A i \in D : f[i] \in Nat
    BY <2>3 DEF Z
  <2> QED BY <2>4, <1>9
<1> QED BY <1>11, <1>12, <1>13 DEF f

\* The speed of a plan at the start of block k, and at the end.
SpeedAt(q, v, k) == IF k = Len(q) + 1 THEN 0 ELSE Entry(q, v, k)

\* Between any two points of a plan that can be driven, the speed changes by no
\* more than the way from one to the other.
LEMMA SpeedsApart ==
  ASSUME NEW q \in Seq(Block), NEW v \in Nat, q # <<>>, Feasible(q, v), ReachedUpTo(q, v, Len(q)),
         NEW i \in 1 .. Len(q) + 1, NEW j \in i .. Len(q) + 1
  PROVE  /\ Places(q)[i] <= Places(q)[j]
         /\ SpeedAt(q, v, i) <= SpeedAt(q, v, j) + (Places(q)[j] - Places(q)[i])
         /\ SpeedAt(q, v, j) <= SpeedAt(q, v, i) + (Places(q)[j] - Places(q)[i])
<1> DEFINE n == Len(q)
           b == n + 1
           at == Places(q)
           e(k) == SpeedAt(q, v, k)
           P(k) == /\ at[i] <= at[k] /\ e(i) <= e(k) + (at[k] - at[i]) /\ e(k) <= e(i) + (at[k] - at[i])
           T == {k \in i .. b : P(k)}
<1>1. n \in Nat /\ n >= 1 /\ b \in Int /\ i \in Int
  OBVIOUS
<1>2. \A k \in 1 .. b : at[k] \in Nat
  BY PlacesDef
<1>3. \A k \in 1 .. n : at[k + 1] = at[k] + q[k].left /\ q[k].left \in Nat
  BY PlacesDef, BlockFields
<1>4. \A k \in 1 .. b : e(k) \in Nat
  <2> SUFFICES ASSUME NEW k \in 1 .. b PROVE e(k) \in Nat
    OBVIOUS
  <2>1. CASE k = b
    BY <2>1 DEF SpeedAt
  <2>2. CASE k # b
    <3>1. k \in 1 .. n
      BY <2>2, <1>1
    <3> QED BY <3>1, BlockFields DEF SpeedAt, Entry
  <2> QED BY <2>1, <2>2
<1>5. ASSUME NEW k \in 1 .. n PROVE e(k) <= e(k + 1) + q[k].left /\ e(k + 1) <= e(k) + q[k].left
  <2>1. e(k) = Entry(q, v, k)
    BY <1>1 DEF SpeedAt
  <2>2. e(k + 1) = Onward(q, k)
    BY <1>1 DEF SpeedAt, Onward, Entry
  <2>3. e(k) <= e(k + 1) + q[k].left
    BY <2>1, <2>2 DEF Feasible
  <2>4. CASE k = n
    <3>1. e(k) \in Nat /\ q[k].left \in Nat
      BY <1>1, <1>3, <1>4
    <3>2. e(k + 1) = 0
      BY <2>4, <2>2 DEF Onward
    <3> HIDE DEF e
    <3>3. 0 <= e(k) + q[k].left
      BY <3>1
    <3> QED BY <3>2, <3>3, <2>3
  <2>5. CASE k # n
    <3>1. k + 1 \in 2 .. n /\ k + 1 - 1 = k
      BY <2>5, <1>1
    <3> DEFINE m == k + 1
    <3>2. m \in 2 .. n /\ m - 1 = k
      BY <3>1
    <3> HIDE DEF m
    <3>3. q[m].entry <= Entry(q, v, k) + q[k].left
      BY <3>2 DEF ReachedUpTo
    <3> QED BY <3>3, <2>1, <2>2, <2>3, <2>5 DEF m, Onward
  <2> QED BY <2>3, <2>4, <2>5
<1> HIDE DEF e, at
<1>6. i \in T
  BY <1>1, <1>2, <1>4
<1>7. ASSUME NEW k \in i .. b - 1, k \in T PROVE k + 1 \in T
  <2> DEFINE m == k + 1
  <2>1. k \in 1 .. n /\ k \in 1 .. b /\ m \in 1 .. b /\ m \in i .. b /\ i \in 1 .. b
    BY <1>1
  <2>2. at[m] = at[k] + q[k].left /\ q[k].left \in Nat /\ e(k) <= e(m) + q[k].left /\ e(m) <= e(k) + q[k].left
    BY <2>1, <1>3, <1>5
  <2>3. at[m] \in Nat /\ at[k] \in Nat /\ at[i] \in Nat /\ e(m) \in Nat /\ e(k) \in Nat /\ e(i) \in Nat
    BY <2>1, <1>2, <1>4
  <2>4. P(k)
    BY <1>7
  <2> HIDE DEF m
  <2>a. \A ai, ak, am, ei, ek, em, l \in Nat :
          /\ ai <= ak /\ ei <= ek + (ak - ai) /\ ek <= ei + (ak - ai)
          /\ am = ak + l /\ ek <= em + l /\ em <= ek + l
          => ai <= am /\ ei <= em + (am - ai) /\ em <= ei + (am - ai)
    OBVIOUS
  <2>5. P(m)
    BY <2>a, <2>2, <2>3, <2>4
  <2> QED BY <2>1, <2>5 DEF m
<1>8. i .. b \subseteq T
  <2> HIDE DEF T, b
  <2> QED BY <1>1, <1>6, <1>7, Upward
<1>9. j \in T
  BY <1>8
<1> QED BY <1>9 DEF e, at

\* What the two chains of limits use of the ways and the blocks.
LEMMA Ways ==
  ASSUME NEW q \in Seq(Block), NEW i \in 1 .. Len(q)
  PROVE  /\ Places(q)[i] \in Nat /\ Places(q)[i + 1] \in Nat
         /\ Places(q)[i + 1] = Places(q)[i] + q[i].left
         /\ q[i].left \in Nat /\ q[i].left > 0 /\ q[i].max \in Nat /\ q[i].entry \in Nat
<1>1. i \in 1 .. Len(q) + 1 /\ i + 1 \in 1 .. Len(q) + 1
  OBVIOUS
<1> QED BY <1>1, PlacesDef, BlockFields

\* What limits a block that is reached from before: the maximum of a block before
\* it, or the speed now.
LEMMA LimitBefore ==
  ASSUME NEW q \in Seq(Block), NEW v \in Nat,
         \A k \in 2 .. Len(q) : TightAt(q, v, k),
         NEW k \in 2 .. Len(q), q[k].entry = Entry(q, v, k - 1) + q[k - 1].left
  PROVE  \/ q[k].entry = v + Places(q)[k]
         \/ \E j \in 2 .. k : q[k].entry = q[j].max + (Places(q)[k] - Places(q)[j])
<1> DEFINE n == Len(q)
           at == Places(q)
           e(i) == Entry(q, v, i)
           From(i) == \/ e(i) = v + at[i]
                      \/ \E j \in 2 .. i : e(i) = q[j].max + (at[i] - at[j])
           T == {i \in 1 .. n : i = 1 \/ (q[i].entry = e(i - 1) + q[i - 1].left => From(i))}
<1>1. n \in Nat /\ n >= 2 /\ 1 \in Int /\ n \in Int
  OBVIOUS
<1>2. at[1] = 0 /\ \A i \in 1 .. n : at[i] \in Nat /\ at[i + 1] = at[i] + q[i].left
                     /\ q[i].left \in Nat /\ q[i].left > 0 /\ q[i].max \in Nat /\ q[i].entry \in Nat
  BY PlacesDef, Ways
<1>3. \A i \in 1 .. n : e(i) \in Nat /\ (i # 1 => e(i) = q[i].entry)
  BY <1>2 DEF Entry
<1>4. \A i \in 2 .. n : AtLimit(q, v, i) \/ (i # n /\ q[i].entry = q[i + 1].entry + q[i].left)
                        \/ (i = n /\ q[i].entry = q[i].left)
  BY <1>2 DEF TightAt, Onward
<1>5. \A i \in 2 .. n : AtLimit(q, v, i) =>
         q[i].entry = q[i].max \/ q[i].entry = e(i - 1) + q[i - 1].left
  BY DEF AtLimit
<1>6. e(1) = v
  BY DEF Entry
<1> HIDE DEF at, e, n
<1>7. 1 \in T
  BY <1>1
<1>8. ASSUME NEW i \in 1 .. n - 1, i \in T PROVE i + 1 \in T
  <2> DEFINE m == i + 1
  <2>1. m \in 2 .. n /\ m \in 1 .. n /\ m - 1 = i /\ m # 1 /\ i \in 1 .. n
    BY <1>1
  <2>2. at[m] = at[i] + q[i].left /\ at[i] \in Nat /\ at[m] \in Nat /\ q[i].left \in Nat
        /\ q[i].max \in Nat /\ q[i].left > 0 /\ e(i) \in Nat /\ q[m].entry \in Nat
    BY <2>1, <1>2, <1>3
  <2>3. e(m) = q[m].entry
    BY <2>1, <1>3
  <2>4. (i # n /\ q[i].entry = q[i + 1].entry + q[i].left) => q[i].entry = q[m].entry + q[i].left
    OBVIOUS
  <2>4a. i # n
    BY <2>1, <1>1
  <2> HIDE DEF m
  <2> SUFFICES ASSUME q[m].entry = e(i) + q[i].left PROVE From(m)
    BY <2>1 DEF m
  <2>5. CASE i = 1
    <3>1. at[m] = q[i].left /\ e(i) = v
      BY <2>5, <2>2, <1>2, <1>6
    <3>2. e(m) = v + at[m]
      BY <3>1, <2>3
    <3> QED BY <3>2
  <2>6. CASE i # 1 /\ q[i].entry = q[i].max
    <3>1. e(i) = q[i].max /\ i \in 2 .. m
      BY <2>6, <2>1, <1>3
    <3>2. e(m) = q[i].max + (at[m] - at[i])
      BY <3>1, <2>2, <2>3, SMTT(60)
    <3> QED BY <3>1, <3>2
  <2>7. CASE i # 1 /\ q[i].entry = e(i - 1) + q[i - 1].left
    <3>1. From(i)
      BY <1>8, <2>7
    <3>2. CASE e(i) = v + at[i]
      <4>1. q[m].entry = (v + at[i]) + q[i].left
        BY <3>2
      <4>2. (v + at[i]) + q[i].left = v + (at[i] + q[i].left)
        BY <2>2
      <4>3. e(m) = v + at[m]
        BY <4>1, <4>2, <2>2, <2>3
      <4> QED BY <4>3
    <3>3. CASE \E j \in 2 .. i : e(i) = q[j].max + (at[i] - at[j])
      <4>1. PICK j \in 2 .. i : e(i) = q[j].max + (at[i] - at[j])
        BY <3>3
      <4>2. j \in 2 .. m /\ j \in 1 .. n
        BY <2>1, <1>1
      <4>3. q[j].max \in Nat /\ at[j] \in Nat
        BY <4>2, <1>2
      <4>4. e(m) = q[j].max + (at[m] - at[j])
        <5>1. /\ e(i) = q[j].max + (at[i] - at[j]) /\ e(m) = e(i) + q[i].left /\ at[m] = at[i] + q[i].left
              /\ e(m) \in Nat /\ e(i) \in Nat /\ q[i].left \in Nat /\ q[j].max \in Nat
              /\ at[m] \in Nat /\ at[i] \in Nat /\ at[j] \in Nat
          BY <4>1, <4>3, <2>2, <2>3
        <5> DEFINE em == e(m)   ei == e(i)   l == q[i].left   mx == q[j].max
                   am == at[m]  ai == at[i]  aj == at[j]
        <5>2. /\ ei = mx + (ai - aj) /\ em = ei + l /\ am = ai + l
              /\ em \in Nat /\ ei \in Nat /\ l \in Nat /\ mx \in Nat /\ am \in Nat /\ ai \in Nat /\ aj \in Nat
          BY <5>1
        <5> HIDE DEF em, ei, l, mx, am, ai, aj
        <5>3. em = mx + (am - aj)
          BY <5>2
        <5> QED BY <5>3 DEF em, mx, am, aj
      <4> QED BY <4>2, <4>4
    <3> QED BY <3>1, <3>2, <3>3
  <2>8. CASE i # 1 /\ q[i].entry = q[m].entry + q[i].left
    <3>1. q[i].entry = e(i)
      BY <2>1, <2>8, <1>3
    <3> QED BY <3>1, <2>2, <2>8
  <2> QED BY <2>1, <2>4, <2>4a, <2>5, <2>6, <2>7, <2>8, <1>4, <1>5
<1>9. 1 .. n \subseteq T
  <2> HIDE DEF T
  <2> QED BY <1>1, <1>7, <1>8, Upward
<1>10. k \in T /\ k # 1
  <2>1. k \in 1 .. n /\ k # 1
    BY DEF n
  <2> QED BY <2>1, <1>9
<1>11. e(k) = q[k].entry /\ q[k].entry = e(k - 1) + q[k - 1].left
  BY <1>3, <1>10 DEF e, n
<1> QED BY <1>10, <1>11 DEF at

\* What limits a block that has to brake for what is behind it: the maximum of a
\* block behind it, or the end.
LEMMA LimitBehind ==
  ASSUME NEW q \in Seq(Block), NEW v \in Nat,
         \A k \in 2 .. Len(q) : TightAt(q, v, k),
         NEW k \in 2 .. Len(q), q[k].entry = Onward(q, k) + q[k].left
  PROVE  \/ q[k].entry = Places(q)[Len(q) + 1] - Places(q)[k]
         \/ \E j \in k + 1 .. Len(q) : q[k].entry = q[j].max + (Places(q)[j] - Places(q)[k])
<1> DEFINE n == Len(q)
           at == Places(q)
           From(i) == \/ q[i].entry = at[n + 1] - at[i]
                      \/ \E j \in i + 1 .. n : q[i].entry = q[j].max + (at[j] - at[i])
           T == {i \in 2 .. n : q[i].entry = Onward(q, i) + q[i].left => From(i)}
<1>1. n \in Nat /\ n >= 2 /\ 2 \in Int /\ n \in Int /\ n \in 1 .. n /\ n \in 2 .. n
  OBVIOUS
<1>2. \A i \in 1 .. n : at[i] \in Nat /\ at[i + 1] \in Nat /\ at[i + 1] = at[i] + q[i].left
                     /\ q[i].left \in Nat /\ q[i].left > 0 /\ q[i].max \in Nat /\ q[i].entry \in Nat
  BY Ways
<1>3. \A i \in 2 .. n : /\ i # n => Onward(q, i) = q[i + 1].entry
                        /\ i = n => Onward(q, i) = 0
                        /\ i # 2 => Entry(q, v, i - 1) = q[i - 1].entry
  BY DEF Entry, Onward
<1>4. \A i \in 2 .. n : \/ q[i].entry = q[i].max
                        \/ q[i].entry = Entry(q, v, i - 1) + q[i - 1].left
                        \/ q[i].entry = Onward(q, i) + q[i].left
  BY DEF TightAt, AtLimit
<1> HIDE DEF at, n
<1>5. n \in T
  <2>1. Onward(q, n) = 0 /\ at[n + 1] = at[n] + q[n].left /\ at[n] \in Nat /\ q[n].left \in Nat
    BY <1>1, <1>2, <1>3
  <2>2. q[n].entry = Onward(q, n) + q[n].left => From(n)
    BY <2>1
  <2> QED BY <2>2, <1>1
<1>6. ASSUME NEW i \in 2 .. n - 1, i + 1 \in T PROVE i \in T
  <2> DEFINE m == i + 1
  <2>1. m \in 2 .. n /\ m \in 1 .. n /\ i \in 2 .. n /\ i \in 1 .. n /\ m - 1 = i /\ i # n /\ m # 2
    BY <1>1
  <2>2. at[m] = at[i] + q[i].left /\ at[i] \in Nat /\ at[m] \in Nat /\ q[i].left \in Nat /\ q[i].left > 0
        /\ q[m].max \in Nat /\ q[m].entry \in Nat /\ q[i].entry \in Nat
    BY <2>1, <1>2
  <2>3. Onward(q, i) = q[m].entry
    BY <2>1, <1>3
  <2>4. m \in T
    BY <1>6
  <2> HIDE DEF m
  <2> SUFFICES ASSUME q[i].entry = q[m].entry + q[i].left PROVE From(i)
    BY <2>1, <2>3
  <2>5. m \in i + 1 .. n
    BY <2>1 DEF m
  <2>6. CASE q[m].entry = q[m].max
    <3>1. q[i].entry = q[m].max + (at[m] - at[i])
      BY <2>6, <2>2
    <3> QED BY <3>1, <2>5
  <2>7. CASE q[m].entry = Entry(q, v, m - 1) + q[m - 1].left
    <3>1. q[m].entry = q[i].entry + q[i].left
      BY <2>7, <2>1, <1>3
    <3> QED BY <3>1, <2>2
  <2>8. CASE q[m].entry = Onward(q, m) + q[m].left
    <3>1. From(m)
      BY <2>4, <2>8
    <3>2. CASE q[m].entry = at[n + 1] - at[m]
      <4>1. at[n + 1] \in Nat
        BY <1>1, <1>2
      <4>2. q[i].entry = at[n + 1] - at[i]
        BY <4>1, <3>2, <2>2, SMTT(60)
      <4> QED BY <4>2
    <3>3. CASE \E j \in m + 1 .. n : q[m].entry = q[j].max + (at[j] - at[m])
      <4>1. PICK j \in m + 1 .. n : q[m].entry = q[j].max + (at[j] - at[m])
        BY <3>3
      <4>2. j \in i + 1 .. n /\ j \in 1 .. n
        BY <2>1, <2>5
      <4>3. q[j].max \in Nat /\ at[j] \in Nat
        BY <4>2, <1>2
      <4>4. q[i].entry = q[j].max + (at[j] - at[i])
        <5>1. /\ q[m].entry = q[j].max + (at[j] - at[m]) /\ q[i].entry = q[m].entry + q[i].left
              /\ at[m] = at[i] + q[i].left
              /\ q[m].entry \in Nat /\ q[i].entry \in Nat /\ q[i].left \in Nat /\ q[j].max \in Nat
              /\ at[m] \in Nat /\ at[i] \in Nat /\ at[j] \in Nat
          BY <4>1, <4>3, <2>2
        <5> DEFINE em == q[m].entry  ei == q[i].entry  l == q[i].left  mx == q[j].max
                   am == at[m]  ai == at[i]  aj == at[j]
        <5>2. /\ em = mx + (aj - am) /\ ei = em + l /\ am = ai + l
              /\ em \in Nat /\ ei \in Nat /\ l \in Nat /\ mx \in Nat /\ am \in Nat /\ ai \in Nat /\ aj \in Nat
          BY <5>1
        <5> HIDE DEF em, ei, l, mx, am, ai, aj
        <5>3. ei = mx + (aj - ai)
          BY <5>2, SMTT(60)
        <5> QED BY <5>3 DEF ei, mx, ai, aj
      <4> QED BY <4>2, <4>4
    <3> QED BY <3>1, <3>2, <3>3
  <2> QED BY <2>1, <2>6, <2>7, <2>8, <1>4
<1>7. 2 .. n \subseteq T
  <2> HIDE DEF T
  <2> QED BY <1>1, <1>5, <1>6, Downward
<1>8. k \in T
  BY <1>7 DEF n
<1> QED BY <1>8 DEF at, n

\* The minimum of a set that has one.
LEMMA MinIs ==
  ASSUME NEW T \in SUBSET Int, NEW x \in T, \A y \in T : x <= y
  PROVE  Min(T) = x
<1>1. \E m \in T : \A y \in T : m <= y
  OBVIOUS
<1>2. Min(T) \in T /\ \A y \in T : Min(T) <= y
  BY <1>1 DEF Min
<1>3. Min(T) <= x /\ x <= Min(T)
  BY <1>2
<1>4. Min(T) \in Int /\ x \in Int
  BY <1>2
<1> QED BY <1>3, <1>4

\* A plan that can be driven, and in which every block is as fast as one of its
\* limits, is the fastest one.
LEMMA TightIsBest ==
  ASSUME NEW q \in Seq(Block), NEW v \in Nat, Feasible(q, v), ReachedUpTo(q, v, Len(q)), WithinMax(q),
         \A k \in 2 .. Len(q) : TightAt(q, v, k), NEW k \in 2 .. Len(q)
  PROVE  LET n == Len(q)
             at == Places(q)
             apart(i, j) == IF i < j THEN at[j] - at[i] ELSE at[i] - at[j]
         IN  q[k].entry = Min({q[j].max + apart(j, k) : j \in 2 .. n} \union
                              {v + apart(1, k), apart(k, n + 1)})
<1> DEFINE n == Len(q)
           at == Places(q)
           apart(i, j) == IF i < j THEN at[j] - at[i] ELSE at[i] - at[j]
           T == {q[j].max + apart(j, k) : j \in 2 .. n} \union {v + apart(1, k), apart(k, n + 1)}
           e == q[k].entry
<1>1. n \in Nat /\ n >= 2 /\ q # <<>> /\ k \in 1 .. n /\ k \in 1 .. n + 1 /\ 1 \in 1 .. n /\ n + 1 \in 1 .. n + 1
      /\ k \in 1 .. n + 1 /\ n + 1 \in k .. n + 1
  OBVIOUS
<1>2. at[1] = 0 /\ \A i \in 1 .. n + 1 : at[i] \in Nat
  BY PlacesDef
<1>3. \A i \in 1 .. n : q[i].max \in Nat /\ q[i].entry \in Nat
  BY BlockFields
<1>4. \A i \in 1 .. n + 1 : \A j \in i .. n + 1 :
         /\ at[i] <= at[j]
         /\ SpeedAt(q, v, i) <= SpeedAt(q, v, j) + (at[j] - at[i])
         /\ SpeedAt(q, v, j) <= SpeedAt(q, v, i) + (at[j] - at[i])
  BY <1>1, SpeedsApart
<1>5. /\ \A i \in 2 .. n : SpeedAt(q, v, i) = q[i].entry
      /\ SpeedAt(q, v, 1) = v /\ SpeedAt(q, v, n + 1) = 0
  BY <1>1 DEF SpeedAt, Entry
<1>6. \A i \in 2 .. n : q[i].entry <= q[i].max
  BY DEF WithinMax
<1>7. \/ e = q[k].max
      \/ e = v + at[k]
      \/ \E j \in 2 .. k : e = q[j].max + (at[k] - at[j])
      \/ e = at[n + 1] - at[k]
      \/ \E j \in k + 1 .. n : e = q[j].max + (at[j] - at[k])
  <2>1. TightAt(q, v, k)
    OBVIOUS
  <2>2. CASE e = q[k].max
    BY <2>2
  <2>3. CASE e = Entry(q, v, k - 1) + q[k - 1].left
    BY <2>3, LimitBefore
  <2>4. CASE e = Onward(q, k) + q[k].left
    BY <2>4, LimitBehind
  <2> QED BY <2>1, <2>2, <2>3, <2>4 DEF TightAt, AtLimit
<1> HIDE DEF at, n
<1>8. \A i \in 1 .. n + 1 : \A j \in i .. n + 1 : apart(i, j) = at[j] - at[i] /\ apart(j, i) = at[j] - at[i]
  <2> SUFFICES ASSUME NEW i \in 1 .. n + 1, NEW j \in i .. n + 1
               PROVE  apart(i, j) = at[j] - at[i] /\ apart(j, i) = at[j] - at[i]
    OBVIOUS
  <2>1. CASE i = j
    BY <2>1
  <2>2. CASE i # j
    <3>1. i < j /\ ~ (j < i)
      BY <2>2, <1>1
    <3> QED BY <3>1
  <2> QED BY <2>1, <2>2
<1>9. /\ 1 \in 1 .. n + 1 /\ k \in 1 .. n + 1 /\ n + 1 \in k .. n + 1
      /\ \A j \in 2 .. k : j \in 1 .. n + 1 /\ k \in j .. n + 1 /\ j \in 2 .. n
      /\ \A j \in k .. n : j \in 1 .. n + 1 /\ j \in k .. n + 1 /\ j \in 2 .. n
      /\ \A j \in k + 1 .. n : j \in k .. n
      /\ k \in k .. n /\ k \in 1 .. k /\ k \in 2 .. n
  BY <1>1 DEF n
<1>9a. k \in 1 .. n + 1 /\ k \in 1..n
  BY <1>1
<1>10. apart(1, k) = at[k] /\ apart(k, n + 1) = at[n + 1] - at[k]
       /\ (\A j \in 2 .. k : apart(j, k) = at[k] - at[j])
       /\ (\A j \in k .. n : apart(j, k) = at[j] - at[k])
  <2>1. apart(1, k) = at[k] - at[1]
    BY <1>8, <1>9
  <2>2. at[k] - 0 = at[k]
    BY <1>2, <1>9
  <2> QED BY <2>1, <2>2, <1>2, <1>8, <1>9
<1> HIDE DEF apart
<1>11. e \in Nat
  BY <1>3, <1>9a
<1>12. e \in T
  <2>1. CASE e = q[k].max
    <3>1. at[k] \in Nat /\ q[k].max \in Nat
      BY <1>2, <1>3, <1>9, <1>9a
    <3>2. apart(k, k) = 0
      BY <1>10, <1>9, <3>1
    <3>3. q[k].max + apart(k, k) = e
      BY <3>1, <3>2, <2>1
    <3> QED BY <3>3, <1>9
  <2>2. CASE e = v + at[k]
    BY <2>2, <1>10
  <2>3. CASE \E j \in 2 .. k : e = q[j].max + (at[k] - at[j])
    BY <2>3, <1>9, <1>10
  <2>4. CASE e = at[n + 1] - at[k]
    BY <2>4, <1>10
  <2>5. CASE \E j \in k + 1 .. n : e = q[j].max + (at[j] - at[k])
    BY <2>5, <1>9, <1>10
  <2> QED BY <2>1, <2>2, <2>3, <2>4, <2>5, <1>7 DEF n, at
<1>13. \A j \in 2 .. n : apart(j, k) \in Int /\ e <= q[j].max + apart(j, k) /\ q[j].max \in Nat
  <2> SUFFICES ASSUME NEW j \in 2 .. n PROVE apart(j, k) \in Int /\ e <= q[j].max + apart(j, k) /\ q[j].max \in Nat
    OBVIOUS
  <2>1. j \in 1 .. n /\ j \in 1 .. n + 1
    BY <1>1 DEF n
  <2>2. q[j].max \in Nat /\ q[j].entry \in Nat /\ q[j].entry <= q[j].max /\ at[j] \in Nat /\ at[k] \in Nat
    BY <2>1, <1>2, <1>3, <1>6, <1>9
  <2>3. e = SpeedAt(q, v, k) /\ q[j].entry = SpeedAt(q, v, j)
    BY <1>5, <1>9
  <2>4. CASE j \in 2 .. k
    <3>1. apart(j, k) = at[k] - at[j] /\ e <= q[j].entry + (at[k] - at[j])
      BY <2>1, <2>3, <2>4, <1>4, <1>9, <1>10 DEF n, at
    <3> QED BY <3>1, <2>2, <1>11, SMTT(60)
  <2>5. CASE j \in k .. n
    <3>1. apart(j, k) = at[j] - at[k] /\ e <= q[j].entry + (at[j] - at[k])
      BY <2>1, <2>3, <2>5, <1>4, <1>9, <1>10 DEF n, at
    <3> QED BY <3>1, <2>2, <1>11, SMTT(60)
  <2>6. j \in 2 .. k \/ j \in k .. n
    BY <1>1 DEF n
  <2> QED BY <2>4, <2>5, <2>6
<1>14. e <= v + apart(1, k) /\ apart(1, k) \in Int
  <2>1. e = SpeedAt(q, v, k) /\ SpeedAt(q, v, 1) = v
    BY <1>5, <1>9
  <2>2. SpeedAt(q, v, k) <= SpeedAt(q, v, 1) + (at[k] - at[1])
    BY <1>4, <1>1 DEF n, at
  <2>3. at[k] \in Nat /\ at[1] = 0
    BY <1>2, <1>9
  <2> QED BY <2>1, <2>2, <2>3, <1>10
<1>15. e <= apart(k, n + 1) /\ apart(k, n + 1) \in Int
  <2>1. e = SpeedAt(q, v, k) /\ SpeedAt(q, v, n + 1) = 0
    BY <1>5, <1>9
  <2>2. SpeedAt(q, v, k) <= SpeedAt(q, v, n + 1) + (at[n + 1] - at[k])
    BY <1>4, <1>1 DEF n, at
  <2>3. at[k] \in Nat /\ at[n + 1] \in Nat
    BY <1>2, <1>1 DEF n
  <2> QED BY <2>1, <2>2, <2>3, <1>10
<1>16. T \in SUBSET Int /\ \A y \in T : e <= y
  BY <1>13, <1>14, <1>15
<1>17. Min(T) = e
  <2> HIDE DEF T, e
  <2> QED BY <1>12, <1>16, MinIs
<1> QED BY <1>17 DEF apart, at, n

(***************************************************************************)
(* The profile of the block in preparation.                                *)
(***************************************************************************)
Preps == [loaded : BOOLEAN, recalculate : BOOLEAN, decelOverride : BOOLEAN,
          v : Nat, exit : Nat, ramp : {"accel", "cruise", "decel", "decelOverride"},
          complete : Nat, accelUntil : Nat, decelAfter : Nat, maximum : Nat]
Overrides == [feed : Levels, rapid : Levels]

\* The profile p of a block of which d is left, and that is left at speed x: in a
\* cycle, in a hold, and when nothing was overridden.
CycleProfile(p, d, x) ==
  /\ p.complete = 0
  /\ p.decelOverride => p.ramp = "decel" /\ p.v = p.exit + d
  /\ ~p.decelOverride => p.exit = x
  /\ p.ramp = "accel" => /\ p.decelAfter <= p.accelUntil /\ p.accelUntil < d
                         /\ p.maximum = p.exit + p.decelAfter
                         /\ p.v + d <= p.maximum + p.accelUntil + 1
  /\ p.ramp = "cruise" => p.v = p.exit + p.decelAfter
  /\ p.ramp = "decelOverride" => /\ p.v + p.accelUntil = p.maximum + d
                                 /\ 0 < p.accelUntil /\ p.accelUntil < d
                                 /\ p.maximum = p.exit + p.decelAfter
HeldProfile(p, d) ==
  /\ p.ramp = "decel"
  /\ p.v + p.complete = p.exit + d
  /\ p.complete <= d
  /\ p.exit = 0 \/ p.complete = 0
ExactProfile(p, d, nominal) ==
  /\ p.ramp # "decelOverride" /\ ~p.decelOverride
  /\ p.ramp = "accel" => p.maximum <= nominal /\ p.v + d >= p.maximum + p.accelUntil
  /\ p.ramp = "decel" => p.v = p.exit + d
  /\ p.ramp = "cruise" => p.decelAfter <= d
  /\ p.v + d = p.exit => p.ramp = "accel" /\ p.accelUntil = 0 /\ p.maximum = p.exit

\* A nominal speed is not zero.
LEMMA NominalType ==
  ASSUME NEW b \in Block, NEW o \in Overrides
  PROVE  Nominal(b, o) \in Nat /\ Nominal(b, o) > 0
<1>0. \A x, y \in Nat \ {0} : x * y \in Nat \ {0}
  <2> SUFFICES ASSUME NEW x \in Nat, NEW y \in Nat, x > 0, y > 0 PROVE x * y \in Nat /\ x * y > 0
    OBVIOUS
  <2> QED OBVIOUS
<1>1. b.rate \in Nat \ {0} /\ o.feed \in Nat \ {0} /\ o.rapid \in Nat \ {0} /\ FullLevel \in Nat \ {0} /\ RapidRate \in Nat \ {0}
  BY PlannerAssumption DEF Block, Overrides
<1>2. b.rate * o.feed \in Nat \ {0} /\ RapidRate * o.rapid \in Nat \ {0} /\ RapidRate * FullLevel \in Nat \ {0}
  BY <1>0, <1>1
<1> DEFINE x == b.rate * o.feed
           y == RapidRate * o.rapid
           z == RapidRate * FullLevel
<1>3. Nominal(b, o) = IF b.rapid THEN y ELSE Lesser(x, z)
  BY DEF Nominal
<1> HIDE DEF x, y, z
<1>4. x \in Nat \ {0} /\ y \in Nat \ {0} /\ z \in Nat \ {0}
  BY <1>2 DEF x, y, z
<1> QED BY <1>3, <1>4 DEF Lesser

\* The profile of a block that is taken up in a cycle; it is an exact one if the
\* block can brake to, and accelerate to, the speed it is left at.
LEMMA ProfileInCycle ==
  ASSUME NEW p \in Preps, p.loaded, ~p.recalculate, ~p.decelOverride,
         NEW b \in Block, b.entry = p.v, ovr \in Overrides, motion # "hold",
         ExitSpeed \in Nat, ExitSpeed <= Nominal(b, ovr)
  PROVE  /\ Profile(p, b) \in Preps /\ Profile(p, b).v = p.v /\ Profile(p, b).loaded
         /\ ~Profile(p, b).recalculate
         /\ Profile(p, b).decelOverride => Profile(p, b).exit > 0
         /\ CycleProfile(Profile(p, b), b.left, ExitSpeed)
         /\ (p.v <= Nominal(b, ovr) /\ p.v <= ExitSpeed + b.left /\ ExitSpeed <= p.v + b.left)
            => ExactProfile(Profile(p, b), b.left, Nominal(b, ovr))
<1> DEFINE n == Nominal(b, ovr)
           c == [p EXCEPT !.complete = 0]
           x == ExitSpeed
           d == b.left
           P == Profile(p, b)
<1>1. n \in Nat /\ n > 0 /\ x \in Nat /\ x <= n /\ d \in Nat /\ d > 0 /\ b.entry \in Nat
  BY NominalType DEF Block
<1>2. /\ b.entry > n => P = SlowDownProfile(c, b, n, x)
      /\ b.entry <= n => P = RampProfile(c, b, n, x)
  BY <1>1 DEF Profile
<1>3. c \in Preps /\ c.v = p.v /\ c.loaded /\ ~c.recalculate /\ ~c.decelOverride /\ c.complete = 0
  BY DEF Preps
<1> HIDE DEF n, c, x, d, P
<1>4. CASE b.entry > n
  <2>1. P = SlowDownProfile(c, b, n, x)
    BY <1>2, <1>4
  <2>2. CASE d - (b.entry - n) <= 0
    <3>1. P = [c EXCEPT !.ramp = "decel", !.exit = b.entry - d, !.decelOverride = TRUE]
      BY <2>1, <2>2 DEF SlowDownProfile, d
    <3>2. b.entry - d \in Nat /\ b.entry - d > 0
      BY <1>1, <2>2
    <3>3. /\ P \in Preps /\ P.v = c.v /\ P.loaded /\ ~P.recalculate /\ P.exit = b.entry - d /\ P.ramp = "decel"
          /\ P.complete = 0 /\ P.decelOverride
      BY <3>1, <3>2, <1>3 DEF Preps
    <3> QED BY <3>2, <3>3, <1>1, <1>3, <1>4 DEF CycleProfile, P, n, x, d
  <2>3. CASE d - (b.entry - n) > 0
    <3> DEFINE until == d - (b.entry - n)
    <3>1. P = [c EXCEPT !.ramp = "decelOverride", !.exit = x, !.accelUntil = until,
                        !.decelAfter = n - x, !.maximum = n]
      BY <2>1, <2>3, <1>1 DEF SlowDownProfile, d
    <3>2. until \in Nat /\ until > 0 /\ n - x \in Nat /\ until < d /\ b.entry + until = n + d
      BY <1>1, <2>3, <1>4
    <3> HIDE DEF until
    <3>3. /\ P \in Preps /\ P.v = c.v /\ P.loaded /\ ~P.recalculate /\ P.exit = x /\ P.ramp = "decelOverride"
          /\ P.complete = 0 /\ ~P.decelOverride /\ P.accelUntil = until /\ P.decelAfter = n - x /\ P.maximum = n
      BY <3>1, <3>2, <1>1, <1>3 DEF Preps
    <3> QED BY <3>2, <3>3, <1>1, <1>3, <1>4 DEF CycleProfile, P, n, x, d
  <2> QED BY <2>2, <2>3, <1>1
<1>5. CASE b.entry <= n
  <2> DEFINE meet == (d + b.entry - x) \div 2
  <2>1. P = RampProfile(c, b, n, x)
    BY <1>2, <1>5
  <2>2. CASE d + b.entry <= x
    <3>1. P = [[c EXCEPT !.exit = x] EXCEPT !.ramp = "accel", !.accelUntil = 0, !.decelAfter = 0,
                                            !.maximum = x]
      <4> HIDE DEF meet
      <4>1. b.left + b.entry <= x /\ ~ (b.entry >= x + b.left)
        BY <1>1, <2>2 DEF d
      <4> QED BY <2>1, <4>1 DEF RampProfile
    <3>2. /\ P \in Preps /\ P.v = c.v /\ P.loaded /\ ~P.recalculate /\ P.exit = x /\ P.ramp = "accel"
          /\ P.complete = 0 /\ ~P.decelOverride /\ P.accelUntil = 0 /\ P.decelAfter = 0 /\ P.maximum = x
      BY <3>1, <1>1, <1>3 DEF Preps
    <3> QED BY <3>2, <1>1, <1>3, <2>2 DEF CycleProfile, ExactProfile, P, n, x, d
  <2>3. CASE ~ (d + b.entry <= x) /\ b.entry >= x + d
    <3>1. P = [c EXCEPT !.exit = x, !.ramp = "decel"]
      BY <2>1, <2>3, <1>3 DEF RampProfile, Preps, d
    <3>2. /\ P \in Preps /\ P.v = c.v /\ P.loaded /\ ~P.recalculate /\ P.exit = x /\ P.ramp = "decel"
          /\ P.complete = 0 /\ ~P.decelOverride
      BY <3>1, <1>1, <1>3 DEF Preps
    <3> QED BY <3>2, <1>1, <1>3, <2>3 DEF CycleProfile, ExactProfile, P, n, x, d
  <2>4. CASE ~ (d + b.entry <= x) /\ ~ (b.entry >= x + d)
    <3>0. /\ meet \in Nat /\ 2 * meet <= d + b.entry - x /\ d + b.entry - x <= 2 * meet + 1
      BY <1>1, <2>4
    <3>a. P = IF n - x < meet
               THEN [[c EXCEPT !.exit = x] EXCEPT !.ramp = IF b.entry = n THEN "cruise" ELSE "accel",
                              !.accelUntil = d - (n - b.entry),
                              !.decelAfter = n - x, !.maximum = n]
               ELSE [[c EXCEPT !.exit = x] EXCEPT !.ramp = "accel", !.accelUntil = meet, !.decelAfter = meet,
                              !.maximum = x + meet]
      BY <2>1, <2>4 DEF RampProfile, d
    <3> HIDE DEF meet
    <3>1. CASE n - x < meet
      <4> DEFINE until == d - (n - b.entry)
                 ramp == IF b.entry = n THEN "cruise" ELSE "accel"
      <4>1. P = [[c EXCEPT !.exit = x] EXCEPT !.ramp = ramp,
                        !.accelUntil = until, !.decelAfter = n - x, !.maximum = n]
        BY <3>a, <3>1
      <4>2. until \in Nat /\ n - x \in Nat /\ n - x <= until /\ b.entry + d = n + until /\ until <= d
            /\ (b.entry # n => until < d)
        BY <1>1, <3>0, <3>1, <1>5
      <4>2a. ramp \in {"cruise", "accel"} /\ (ramp = "cruise" <=> b.entry = n)
        OBVIOUS
      <4> HIDE DEF until, ramp
      <4>3. /\ P \in Preps /\ P.v = c.v /\ P.loaded /\ ~P.recalculate /\ P.exit = x /\ P.ramp = ramp
            /\ P.complete = 0 /\ ~P.decelOverride /\ P.accelUntil = until /\ P.decelAfter = n - x /\ P.maximum = n
        BY <4>1, <4>2, <4>2a, <1>1, <1>3 DEF Preps
      <4>4. CASE ramp = "cruise"
        BY <4>2, <4>2a, <4>3, <4>4, <1>1, <1>3, <2>4 DEF CycleProfile, ExactProfile, P, n, x, d
      <4>5. CASE ramp = "accel"
        BY <4>2, <4>2a, <4>3, <4>5, <1>1, <1>3, <2>4 DEF CycleProfile, ExactProfile, P, n, x, d
      <4> QED BY <4>2a, <4>4, <4>5
    <3>2. CASE ~ (n - x < meet)
      <4> DEFINE top == x + meet
      <4>1. P = [[c EXCEPT !.exit = x] EXCEPT !.ramp = "accel", !.accelUntil = meet, !.decelAfter = meet,
                              !.maximum = top]
        BY <3>a, <3>2
      <4>2. meet < d /\ top <= n /\ top \in Nat /\ top = x + meet
        BY <1>1, <3>0, <3>2, <2>4
      <4> HIDE DEF top
      <4>3. /\ P \in Preps /\ P.v = c.v /\ P.loaded /\ ~P.recalculate /\ P.exit = x /\ P.ramp = "accel"
            /\ P.complete = 0 /\ ~P.decelOverride /\ P.accelUntil = meet /\ P.decelAfter = meet /\ P.maximum = top
        BY <4>1, <4>2, <3>0, <1>1, <1>3 DEF Preps
      <4> QED BY <4>2, <4>3, <3>0, <1>1, <1>3, <2>4 DEF CycleProfile, ExactProfile, P, n, x, d
    <3> QED BY <3>1, <3>2
  <2> QED BY <2>2, <2>3, <2>4
<1> QED BY <1>1, <1>4, <1>5

\* The profile of a block that is taken up in a hold.
LEMMA ProfileInHold ==
  ASSUME NEW p \in Preps, p.loaded, ~p.recalculate, ~p.decelOverride,
         NEW b \in Block, b.entry = p.v, motion = "hold"
  PROVE  /\ Profile(p, b) \in Preps /\ Profile(p, b).v = p.v /\ Profile(p, b).loaded
         /\ ~Profile(p, b).recalculate /\ ~Profile(p, b).decelOverride
         /\ HeldProfile(Profile(p, b), b.left)
<1> DEFINE P == Profile(p, b)
           c == IF b.left >= b.entry THEN b.left - b.entry ELSE 0
           x == IF b.left >= b.entry THEN 0 ELSE b.entry - b.left
<1>1. b.left \in Nat /\ b.entry \in Nat /\ b.left > 0
  BY DEF Block
<1>2. P = [p EXCEPT !.ramp = "decel", !.complete = c, !.exit = x]
  BY DEF Profile, HoldProfile
<1>3. c \in Nat /\ x \in Nat /\ b.entry + c = x + b.left /\ c <= b.left /\ (x = 0 \/ c = 0)
  BY <1>1
<1> HIDE DEF c, x, P
<1>4. /\ P \in Preps /\ P.v = p.v /\ P.loaded /\ ~P.recalculate /\ ~P.decelOverride
      /\ P.ramp = "decel" /\ P.complete = c /\ P.exit = x
  BY <1>2, <1>3 DEF Preps
<1> QED BY <1>3, <1>4 DEF HeldProfile, P

\* What a segment makes of the profile.
SegmentPrep(s) == [prep EXCEPT !.v = s.v, !.ramp = s.ramp, !.loaded = ~(s.left = prep.complete /\ s.left = 0)]

\* The fields of what a segment leaves.
LEMMA SegmentPrepFields ==
  ASSUME prep \in Preps, NEW s, s.v \in Nat, s.ramp \in {"accel", "cruise", "decel", "decelOverride"}
  PROVE  /\ SegmentPrep(s) \in Preps
         /\ SegmentPrep(s).v = s.v /\ SegmentPrep(s).ramp = s.ramp
         /\ SegmentPrep(s).loaded = ~(s.left = prep.complete /\ s.left = 0)
         /\ SegmentPrep(s).recalculate = prep.recalculate /\ SegmentPrep(s).decelOverride = prep.decelOverride
         /\ SegmentPrep(s).exit = prep.exit /\ SegmentPrep(s).complete = prep.complete
         /\ SegmentPrep(s).accelUntil = prep.accelUntil /\ SegmentPrep(s).decelAfter = prep.decelAfter
         /\ SegmentPrep(s).maximum = prep.maximum
BY DEF SegmentPrep, Preps

\* A segment in a cycle keeps the profile, the way to stop in, and, where nothing was
\* overridden, every bound on the speed.
LEMMA MovedInCycle ==
  ASSUME prep \in Preps, blocks[1].left \in Nat, blocks[1].left > 0, NEW x \in Nat,
         CycleProfile(prep, blocks[1].left, x)
  PROVE  /\ Moved.left \in Nat /\ Moved.v \in Nat
         /\ Moved.ramp \in {"accel", "cruise", "decel", "decelOverride"}
         /\ Moved.left = 0 => Moved.v = prep.exit
         /\ Moved.left > 0 => CycleProfile(SegmentPrep(Moved), Moved.left, x)
         /\ \A w \in Nat : prep.v <= w + blocks[1].left /\ prep.exit <= w => Moved.v <= w + Moved.left
         /\ \A nominal \in Nat : ExactProfile(prep, blocks[1].left, nominal) =>
              /\ Moved.left > 0 => ExactProfile(SegmentPrep(Moved), Moved.left, nominal)
              /\ Moved.left <= blocks[1].left
              /\ Moved.v <= prep.v + (blocks[1].left - Moved.left)
              /\ prep.v <= Moved.v + (blocks[1].left - Moved.left)
              /\ prep.v <= nominal /\ prep.exit <= nominal => Moved.v <= nominal
              /\ prep.exit <= prep.v + blocks[1].left => prep.exit <= Moved.v + Moved.left
              /\ prep.exit = prep.v + blocks[1].left => prep.exit = Moved.v + Moved.left
<1> DEFINE d == blocks[1].left
           s == Moved
           t == SegmentPrep(Moved)
           Ramps == {"accel", "cruise", "decel", "decelOverride"}
           Sane == s.left \in Nat /\ s.v \in Nat /\ s.ramp \in Ramps /\ (s.left = 0 => s.v = prep.exit)
           Profiled == s.left > 0 => CycleProfile(t, s.left, x)
           Stops(w) == prep.v <= w + d /\ prep.exit <= w => s.v <= w + s.left
           Exact(nominal) == ExactProfile(prep, d, nominal) =>
              /\ s.left > 0 => ExactProfile(t, s.left, nominal)
              /\ s.left <= d
              /\ s.v <= prep.v + (d - s.left)
              /\ prep.v <= s.v + (d - s.left)
              /\ prep.v <= nominal /\ prep.exit <= nominal => s.v <= nominal
              /\ prep.exit <= prep.v + d => prep.exit <= s.v + s.left
              /\ prep.exit = prep.v + d => prep.exit = s.v + s.left
           Goal == Sane /\ Profiled /\ (\A w \in Nat : Stops(w)) /\ (\A nominal \in Nat : Exact(nominal))
<1>1. /\ prep.v \in Nat /\ prep.exit \in Nat /\ prep.complete = 0 /\ prep.accelUntil \in Nat
      /\ prep.decelAfter \in Nat /\ prep.maximum \in Nat /\ d \in Nat /\ d > 0 /\ x \in Nat
      /\ prep.ramp \in Ramps
  BY DEF CycleProfile, Preps
<1>2. ASSUME NEW l \in Nat, NEW y \in Nat, NEW ramp \in Ramps,
             s = [left |-> l, v |-> y, ramp |-> ramp]
      PROVE  /\ s.left = l /\ s.v = y /\ s.ramp = ramp
             /\ t.v = y /\ t.ramp = ramp
             /\ t.decelOverride = prep.decelOverride
             /\ t.exit = prep.exit /\ t.complete = 0
             /\ t.accelUntil = prep.accelUntil /\ t.decelAfter = prep.decelAfter
             /\ t.maximum = prep.maximum
  <2> HIDE DEF s
  <2>1. s.left = l /\ s.v = y /\ s.ramp = ramp
    BY <1>2
  <2> QED BY <2>1, <1>1, SegmentPrepFields DEF s
<1> SUFFICES Goal
  OBVIOUS
<1>3. CASE prep.ramp = "accel"
  <2>1. s = Accelerated(d)
    BY <1>3 DEF Moved
  <2>0. /\ prep.decelAfter <= prep.accelUntil /\ prep.accelUntil < d
        /\ prep.maximum = prep.exit + prep.decelAfter /\ prep.v + d <= prep.maximum + prep.accelUntil + 1
        /\ ~prep.decelOverride /\ prep.exit = x /\ prep.ramp = "accel"
    BY <1>3 DEF CycleProfile
  <2> HIDE DEF d, s, t
  <2>2. CASE d - 1 > prep.accelUntil
    <3> DEFINE l == d - 1
               y == prep.v + 1
    <3>1. s = [left |-> l, v |-> y, ramp |-> "accel"]
      BY <2>1, <2>2 DEF Accelerated
    <3>2. l \in Nat /\ y \in Nat /\ l > 0 /\ l = d - 1 /\ y = prep.v + 1
      BY <1>1, <2>2
    <3> HIDE DEF l, y
    <3>3. /\ s.left = l /\ s.v = y /\ s.ramp = "accel"
          /\ t.v = y /\ t.ramp = "accel"
          /\ t.decelOverride = prep.decelOverride
          /\ t.exit = prep.exit /\ t.complete = 0
          /\ t.accelUntil = prep.accelUntil /\ t.decelAfter = prep.decelAfter
          /\ t.maximum = prep.maximum
      BY <1>1, <1>2, <3>1, <3>2
    <3>4. Sane
      BY <1>1, <2>0, <3>2, <3>3, <2>2
    <3>5. Profiled
      BY <1>1, <2>0, <3>2, <3>3, <2>2 DEF CycleProfile
    <3>6. ASSUME NEW w \in Nat PROVE Stops(w)
      BY <1>1, <2>0, <3>2, <3>3, <2>2
    <3>7. ASSUME NEW nominal \in Nat PROVE Exact(nominal)
      <4> SUFFICES ASSUME ExactProfile(prep, d, nominal)
                   PROVE  /\ s.left > 0 => ExactProfile(t, s.left, nominal)
                          /\ s.left <= d
                          /\ s.v <= prep.v + (d - s.left)
                          /\ prep.v <= s.v + (d - s.left)
                          /\ prep.v <= nominal /\ prep.exit <= nominal => s.v <= nominal
                          /\ prep.exit <= prep.v + d => prep.exit <= s.v + s.left
                          /\ prep.exit = prep.v + d => prep.exit = s.v + s.left
        OBVIOUS
      <4> QED BY <1>1, <2>0, <3>2, <3>3, <2>2 DEF ExactProfile
    <3> QED BY <3>4, <3>5, <3>6, <3>7
  <2>3. CASE ~ (d - 1 > prep.accelUntil)
    <3> DEFINE ramp == IF prep.accelUntil = prep.decelAfter THEN "decel" ELSE "cruise"
    <3>1. s = [left |-> prep.accelUntil, v |-> prep.maximum, ramp |-> ramp]
      BY <2>1, <2>3 DEF Accelerated
    <3>2. ramp \in {"decel", "cruise"} /\ (ramp = "decel" => prep.accelUntil = prep.decelAfter) /\ d = prep.accelUntil + 1
      BY <1>1, <2>0, <2>3
    <3> HIDE DEF ramp
    <3>3. /\ s.left = prep.accelUntil /\ s.v = prep.maximum /\ s.ramp = ramp
          /\ t.v = prep.maximum /\ t.ramp = ramp
          /\ t.decelOverride = prep.decelOverride
          /\ t.exit = prep.exit /\ t.complete = 0
          /\ t.accelUntil = prep.accelUntil /\ t.decelAfter = prep.decelAfter
          /\ t.maximum = prep.maximum
      BY <1>1, <1>2, <3>1, <3>2
    <3>4. Sane
      BY <1>1, <2>0, <3>2, <3>3
    <3>5. Profiled
      BY <1>1, <2>0, <3>2, <3>3 DEF CycleProfile
    <3>6. ASSUME NEW w \in Nat PROVE Stops(w)
      BY <1>1, <2>0, <3>2, <3>3
    <3>7. ASSUME NEW nominal \in Nat PROVE Exact(nominal)
      <4> SUFFICES ASSUME ExactProfile(prep, d, nominal)
                   PROVE  /\ s.left > 0 => ExactProfile(t, s.left, nominal)
                          /\ s.left <= d
                          /\ s.v <= prep.v + (d - s.left)
                          /\ prep.v <= s.v + (d - s.left)
                          /\ prep.v <= nominal /\ prep.exit <= nominal => s.v <= nominal
                          /\ prep.exit <= prep.v + d => prep.exit <= s.v + s.left
                          /\ prep.exit = prep.v + d => prep.exit = s.v + s.left
        OBVIOUS
      <4> QED BY <1>1, <2>0, <3>2, <3>3 DEF ExactProfile
    <3> QED BY <3>4, <3>5, <3>6, <3>7
  <2> QED BY <2>2, <2>3
<1>4. CASE prep.ramp = "cruise"
  <2>1. s = Cruised(d)
    BY <1>4 DEF Moved
  <2>0. prep.v = prep.exit + prep.decelAfter /\ ~prep.decelOverride /\ prep.exit = x /\ prep.ramp = "cruise"
    BY <1>4 DEF CycleProfile
  <2> HIDE DEF d, s, t
  <2>2. CASE d > prep.decelAfter
    <3> DEFINE l == d - 1
    <3>1. s = [left |-> l, v |-> prep.v, ramp |-> "cruise"]
      BY <2>1, <2>2 DEF Cruised
    <3>2. l \in Nat /\ l = d - 1
      BY <1>1
    <3> HIDE DEF l
    <3>3. /\ s.left = l /\ s.v = prep.v /\ s.ramp = "cruise"
          /\ t.v = prep.v /\ t.ramp = "cruise"
          /\ t.decelOverride = prep.decelOverride
          /\ t.exit = prep.exit /\ t.complete = 0
          /\ t.accelUntil = prep.accelUntil /\ t.decelAfter = prep.decelAfter
          /\ t.maximum = prep.maximum
      BY <1>1, <1>2, <3>1, <3>2
    <3>4. Sane
      BY <1>1, <2>0, <3>2, <3>3, <2>2
    <3>5. Profiled
      BY <1>1, <2>0, <3>2, <3>3, <2>2 DEF CycleProfile
    <3>6. ASSUME NEW w \in Nat PROVE Stops(w)
      BY <1>1, <2>0, <3>2, <3>3, <2>2
    <3>7. ASSUME NEW nominal \in Nat PROVE Exact(nominal)
      <4> SUFFICES ASSUME ExactProfile(prep, d, nominal)
                   PROVE  /\ s.left > 0 => ExactProfile(t, s.left, nominal)
                          /\ s.left <= d
                          /\ s.v <= prep.v + (d - s.left)
                          /\ prep.v <= s.v + (d - s.left)
                          /\ prep.v <= nominal /\ prep.exit <= nominal => s.v <= nominal
                          /\ prep.exit <= prep.v + d => prep.exit <= s.v + s.left
                          /\ prep.exit = prep.v + d => prep.exit = s.v + s.left
        OBVIOUS
      <4> QED BY <1>1, <2>0, <3>2, <3>3, <2>2 DEF ExactProfile
    <3> QED BY <3>4, <3>5, <3>6, <3>7
  <2>3. CASE ~ (d > prep.decelAfter)
    <3>1. s = [left |-> prep.decelAfter, v |-> prep.v, ramp |-> "decel"]
      BY <2>1, <2>3 DEF Cruised
    <3>2. d <= prep.decelAfter
      BY <1>1, <2>3
    <3>3. /\ s.left = prep.decelAfter /\ s.v = prep.v /\ s.ramp = "decel"
          /\ t.v = prep.v /\ t.ramp = "decel"
          /\ t.decelOverride = prep.decelOverride
          /\ t.exit = prep.exit /\ t.complete = 0
          /\ t.accelUntil = prep.accelUntil /\ t.decelAfter = prep.decelAfter
          /\ t.maximum = prep.maximum
      BY <1>1, <1>2, <3>1, <3>2
    <3>4. Sane
      BY <1>1, <2>0, <3>2, <3>3
    <3>5. Profiled
      BY <1>1, <2>0, <3>2, <3>3 DEF CycleProfile
    <3>6. ASSUME NEW w \in Nat PROVE Stops(w)
      BY <1>1, <2>0, <3>2, <3>3
    <3>7. ASSUME NEW nominal \in Nat PROVE Exact(nominal)
      <4> SUFFICES ASSUME ExactProfile(prep, d, nominal)
                   PROVE  /\ s.left > 0 => ExactProfile(t, s.left, nominal)
                          /\ s.left <= d
                          /\ s.v <= prep.v + (d - s.left)
                          /\ prep.v <= s.v + (d - s.left)
                          /\ prep.v <= nominal /\ prep.exit <= nominal => s.v <= nominal
                          /\ prep.exit <= prep.v + d => prep.exit <= s.v + s.left
                          /\ prep.exit = prep.v + d => prep.exit = s.v + s.left
        OBVIOUS
      <4> QED BY <1>1, <2>0, <3>2, <3>3 DEF ExactProfile
    <3> QED BY <3>4, <3>5, <3>6, <3>7
  <2> QED BY <2>2, <2>3
<1>5. CASE prep.ramp = "decel"
  <2>1. s = Decelerated(d)
    BY <1>5 DEF Moved
  <2>0. /\ prep.decelOverride => prep.v = prep.exit + d
        /\ ~prep.decelOverride => prep.exit = x
        /\ prep.ramp = "decel"
    BY <1>5 DEF CycleProfile
  <2> HIDE DEF d, s, t
  <2>2. CASE prep.v > 1 /\ d - 1 > prep.complete
    <3> DEFINE l == d - 1
               y == prep.v - 1
    <3>1. s = [left |-> l, v |-> y, ramp |-> "decel"]
      BY <2>1, <2>2 DEF Decelerated
    <3>2. l \in Nat /\ y \in Nat /\ l > 0 /\ l = d - 1 /\ y = prep.v - 1
      BY <1>1, <2>2
    <3> HIDE DEF l, y
    <3>3. /\ s.left = l /\ s.v = y /\ s.ramp = "decel"
          /\ t.v = y /\ t.ramp = "decel"
          /\ t.decelOverride = prep.decelOverride
          /\ t.exit = prep.exit /\ t.complete = 0
          /\ t.accelUntil = prep.accelUntil /\ t.decelAfter = prep.decelAfter
          /\ t.maximum = prep.maximum
      BY <1>1, <1>2, <3>1, <3>2
    <3>4. Sane
      BY <1>1, <2>0, <3>2, <3>3
    <3>5. Profiled
      BY <1>1, <2>0, <3>2, <3>3 DEF CycleProfile
    <3>6. ASSUME NEW w \in Nat PROVE Stops(w)
      BY <1>1, <2>0, <3>2, <3>3
    <3>7. ASSUME NEW nominal \in Nat PROVE Exact(nominal)
      <4> SUFFICES ASSUME ExactProfile(prep, d, nominal)
                   PROVE  /\ s.left > 0 => ExactProfile(t, s.left, nominal)
                          /\ s.left <= d
                          /\ s.v <= prep.v + (d - s.left)
                          /\ prep.v <= s.v + (d - s.left)
                          /\ prep.v <= nominal /\ prep.exit <= nominal => s.v <= nominal
                          /\ prep.exit <= prep.v + d => prep.exit <= s.v + s.left
                          /\ prep.exit = prep.v + d => prep.exit = s.v + s.left
        OBVIOUS
      <4> QED BY <1>1, <2>0, <3>2, <3>3 DEF ExactProfile
    <3> QED BY <3>4, <3>5, <3>6, <3>7
  <2>3. CASE ~ (prep.v > 1 /\ d - 1 > prep.complete)
    <3>1. s = [left |-> 0, v |-> prep.exit, ramp |-> "decel"]
      BY <2>1, <2>3, <1>1 DEF Decelerated
    <3>2. prep.v <= 1 \/ d = 1
      BY <1>1, <2>3
    <3>3. /\ s.left = 0 /\ s.v = prep.exit /\ s.ramp = "decel"
          /\ t.v = prep.exit /\ t.ramp = "decel"
          /\ t.decelOverride = prep.decelOverride
          /\ t.exit = prep.exit /\ t.complete = 0
          /\ t.accelUntil = prep.accelUntil /\ t.decelAfter = prep.decelAfter
          /\ t.maximum = prep.maximum
      BY <1>1, <1>2, <3>1, <3>2
    <3>4. Sane
      BY <1>1, <2>0, <3>2, <3>3
    <3>5. Profiled
      BY <1>1, <2>0, <3>2, <3>3 DEF CycleProfile
    <3>6. ASSUME NEW w \in Nat PROVE Stops(w)
      BY <1>1, <2>0, <3>2, <3>3
    <3>7. ASSUME NEW nominal \in Nat PROVE Exact(nominal)
      <4> SUFFICES ASSUME ExactProfile(prep, d, nominal)
                   PROVE  /\ s.left > 0 => ExactProfile(t, s.left, nominal)
                          /\ s.left <= d
                          /\ s.v <= prep.v + (d - s.left)
                          /\ prep.v <= s.v + (d - s.left)
                          /\ prep.v <= nominal /\ prep.exit <= nominal => s.v <= nominal
                          /\ prep.exit <= prep.v + d => prep.exit <= s.v + s.left
                          /\ prep.exit = prep.v + d => prep.exit = s.v + s.left
        OBVIOUS
      <4> QED BY <1>1, <2>0, <3>2, <3>3 DEF ExactProfile
    <3> QED BY <3>4, <3>5, <3>6, <3>7
  <2> QED BY <2>2, <2>3
<1>6. CASE prep.ramp = "decelOverride"
  <2>1. s = Slowed(d)
    BY <1>6 DEF Moved
  <2>0. /\ prep.v + prep.accelUntil = prep.maximum + d /\ 0 < prep.accelUntil /\ prep.accelUntil < d
        /\ prep.maximum = prep.exit + prep.decelAfter /\ ~prep.decelOverride /\ prep.exit = x
        /\ prep.ramp = "decelOverride"
    BY <1>6 DEF CycleProfile
  <2> HIDE DEF d, s, t
  <2>2. CASE d - 1 > prep.accelUntil
    <3> DEFINE l == d - 1
               y == prep.v - 1
    <3>1. s = [left |-> l, v |-> y, ramp |-> "decelOverride"]
      BY <2>1, <2>2 DEF Slowed
    <3>2. l \in Nat /\ y \in Nat /\ l > 0 /\ l = d - 1 /\ y = prep.v - 1
      BY <1>1, <2>2, <2>0
    <3> HIDE DEF l, y
    <3>3. /\ s.left = l /\ s.v = y /\ s.ramp = "decelOverride"
          /\ t.v = y /\ t.ramp = "decelOverride"
          /\ t.decelOverride = prep.decelOverride
          /\ t.exit = prep.exit /\ t.complete = 0
          /\ t.accelUntil = prep.accelUntil /\ t.decelAfter = prep.decelAfter
          /\ t.maximum = prep.maximum
      BY <1>1, <1>2, <3>1, <3>2
    <3>4. Sane
      BY <1>1, <2>0, <3>2, <3>3, <2>2
    <3>5. Profiled
      BY <1>1, <2>0, <3>2, <3>3, <2>2 DEF CycleProfile
    <3>6. ASSUME NEW w \in Nat PROVE Stops(w)
      BY <1>1, <2>0, <3>2, <3>3, <2>2
    <3>7. ASSUME NEW nominal \in Nat PROVE Exact(nominal)
      <4> SUFFICES ASSUME ExactProfile(prep, d, nominal)
                   PROVE  /\ s.left > 0 => ExactProfile(t, s.left, nominal)
                          /\ s.left <= d
                          /\ s.v <= prep.v + (d - s.left)
                          /\ prep.v <= s.v + (d - s.left)
                          /\ prep.v <= nominal /\ prep.exit <= nominal => s.v <= nominal
                          /\ prep.exit <= prep.v + d => prep.exit <= s.v + s.left
                          /\ prep.exit = prep.v + d => prep.exit = s.v + s.left
        OBVIOUS
      <4> QED BY <1>1, <2>0, <3>2, <3>3, <2>2 DEF ExactProfile
    <3> QED BY <3>4, <3>5, <3>6, <3>7
  <2>3. CASE ~ (d - 1 > prep.accelUntil)
    <3>1. s = [left |-> prep.accelUntil, v |-> prep.maximum, ramp |-> "cruise"]
      BY <2>1, <2>3 DEF Slowed
    <3>2. d = prep.accelUntil + 1
      BY <1>1, <2>0, <2>3
    <3>3. /\ s.left = prep.accelUntil /\ s.v = prep.maximum /\ s.ramp = "cruise"
          /\ t.v = prep.maximum /\ t.ramp = "cruise"
          /\ t.decelOverride = prep.decelOverride
          /\ t.exit = prep.exit /\ t.complete = 0
          /\ t.accelUntil = prep.accelUntil /\ t.decelAfter = prep.decelAfter
          /\ t.maximum = prep.maximum
      BY <1>1, <1>2, <3>1, <3>2
    <3>4. Sane
      BY <1>1, <2>0, <3>2, <3>3
    <3>5. Profiled
      BY <1>1, <2>0, <3>2, <3>3 DEF CycleProfile
    <3>6. ASSUME NEW w \in Nat PROVE Stops(w)
      BY <1>1, <2>0, <3>2, <3>3
    <3>7. ASSUME NEW nominal \in Nat PROVE Exact(nominal)
      <4> SUFFICES ASSUME ExactProfile(prep, d, nominal)
                   PROVE  /\ s.left > 0 => ExactProfile(t, s.left, nominal)
                          /\ s.left <= d
                          /\ s.v <= prep.v + (d - s.left)
                          /\ prep.v <= s.v + (d - s.left)
                          /\ prep.v <= nominal /\ prep.exit <= nominal => s.v <= nominal
                          /\ prep.exit <= prep.v + d => prep.exit <= s.v + s.left
                          /\ prep.exit = prep.v + d => prep.exit = s.v + s.left
        OBVIOUS
      <4> QED BY <1>1, <2>0, <3>2, <3>3 DEF ExactProfile
    <3> QED BY <3>4, <3>5, <3>6, <3>7
  <2> QED BY <2>2, <2>3
<1> QED BY <1>1, <1>3, <1>4, <1>5, <1>6

\* A segment in a hold: the speed falls with the way.
LEMMA MovedInHold ==
  ASSUME prep \in Preps, blocks[1].left \in Nat, blocks[1].left > 0,
         HeldProfile(prep, blocks[1].left)
  PROVE  /\ Moved.left \in Nat /\ Moved.v \in Nat
         /\ Moved.ramp \in {"accel", "cruise", "decel", "decelOverride"}
         /\ Moved.left = prep.complete => Moved.v = prep.exit
         /\ Moved.left # prep.complete => HeldProfile(SegmentPrep(Moved), Moved.left)
         /\ prep.complete # 0 => Moved.left # 0
         /\ Moved.left <= blocks[1].left
         /\ prep.v = Moved.v + (blocks[1].left - Moved.left)
<1> DEFINE d == blocks[1].left
           s == Moved
<1>1. /\ prep.v \in Nat /\ prep.exit \in Nat /\ prep.complete \in Nat /\ d \in Nat /\ d > 0
      /\ prep.ramp = "decel" /\ prep.v + prep.complete = prep.exit + d /\ prep.complete <= d
      /\ prep.exit = 0 \/ prep.complete = 0
  BY DEF HeldProfile, Preps
<1>2. ASSUME NEW l \in Nat, NEW y \in Nat, NEW ramp \in {"accel", "cruise", "decel", "decelOverride"},
             s = [left |-> l, v |-> y, ramp |-> ramp]
      PROVE  /\ s.left = l /\ s.v = y /\ s.ramp = ramp
             /\ SegmentPrep(s).v = y /\ SegmentPrep(s).ramp = ramp
             /\ SegmentPrep(s).exit = prep.exit /\ SegmentPrep(s).complete = prep.complete
  <2> HIDE DEF s
  <2>1. s.left = l /\ s.v = y /\ s.ramp = ramp
    BY <1>2
  <2> QED BY <2>1, SegmentPrepFields
<1>3. s = Decelerated(d)
  BY <1>1 DEF Moved
<1> HIDE DEF d, s
<1>4. CASE prep.v > 1 /\ d - 1 > prep.complete
  <2> DEFINE l == d - 1
             y == prep.v - 1
  <2>1. s = [left |-> l, v |-> y, ramp |-> "decel"]
    BY <1>3, <1>4 DEF Decelerated
  <2>2. l \in Nat /\ y \in Nat /\ l > 0 /\ l = d - 1 /\ y = prep.v - 1
    BY <1>1, <1>4
  <2> HIDE DEF l, y
  <2>3. /\ s.left = l /\ s.v = y /\ s.ramp = "decel"
        /\ SegmentPrep(s).v = y /\ SegmentPrep(s).ramp = "decel"
        /\ SegmentPrep(s).exit = prep.exit /\ SegmentPrep(s).complete = prep.complete
    BY <1>2, <2>1, <2>2
  <2>4. HeldProfile(SegmentPrep(s), l)
    BY <1>1, <1>4, <2>2, <2>3 DEF HeldProfile
  <2>5. l # prep.complete /\ l <= d
    BY <1>1, <1>4, <2>2
  <2>6. prep.v = y + (d - l)
    BY <1>1, <2>2
  <2> QED BY <2>2, <2>3, <2>4, <2>5, <2>6 DEF d, s
<1>5. CASE ~ (prep.v > 1 /\ d - 1 > prep.complete)
  <2>1. s = [left |-> prep.complete, v |-> prep.exit, ramp |-> "decel"]
    BY <1>3, <1>5 DEF Decelerated
  <2> QED BY <1>1, <1>2, <2>1 DEF HeldProfile, d, s
<1> QED BY <1>4, <1>5

(***************************************************************************)
(* The invariant, and what the entry speed of the first block has no part  *)
(* in.                                                                     *)
(***************************************************************************)
Motions == {"idle", "cycle", "hold", "stopping", "held"}

\* The maxima of the queue q under the overrides o, pn being pl.previous_nominal_speed.
Limits(q, o, pn) ==
  /\ \A k \in 1 .. Len(q) : q[k].max <= q[k].junction /\ q[k].max <= Nominal(q[k], o)
  /\ \A k \in 2 .. Len(q) : q[k].max <= Nominal(q[k - 1], o)
  /\ q # <<>> => pn = Nominal(q[Len(q)], o)

\* Every block is as fast as one of its limits, and none is faster than it is reached with.
Fastest(q, v, p) ==
  /\ ReachedUpTo(q, v, Len(q))
  /\ \A k \in 2 .. Len(q) : TightAt(q, v, k)
  /\ Final(q, v, p)

\* How the block in preparation stands to the first of the queue q.
PrepFits(m, q, t) ==
  /\ t.loaded => q # <<>> /\ ~t.recalculate /\ m \in {"cycle", "hold", "stopping"}
  /\ t.recalculate => q # <<>> /\ q[1].entry = t.v
  /\ ~t.loaded /\ ~t.recalculate => t.v = t.exit /\ m # "stopping"
  /\ ~t.loaded /\ ~t.recalculate /\ ~t.decelOverride /\ q # <<>> /\ m # "hold" => q[1].entry = t.v
  /\ t.decelOverride => t.exit > 0

ProfileFits(m, q, t) ==
  /\ t.loaded /\ m = "cycle" => CycleProfile(t, q[1].left, Onward(q, 1))
  /\ t.loaded /\ m = "hold" => HeldProfile(t, q[1].left)
  /\ t.loaded /\ m = "stopping" => t.v = 0

\* What holds as long as nothing was overridden.
Steady(o, q, t) ==
  /\ ~t.decelOverride
  /\ q # <<>> => t.v <= Nominal(q[1], o)
  /\ q # <<>> /\ ~t.loaded /\ ~t.recalculate => t.v <= q[1].entry /\ q[1].entry <= q[1].max
  /\ Feasible(q, t.v)

Stops(q, v) == \E w : Stoppable(q, v, w)

PlanTypes ==
  /\ motion \in Motions /\ ovr \in Overrides
  /\ blocks \in Seq(Block)
  /\ planned \in Nat /\ 1 <= planned
  /\ blocks = <<>> => planned = 1
  /\ blocks # <<>> => planned <= Len(blocks)
  /\ prevNominal \in Nat /\ prep \in Preps /\ overridden \in Nat

QueueInv ==
  /\ PlanTypes
  /\ WithinMax(blocks) /\ Limits(blocks, ovr, prevNominal)
  /\ Stops(blocks, prep.v)
  /\ PrepFits(motion, blocks, prep) /\ ProfileFits(motion, blocks, prep)
  /\ overridden = 0 =>
       /\ Steady(ovr, blocks, prep)
       /\ prep.loaded /\ motion = "cycle" => ExactProfile(prep, blocks[1].left, Nominal(blocks[1], ovr))
       /\ motion \notin {"hold", "stopping"} => Fastest(blocks, prep.v, planned)

\* Queues that differ in the entry speed of the first block only.
Alike(q, u) ==
  /\ Len(u) = Len(q)
  /\ \A k \in 1 .. Len(q) : /\ u[k].left = q[k].left /\ u[k].max = q[k].max /\ u[k].junction = q[k].junction
                            /\ u[k].rate = q[k].rate /\ u[k].rapid = q[k].rapid
                            /\ k > 1 => u[k].entry = q[k].entry

\* The entry speed of the first block is no part of the limits, and the plan behind it
\* depends on the speed now, not on it.
LEMMA AlikeNominal ==
  ASSUME NEW q, NEW u, Alike(q, u), NEW o
  PROVE  \A k \in 1 .. Len(q) : Nominal(u[k], o) = Nominal(q[k], o)
BY DEF Alike, Nominal

\* The same of the maxima.
LEMMA AlikeLimits ==
  ASSUME NEW q \in Seq(Block), NEW u \in Seq(Block), Alike(q, u), NEW o, NEW pn
  PROVE  Limits(q, o, pn) => Limits(u, o, pn)
<1>1. \A k \in 1 .. Len(q) : Nominal(u[k], o) = Nominal(q[k], o)
  BY AlikeNominal
<1>2. Len(u) = Len(q) /\ \A k \in 1 .. Len(q) : u[k].max = q[k].max /\ u[k].junction = q[k].junction
  BY DEF Alike
<1>3. \A k \in 2 .. Len(q) : k \in 1 .. Len(q) /\ k - 1 \in 1 .. Len(q)
  OBVIOUS
<1>4. u # <<>> => q # <<>> /\ Len(q) \in 1 .. Len(q)
  BY <1>2
<1> QED BY <1>1, <1>2, <1>3, <1>4 DEF Limits

\* The same of the speeds.
LEMMA AlikeSpeeds ==
  ASSUME NEW q \in Seq(Block), NEW u \in Seq(Block), Alike(q, u), NEW v
  PROVE  /\ WithinMax(q) => WithinMax(u)
         /\ Stops(q, v) => Stops(u, v)
         /\ Feasible(q, v) => Feasible(u, v)
         /\ \A p \in Nat : p <= Len(q) /\ Fastest(q, v, p) => Fastest(u, v, p)
         /\ \A k \in 1 .. Len(q) : Onward(u, k) = Onward(q, k)
<1> DEFINE n == Len(q)
<1>1. Len(u) = n /\ n \in Nat
  BY DEF Alike
<1>2. \A k \in 1 .. n : u[k].left = q[k].left /\ u[k].max = q[k].max
  BY DEF Alike
<1>3. \A k \in 2 .. n : k \in 1 .. n /\ k - 1 \in 1 .. n /\ u[k].entry = q[k].entry
  BY DEF Alike
<1>3a. \A k \in 1 .. n : k = 1 \/ k \in 2 .. n
  OBVIOUS
<1>4. \A k \in 1 .. n : Entry(u, v, k) = Entry(q, v, k)
  BY <1>3, <1>3a DEF Entry
<1>5. ASSUME NEW k \in 1 .. n PROVE Onward(u, k) = Onward(q, k)
  <2>1. CASE k = n
    BY <2>1, <1>1 DEF Onward
  <2>2. CASE k # n
    <3>1. k + 1 \in 2 .. n
      BY <2>2, <1>1
    <3> QED BY <3>1, <2>2, <1>1, <1>3 DEF Onward
  <2> QED BY <2>1, <2>2
<1>6. WithinMax(q) => WithinMax(u)
  BY <1>1, <1>2, <1>3 DEF WithinMax
<1>7. Stops(q, v) => Stops(u, v)
  BY <1>1, <1>2, <1>3 DEF Stops, Stoppable, Way
<1>8. Feasible(q, v) => Feasible(u, v)
  BY <1>1, <1>2, <1>4, <1>5 DEF Feasible
<1>9. ASSUME NEW k \in 2 .. n PROVE AtLimit(q, v, k) <=> AtLimit(u, v, k)
  BY <1>2, <1>3, <1>4 DEF AtLimit
<1>10. ASSUME NEW p \in Nat, p <= Len(q), Fastest(q, v, p) PROVE Fastest(u, v, p)
  <2>1. ReachedUpTo(u, v, Len(u))
    BY <1>10, <1>1, <1>2, <1>3, <1>4 DEF Fastest, ReachedUpTo
  <2>2. \A k \in 2 .. Len(u) : TightAt(u, v, k)
    BY <1>10, <1>1, <1>2, <1>3, <1>5, <1>9 DEF Fastest, TightAt
  <2>3. Final(u, v, p)
    BY <1>10, <1>9, <1>1 DEF Fastest, Final
  <2> QED BY <2>1, <2>2, <2>3 DEF Fastest
<1> QED BY <1>5, <1>6, <1>7, <1>8, <1>10

\* The update of the tail.
LEMMA FirstEntry ==
  ASSUME NEW q \in Seq(Block), q # <<>>, NEW x \in Nat
  PROVE  /\ [q EXCEPT ![1].entry = x] \in Seq(Block)
         /\ Alike(q, [q EXCEPT ![1].entry = x])
         /\ [q EXCEPT ![1].entry = x][1].entry = x
         /\ [q EXCEPT ![1].entry = x] # <<>>
<1> DEFINE n == Len(q)
           u == [q EXCEPT ![1].entry = x]
           b == [q[1] EXCEPT !.entry = x]
<1>1. n \in Nat /\ n > 0 /\ q[1] \in Block /\ 1 \in DOMAIN q
  OBVIOUS
<1>2. b \in Block /\ b.entry = x /\ b.left = q[1].left /\ b.max = q[1].max /\ b.junction = q[1].junction
      /\ b.rate = q[1].rate /\ b.rapid = q[1].rapid
  BY <1>1 DEF Block
<1>3. u = [q EXCEPT ![1] = b]
  OBVIOUS
<1> HIDE DEF b, u
<1>4. u \in Seq(Block) /\ Len(u) = n /\ \A k \in 1 .. n : u[k] = IF k = 1 THEN b ELSE q[k]
  BY <1>1, <1>2, <1>3
<1>5. Alike(q, u)
  BY <1>2, <1>4 DEF Alike
<1> QED BY <1>1, <1>2, <1>4, <1>5 DEF u

\* The tail that is entered at the speed it has now.
LEMMA UpdatedTailAlike ==
  ASSUME NEW q \in Seq(Block), q # <<>>, prep \in Preps
  PROVE  /\ UpdatedTail(q) \in Seq(Block) /\ Alike(q, UpdatedTail(q)) /\ Len(UpdatedTail(q)) = Len(q)
         /\ UpdatedTail(q) # <<>>
         /\ UpdatedTail(q)[1].entry = IF prep.loaded THEN prep.v ELSE q[1].entry
<1>1. CASE prep.loaded
  BY <1>1, FirstEntry DEF UpdatedTail, Preps, Alike
<1>2. CASE ~prep.loaded
  BY <1>2 DEF UpdatedTail, Alike
<1> QED BY <1>1, <1>2

\* The preparation that will take the block up anew.
LEMMA UpdatedPrepFields ==
  ASSUME prep \in Preps
  PROVE  /\ UpdatedPrep \in Preps /\ ~UpdatedPrep.loaded
         /\ UpdatedPrep.recalculate = (prep.loaded \/ prep.recalculate)
         /\ UpdatedPrep.v = prep.v /\ UpdatedPrep.exit = prep.exit
         /\ UpdatedPrep.decelOverride = prep.decelOverride
<1>1. CASE prep.loaded
  BY <1>1 DEF UpdatedPrep, Preps
<1>2. CASE ~prep.loaded
  BY <1>2 DEF UpdatedPrep, Preps
<1> QED BY <1>1, <1>2

(***************************************************************************)
(* The queue planned anew, from the tail or from a planned block on.       *)
(***************************************************************************)

\* A recalculation leaves the maxima alone.
LEMMA RecalculatedKeepsLimits ==
  ASSUME NEW q \in Seq(Block), NEW p \in 1 .. Len(q), NEW o, NEW pn, Limits(q, o, pn)
  PROVE  Limits(Recalculated(q, p).blocks, o, pn)
<1> DEFINE r == Recalculated(q, p).blocks
<1>1. /\ Len(r) = Len(q) /\ r \in Seq(Block)
      /\ \A i \in 1 .. Len(q) : /\ r[i].max = q[i].max /\ r[i].junction = q[i].junction
                                /\ r[i].rate = q[i].rate /\ r[i].rapid = q[i].rapid
  BY RecalculatedDef
<1> HIDE DEF r
<1>2. \A k \in 1 .. Len(q) : Nominal(r[k], o) = Nominal(q[k], o)
  BY <1>1 DEF Nominal
<1>3. \A k \in 2 .. Len(q) : k \in 1 .. Len(q) /\ k - 1 \in 1 .. Len(q)
  OBVIOUS
<1>4. r # <<>> => q # <<>> /\ Len(q) \in 1 .. Len(q)
  BY <1>1
<1>5. Limits(r, o, pn)
  BY <1>1, <1>2, <1>3, <1>4 DEF Limits
<1> QED BY <1>5 DEF r

\* What a recalculation leaves of the blocks.
LEMMA RecalculatedFields ==
  ASSUME NEW q \in Seq(Block), NEW p \in 1 .. Len(q)
  PROVE  /\ Recalculated(q, p).blocks \in Seq(Block) /\ Len(Recalculated(q, p).blocks) = Len(q)
         /\ Recalculated(q, p).planned \in 1 .. Len(q)
         /\ \A i \in 1 .. p : Recalculated(q, p).blocks[i].entry = q[i].entry
         /\ \A i \in 1 .. Len(q) : /\ Recalculated(q, p).blocks[i].left = q[i].left
                                   /\ Recalculated(q, p).blocks[i].max = q[i].max
         /\ \A o : Nominal(Recalculated(q, p).blocks[1], o) = Nominal(q[1], o)
<1>1. p \in Nat /\ 1 <= p /\ p <= Len(q) /\ Len(q) \in Nat /\ 1 \in 1 .. Len(q)
  OBVIOUS
<1>2. \A i \in 1 .. p : i \in 1 .. Len(q) /\ ~(i > p)
  BY <1>1
<1> QED BY RecalculatedDef, <1>1, <1>2 DEF Nominal

\* The queue q planned anew from its first block, which is updated if it is in
\* execution: whatever the plan was, it is right now, and the fastest one unless the
\* block was entered slower in a hold.
LEMMA ReplannedTail ==
  ASSUME prep \in Preps, NEW q \in Seq(Block), q # <<>>, NEW o \in Overrides, NEW pn, NEW m,
         Limits(q, o, pn), Stops(q, prep.v),
         prep.decelOverride => prep.exit > 0, prep.recalculate => q[1].entry = prep.v,
         ~prep.loaded => PrepFits(m, q, prep),
         NEW u, u = UpdatedTail(q), NEW t, t = UpdatedPrep, NEW r, r = Recalculated(u, 1)
  PROVE  /\ r.blocks \in Seq(Block) /\ Len(r.blocks) = Len(q) /\ r.planned \in 1 .. Len(q)
         /\ t \in Preps
         /\ WithinMax(r.blocks) /\ Limits(r.blocks, o, pn) /\ Stops(r.blocks, t.v)
         /\ PrepFits(m, r.blocks, t) /\ ProfileFits(m, r.blocks, t)
         /\ WithinMax(q) /\ Steady(o, q, prep) =>
              /\ Steady(o, r.blocks, t) /\ ~t.loaded
              /\ m \notin {"hold", "stopping"} => Fastest(r.blocks, t.v, r.planned)
<1> DEFINE n == Len(q)
<1>1. n \in Nat /\ n > 0 /\ 1 \in 1 .. n
  OBVIOUS
<1>2. /\ u \in Seq(Block) /\ Alike(q, u) /\ Len(u) = n /\ u # <<>>
      /\ u[1].entry = IF prep.loaded THEN prep.v ELSE q[1].entry
  BY UpdatedTailAlike
<1>3. /\ t \in Preps /\ ~t.loaded /\ t.recalculate = (prep.loaded \/ prep.recalculate)
      /\ t.v = prep.v /\ t.exit = prep.exit /\ t.decelOverride = prep.decelOverride /\ prep.v \in Nat
  BY UpdatedPrepFields DEF Preps
<1>4. 1 \in 1 .. Len(u) /\ 1 \in 1 .. 1
  BY <1>1, <1>2
<1>5. /\ r.blocks \in Seq(Block) /\ Len(r.blocks) = n /\ r.planned \in 1 .. n
      /\ r.blocks[1].entry = u[1].entry /\ r.blocks[1].left = u[1].left /\ r.blocks[1].max = u[1].max
      /\ Nominal(r.blocks[1], o) = Nominal(u[1], o)
  <2>1. /\ r.blocks \in Seq(Block) /\ Len(r.blocks) = Len(u) /\ r.planned \in 1 .. Len(u)
        /\ \A i \in 1 .. 1 : r.blocks[i].entry = u[i].entry
        /\ \A i \in 1 .. Len(u) : r.blocks[i].left = u[i].left /\ r.blocks[i].max = u[i].max
        /\ \A x : Nominal(r.blocks[1], x) = Nominal(u[1], x)
    <3>1. /\ r.blocks \in Seq(Block) /\ Len(r.blocks) = Len(u) /\ r.planned \in 1 .. Len(u)
      BY <1>2, <1>4, RecalculatedFields
    <3>2. \A i \in 1 .. 1 : r.blocks[i].entry = u[i].entry
      BY <1>2, <1>4, RecalculatedFields
    <3>3. \A i \in 1 .. Len(u) : r.blocks[i].left = u[i].left /\ r.blocks[i].max = u[i].max
      BY <1>2, <1>4, RecalculatedFields
    <3>4a. r.blocks[1].rapid = u[1].rapid /\ r.blocks[1].rate = u[1].rate
      BY <1>2, <1>4, RecalculatedDef
    <3>4. \A x : Nominal(r.blocks[1], x) = Nominal(u[1], x)
      BY <3>4a DEF Nominal
    <3> QED BY <3>1, <3>2, <3>3, <3>4
  <2> QED BY <2>1, <1>2, <1>4
<1>6. r.blocks # <<>>
  BY <1>1, <1>5
<1>7. Limits(r.blocks, o, pn)
  BY <1>2, <1>4, AlikeLimits, RecalculatedKeepsLimits
<1>8. WithinMax(r.blocks)
  BY <1>2, <1>4, RecalculatedLimits
<1>9. Stops(r.blocks, t.v)
  <2>1. Stops(u, prep.v)
    BY <1>1, <1>2, AlikeSpeeds
  <2>2. PICK w : Stoppable(u, prep.v, w)
    BY <2>1 DEF Stops
  <2>3. Stoppable(r.blocks, prep.v, w)
    BY <2>2, <1>2, <1>3, <1>4, RecalculatedStops
  <2> QED BY <2>3, <1>3 DEF Stops
<1>10. t.recalculate => r.blocks[1].entry = t.v
  BY <1>2, <1>3, <1>5
<1>11. ~t.recalculate => ~prep.loaded /\ ~prep.recalculate /\ r.blocks[1].entry = q[1].entry
  BY <1>2, <1>3, <1>5 DEF Preps
<1>12. PrepFits(m, r.blocks, t)
  BY <1>3, <1>6, <1>10, <1>11 DEF PrepFits
<1>13. ProfileFits(m, r.blocks, t)
  BY <1>3 DEF ProfileFits
<1>14. ASSUME WithinMax(q), Steady(o, q, prep)
       PROVE  /\ Steady(o, r.blocks, t)
              /\ m \notin {"hold", "stopping"} => Fastest(r.blocks, t.v, r.planned)
  <2>1. WithinMax(u) /\ Feasible(u, prep.v)
    BY <1>1, <1>2, <1>14, AlikeSpeeds DEF Steady
  <2>2. prep.v <= u[1].entry
    <3>1. CASE prep.loaded \/ prep.recalculate
      BY <3>1, <1>2, <1>3
    <3>2. CASE ~prep.loaded /\ ~prep.recalculate
      BY <3>2, <1>2, <1>14 DEF Steady
    <3> QED BY <3>1, <3>2
  <2>3. Feasible(r.blocks, prep.v)
    BY <2>1, <2>2, <1>2, <1>3, <1>4, RecalculatedFeasible
  <2>4. u[1].max = q[1].max /\ Nominal(u[1], o) = Nominal(q[1], o)
    <3>1. u[1].max = q[1].max
      BY <1>1, <1>2 DEF Alike
    <3>2. Nominal(u[1], o) = Nominal(q[1], o)
      BY <1>1, <1>2, AlikeNominal
    <3> QED BY <3>1, <3>2
  <2>5. Steady(o, r.blocks, t)
    BY <2>3, <2>4, <1>3, <1>5, <1>11, <1>14 DEF Steady
  <2>6. ASSUME m \notin {"hold", "stopping"} PROVE Fastest(r.blocks, t.v, r.planned)
    <3>1. prep.v = u[1].entry
      BY <1>2, <1>3, <1>14, <2>6 DEF PrepFits, Steady
    <3>2. ReachedUpTo(u, prep.v, 1) /\ (\A k \in 2 .. 1 : TightAt(u, prep.v, k)) /\ Final(u, prep.v, 1)
      BY DEF ReachedUpTo, Final
    <3>3. /\ ReachedUpTo(r.blocks, prep.v, Len(u))
          /\ \A k \in 2 .. Len(u) : TightAt(r.blocks, prep.v, k)
          /\ Final(r.blocks, prep.v, r.planned)
      BY <3>1, <3>2, <1>2, <1>3, <1>4, RecalculatedTight
    <3> QED BY <3>3, <1>2, <1>3, <1>5 DEF Fastest
  <2> QED BY <2>5, <2>6
<1> QED BY <1>3, <1>5, <1>7, <1>8, <1>9, <1>12, <1>13, <1>14

\* The queue q planned on from a block p behind the first.
LEMMA ReplannedOn ==
  ASSUME NEW t \in Preps, NEW q \in Seq(Block), NEW p \in 2 .. Len(q), NEW o \in Overrides, NEW pn, NEW m,
         WithinMax(q), Limits(q, o, pn), Stops(q, t.v),
         PrepFits(m, q, t), ProfileFits(m, q, t),
         NEW r, r = Recalculated(q, p)
  PROVE  /\ r.blocks \in Seq(Block) /\ Len(r.blocks) = Len(q) /\ r.planned \in 1 .. Len(q)
         /\ WithinMax(r.blocks) /\ Limits(r.blocks, o, pn) /\ Stops(r.blocks, t.v)
         /\ PrepFits(m, r.blocks, t) /\ ProfileFits(m, r.blocks, t)
         /\ r.blocks[1].left = q[1].left /\ Nominal(r.blocks[1], o) = Nominal(q[1], o)
         /\ Steady(o, q, t) => Steady(o, r.blocks, t)
         /\ ReachedUpTo(q, t.v, p) /\ (\A k \in 2 .. p : TightAt(q, t.v, k)) /\ Final(q, t.v, p)
              => Fastest(r.blocks, t.v, r.planned)
<1> DEFINE n == Len(q)
<1>0. n \in Nat
  OBVIOUS
<1>0a. p \in Nat /\ p >= 2 /\ p <= n
  OBVIOUS
<1>0b. q # <<>>
  BY <1>0, <1>0a
<1>1. p \in 1 .. n /\ n \in Nat /\ n >= 2 /\ p >= 2 /\ p # 1 /\ q # <<>> /\ 1 \in 1 .. p /\ 2 \in 1 .. p /\ 1 # n /\ 1 \in 1 .. n
  <2> HIDE DEF n
  <2>1. p \in 1 .. n /\ n >= 2 /\ p # 1 /\ 1 # n
    <3>1. p \in 1 .. n
      BY <1>0, <1>0a
    <3>2. n >= 2
      BY <1>0, <1>0a
    <3>3. p # 1 
      BY <1>0a
    <3>4. n # 1 
      BY <1>0, <3>2
    <3> QED BY <3>1, <3>2, <3>3, <3>4
  <2>2. 1 \in 1 .. p /\ 2 \in 1 .. p /\ 1 \in 1 .. n
    BY <1>0, <1>0a
  <2> QED BY <2>1, <2>2, <1>0, <1>0a, <1>0b
<1>2. /\ r.blocks \in Seq(Block) /\ Len(r.blocks) = n /\ r.planned \in 1 .. n
      /\ \A i \in 1 .. p : r.blocks[i].entry = q[i].entry
      /\ \A i \in 1 .. n : r.blocks[i].left = q[i].left /\ r.blocks[i].max = q[i].max
      /\ Nominal(r.blocks[1], o) = Nominal(q[1], o)
  BY <1>1, RecalculatedFields
<1>3. /\ r.blocks # <<>> /\ r.blocks[1].entry = q[1].entry /\ r.blocks[1].left = q[1].left
      /\ r.blocks[1].max = q[1].max /\ r.blocks[2].entry = q[2].entry /\ t.v \in Nat
  BY <1>1, <1>2, SMTT(60) DEF Preps
<1>4. Onward(r.blocks, 1) = Onward(q, 1)
  BY <1>1, <1>2, <1>3 DEF Onward
<1>5. WithinMax(r.blocks) /\ Limits(r.blocks, o, pn)
  <2>1. \A k \in 2 .. p : q[k].entry <= q[k].max
    BY <1>1 DEF WithinMax
  <2> QED BY <2>1, <1>1, RecalculatedLimits, RecalculatedKeepsLimits
<1>6. Stops(r.blocks, t.v)
  <2>1. PICK w : Stoppable(q, t.v, w)
    BY DEF Stops
  <2> QED BY <2>1, <1>1, <1>3, RecalculatedStops DEF Stops
<1>7. PrepFits(m, r.blocks, t)
  BY <1>1, <1>3 DEF PrepFits
<1>8. ProfileFits(m, r.blocks, t)
  BY <1>3, <1>4 DEF ProfileFits
<1>9. ASSUME Steady(o, q, t) PROVE Steady(o, r.blocks, t)
  <2>1. Feasible(r.blocks, t.v)
    BY <1>9, <1>1, <1>3, RecalculatedFeasible DEF Steady
  <2> QED BY <2>1, <1>9, <1>1, <1>2, <1>3 DEF Steady
<1>10. ASSUME ReachedUpTo(q, t.v, p), \A k \in 2 .. p : TightAt(q, t.v, k), Final(q, t.v, p)
       PROVE Fastest(r.blocks, t.v, r.planned)
  <2>1. /\ ReachedUpTo(r.blocks, t.v, Len(q))
        /\ \A k \in 2 .. Len(q) : TightAt(r.blocks, t.v, k)
        /\ Final(r.blocks, t.v, r.planned)
    BY <1>10, <1>1, <1>3, RecalculatedTight
  <2> QED BY <2>1, <1>2 DEF Fastest
<1> QED BY <1>2, <1>3, <1>5, <1>6, <1>7, <1>8, <1>9, <1>10

(***************************************************************************)
(* A line.                                                                 *)
(***************************************************************************)

\* A line is appended to the queue q.
LEMMA Appended ==
  ASSUME NEW q \in Seq(Block), NEW b \in Block, b.entry = 0, NEW A, A = Append(q, b), NEW v \in Nat
  PROVE  /\ A \in Seq(Block) /\ Len(A) = Len(q) + 1 /\ A # <<>>
         /\ \A k \in 1 .. Len(q) : A[k] = q[k] /\ Onward(A, k) = Onward(q, k)
         /\ A[Len(q) + 1] = b
         /\ WithinMax(q) => WithinMax(A)
         /\ Stops(q, v) => Stops(A, v)
         /\ q # <<>> /\ Feasible(q, v) => Feasible(A, v)
         /\ \A p \in 1 .. Len(q) : Fastest(q, v, p) =>
              ReachedUpTo(A, v, p) /\ (\A k \in 2 .. p : TightAt(A, v, k)) /\ Final(A, v, p)
<1> DEFINE n == Len(q)
           m == n + 1
<1>1. n \in Nat /\ m \in Nat /\ m = n + 1
  OBVIOUS
<1>2. A \in Seq(Block) /\ Len(A) = m /\ (\A k \in 1 .. n : A[k] = q[k]) /\ A[m] = b
  OBVIOUS
<1> HIDE DEF m
<1>3. A # <<>>
  BY <1>1, <1>2
<1>4. b.entry \in Nat /\ b.max \in Nat /\ b.left \in Nat /\ b.left > 0
  BY DEF Block
<1>5. \A k \in 1 .. m : k = m \/ k \in 1 .. n
  BY <1>1
<1>6. \A k \in 2 .. m : k = m \/ k \in 2 .. n
  BY <1>1
<1>7. \A k \in 2 .. n : k \in 1 .. n /\ k - 1 \in 1 .. n
  BY <1>1
<1>8. ASSUME NEW k \in 1 .. n PROVE Onward(A, k) = Onward(q, k)
  <2>1. CASE k = n
    BY <2>1, <1>1, <1>2 DEF Onward
  <2>2. CASE k # n
    <3>1. k + 1 \in 1 .. n /\ k # m
      BY <2>2, <1>1
    <3> QED BY <3>1, <2>2, <1>1, <1>2 DEF Onward
  <2> QED BY <2>1, <2>2
<1>9. ASSUME WithinMax(q) PROVE WithinMax(A)
  BY <1>9, <1>2, <1>4, <1>6, <1>7 DEF WithinMax
<1>10. ASSUME Stops(q, v) PROVE Stops(A, v)
  <2>1. PICK w : Stoppable(q, v, w)
    BY <1>10 DEF Stops
  <2> DEFINE z == [k \in 1 .. m + 1 |-> IF k = m + 1 THEN 0 ELSE w[k] + b.left]
  <2>2. w \in [1 .. m -> Nat] /\ w[m] = 0 /\ \A k \in 1 .. n : w[k] = w[k + 1] + q[k].left
    BY <2>1, <1>1 DEF Stoppable, Way
  <2>3. \A k \in 1 .. m : k # m + 1 /\ k \in 1 .. m + 1 /\ w[k] \in Nat
    BY <2>2, <1>1, SMTT(60)
  <2>4. z \in [1 .. m + 1 -> Nat]
    <3>1. \A k \in 1 .. m + 1 : k = m + 1 \/ k \in 1 .. m
      BY <1>1
    <3> QED BY <3>1, <2>3, <1>4
  <2>5. z[m + 1] = 0 /\ \A k \in 1 .. m : z[k] = w[k] + b.left
    <3>1. m + 1 \in 1 .. m + 1
      BY <1>1
    <3> QED BY <3>1, <2>3
  <2> HIDE DEF z
  <2>6. \A k \in 1 .. m : z[k] = z[k + 1] + A[k].left
    <3>1. z[m] = z[m + 1] + A[m].left
      <4>1. m \in 1 .. m
        BY <1>1
      <4> QED BY <4>1, <2>2, <2>5, <1>2, <1>4
    <3>2. ASSUME NEW k \in 1 .. n PROVE z[k] = z[k + 1] + A[k].left
      <4>1. k \in 1 .. m /\ k + 1 \in 1 .. m
        BY <1>1
      <4>2. w[k] = w[k + 1] + A[k].left /\ w[k + 1] \in Nat /\ A[k].left \in Nat
        BY <4>1, <2>2, <1>2, BlockFields
      <4> QED BY <4>1, <4>2, <2>5, <1>4
    <3> QED BY <3>1, <3>2, <1>5
  <2>7. v <= z[1]
    <3>1. 1 \in 1 .. m /\ v <= w[1]
      BY <2>1, <1>1 DEF Stoppable
    <3> QED BY <3>1, <2>3, <2>5, <1>4
  <2>8. \A k \in 2 .. m : A[k].entry <= z[k]
    <3>1. ASSUME NEW k \in 2 .. n PROVE A[k].entry <= z[k]
      <4>1. k \in 1 .. m /\ k \in 1 .. n /\ q[k].entry <= w[k]
        BY <2>1, <1>1 DEF Stoppable
      <4>2. q[k].entry \in Nat
        BY <4>1, BlockFields
      <4> QED BY <4>1, <4>2, <2>3, <2>5, <1>2, <1>4
    <3>2. m \in 1 .. m
      BY <1>1
    <3>3. A[m].entry <= z[m]
      BY <3>2, <2>3, <2>5, <1>2, <1>4
    <3> QED BY <3>1, <3>3, <1>6
  <2> QED BY <2>4, <2>5, <2>6, <2>7, <2>8, <1>2 DEF Stops, Stoppable, Way
<1>11. ASSUME q # <<>>, Feasible(q, v) PROVE Feasible(A, v)
  <2>1. m # 1 /\ n \in 1 .. n
    BY <1>1, <1>11
  <2>2. Entry(A, v, m) <= Onward(A, m) + A[m].left
    BY <2>1, <1>2, <1>4 DEF Entry, Onward
  <2>3. \A k \in 1 .. n : Entry(A, v, k) = Entry(q, v, k)
    BY <1>2 DEF Entry
  <2>4. \A k \in 1 .. n : Entry(A, v, k) <= Onward(A, k) + A[k].left
    BY <2>3, <1>2, <1>8, <1>11 DEF Feasible
  <2> QED BY <2>2, <2>4, <1>2, <1>5 DEF Feasible
<1>12. ASSUME NEW p \in 1 .. n, Fastest(q, v, p)
       PROVE ReachedUpTo(A, v, p) /\ (\A k \in 2 .. p : TightAt(A, v, k)) /\ Final(A, v, p)
  <2>1. \A k \in 2 .. p : k \in 2 .. n /\ k \in 1 .. n /\ k - 1 \in 1 .. n
    BY <1>1
  <2>2. \A k \in 1 .. n : Entry(A, v, k) = Entry(q, v, k)
    BY <1>2 DEF Entry
  <2>3. \A k \in 2 .. p : AtLimit(A, v, k) <=> AtLimit(q, v, k)
    BY <2>1, <2>2, <1>2 DEF AtLimit
  <2>4. ReachedUpTo(A, v, p)
    BY <2>1, <2>2, <1>2, <1>12 DEF ReachedUpTo, Fastest
  <2>5. \A k \in 2 .. p : TightAt(A, v, k)
    BY <2>1, <2>3, <1>2, <1>8, <1>12 DEF TightAt, Fastest
  <2>6. Final(A, v, p)
    <3>1. p > 1 => p \in 2 .. p
      OBVIOUS
    <3> QED BY <3>1, <2>3, <1>12 DEF Final, Fastest
  <2> QED BY <2>4, <2>5, <2>6
<1> QED BY <1>2, <1>3, <1>8, <1>9, <1>10, <1>11, <1>12 DEF m

\* The maxima of a queue with one more line.
LEMMA AppendedLimits ==
  ASSUME NEW q \in Seq(Block), NEW b \in Block, NEW o, NEW pn,
         Limits(q, o, pn), b.max <= b.junction, b.max <= Nominal(b, o), q # <<>> => b.max <= pn
  PROVE  Limits(Append(q, b), o, Nominal(b, o))
<1> DEFINE n == Len(q)
           m == n + 1
           A == Append(q, b)
<1>1. n \in Nat /\ m \in Nat /\ m = n + 1
  OBVIOUS
<1>2. A \in Seq(Block) /\ Len(A) = m /\ (\A k \in 1 .. n : A[k] = q[k]) /\ A[m] = b
  OBVIOUS
<1> HIDE DEF m, A
<1>3. \A k \in 1 .. m : A[k].max <= A[k].junction /\ A[k].max <= Nominal(A[k], o)
  <2>1. \A k \in 1 .. m : k = m \/ k \in 1 .. n
    BY <1>1
  <2> QED BY <2>1, <1>2 DEF Limits
<1>4. ASSUME NEW k \in 2 .. m PROVE A[k].max <= Nominal(A[k - 1], o)
  <2>1. CASE k = m
    <3>1. q # <<>> /\ k - 1 = n /\ n \in 1 .. n
      BY <2>1, <1>1
    <3> QED BY <3>1, <2>1, <1>2 DEF Limits
  <2>2. CASE k # m
    <3>1. k \in 2 .. n /\ k \in 1 .. n /\ k - 1 \in 1 .. n
      BY <2>2, <1>1
    <3> QED BY <3>1, <1>2 DEF Limits
  <2> QED BY <2>1, <2>2
<1>5. Limits(A, o, Nominal(b, o))
  BY <1>2, <1>3, <1>4 DEF Limits
<1> QED BY <1>5 DEF A

\* The block plan_buffer_line() makes of a line.
LEMMA NewLine ==
  ASSUME NEW len \in Lengths, NEW j \in Junctions, NEW rate \in Rates, NEW rapid \in BOOLEAN,
         NEW o \in Overrides, NEW pn \in Nat, NEW junction, junction = IF blocks = <<>> THEN 0 ELSE j,
         NEW line, line = [left |-> len, entry |-> 0, max |-> 0, junction |-> junction,
                           rate |-> rate, rapid |-> rapid],
         NEW b, b = [line EXCEPT !.max = MaxEntry(junction, Nominal(line, o), pn)]
  PROVE  /\ b \in Block /\ b.entry = 0 /\ b.max <= b.junction /\ b.max <= Nominal(b, o) /\ b.max <= pn
         /\ Nominal(b, o) = Nominal(line, o) /\ Nominal(b, o) \in Nat
         /\ blocks = <<>> => b.max = 0
<1>1. junction \in Nat /\ len \in Nat \ {0} /\ (blocks = <<>> => junction = 0)
  BY PlannerAssumption
<1>2. line \in Block
  BY <1>1 DEF Block
<1> DEFINE nominal == Nominal(line, o)
           x == MaxEntry(junction, nominal, pn)
<1>3. nominal \in Nat
  BY <1>2, NominalType
<1> HIDE DEF nominal
<1>4. x \in Nat /\ x <= junction /\ x <= nominal /\ x <= pn
  BY <1>1, <1>3 DEF MaxEntry, Lesser
<1>5. b = [line EXCEPT !.max = x]
  BY DEF nominal
<1> HIDE DEF x
<1>6. /\ b \in Block /\ b.entry = 0 /\ b.max = x /\ b.junction = junction
      /\ b.rate = line.rate /\ b.rapid = line.rapid
  BY <1>2, <1>4, <1>5 DEF Block
<1>7. Nominal(b, o) = nominal
  BY <1>6 DEF Nominal, nominal
<1> QED BY <1>1, <1>3, <1>4, <1>6, <1>7 DEF nominal

\* A line that finds the queue empty.
LEMMA FirstLine ==
  ASSUME QueueInv, blocks = <<>>, NEW b \in Block, b.entry = 0, b.max = 0, NEW o \in Overrides,
         NEW A, A = Append(blocks, b), Nominal(b, o) \in Nat
  PROVE  /\ PrepFits(motion, A, prep) /\ ProfileFits(motion, A, prep) /\ ~prep.loaded
         /\ overridden = 0 => Steady(o, A, prep) /\ Fastest(A, prep.v, 1)
<1>1. ~prep.loaded /\ ~prep.recalculate
  BY DEF QueueInv, PrepFits
<1>2. prep.v = 0
  <2>1. PICK w : Stoppable(blocks, prep.v, w)
    BY DEF QueueInv, Stops
  <2>2. Len(blocks) = 0
    OBVIOUS
  <2>3. w[1] = 0
    BY <2>1, <2>2 DEF Stoppable, Way
  <2> QED BY <2>1, <2>3 DEF Stoppable, QueueInv, PlanTypes, Preps
<1>3. Len(A) = 1 /\ A[1] = b /\ A # <<>> /\ b.left \in Nat
  BY DEF Block
<1>4. PrepFits(motion, A, prep)
  BY <1>1, <1>2, <1>3 DEF QueueInv, PrepFits
<1>5. ProfileFits(motion, A, prep)
  BY <1>1 DEF ProfileFits
<1>6. Fastest(A, prep.v, 1)
  BY <1>3 DEF Fastest, ReachedUpTo, Final
<1>7. Feasible(A, prep.v)
  BY <1>2, <1>3 DEF Feasible, Entry, Onward
<1>8. overridden = 0 => Steady(o, A, prep)
  BY <1>1, <1>2, <1>3, <1>7 DEF QueueInv, Steady
<1> QED BY <1>1, <1>4, <1>5, <1>6, <1>8

\* A line is planned: into an empty queue, from the tail on, or from a planned block on.
LEMMA BufferLineKeeps ==
  ASSUME QueueInv, BufferLine
  PROVE  QueueInv'
<1> USE DEF PlanTypes
<1>1. PICK len \in Lengths, j \in Junctions, rate \in Rates, rapid \in BOOLEAN :
         LET junction == IF blocks = <<>> THEN 0 ELSE j
             line == [left |-> len, entry |-> 0, max |-> 0, junction |-> junction,
                      rate |-> rate, rapid |-> rapid]
             nominal == Nominal(line, ovr)
             b == [line EXCEPT !.max = MaxEntry(junction, nominal, prevNominal)]
         IN  /\ prevNominal' = nominal
             /\ Replan(Append(blocks, b), planned)
  BY ZenonT(60) DEF BufferLine
<1> DEFINE junction == IF blocks = <<>> THEN 0 ELSE j
           line == [left |-> len, entry |-> 0, max |-> 0, junction |-> junction,
                    rate |-> rate, rapid |-> rapid]
           b == [line EXCEPT !.max = MaxEntry(junction, Nominal(line, ovr), prevNominal)]
           A == Append(blocks, b)
           n == Len(blocks)
<1>2. motion' = motion /\ ovr' = ovr /\ overridden' = overridden
  BY DEF BufferLine
<1>3. /\ motion \in Motions /\ ovr \in Overrides /\ blocks \in Seq(Block) /\ planned \in Nat /\ 1 <= planned
      /\ (blocks = <<>> => planned = 1) /\ (blocks # <<>> => planned <= n)
      /\ prevNominal \in Nat /\ prep \in Preps /\ overridden \in Nat /\ prep.v \in Nat
  BY DEF QueueInv, Preps
<1>4. /\ b \in Block /\ b.entry = 0 /\ b.max <= b.junction /\ b.max <= Nominal(b, ovr) /\ b.max <= prevNominal
      /\ Nominal(b, ovr) = Nominal(line, ovr) /\ Nominal(b, ovr) \in Nat
      /\ blocks = <<>> => b.max = 0
  BY <1>3, NewLine
<1>5. prevNominal' = Nominal(b, ovr) /\ Replan(A, planned)
  BY <1>1, <1>4
<1> HIDE DEF b, A
<1>6. /\ A \in Seq(Block) /\ Len(A) = n + 1 /\ A # <<>>
      /\ \A k \in 1 .. n : A[k] = blocks[k] /\ Onward(A, k) = Onward(blocks, k)
      /\ WithinMax(A) /\ Stops(A, prep.v)
      /\ blocks # <<>> /\ Feasible(blocks, prep.v) => Feasible(A, prep.v)
      /\ \A p \in 1 .. n : Fastest(blocks, prep.v, p) =>
           ReachedUpTo(A, prep.v, p) /\ (\A k \in 2 .. p : TightAt(A, prep.v, k)) /\ Final(A, prep.v, p)
  <2>0. /\ blocks \in Seq(Block) /\ b \in Block /\ b.entry = 0 /\ prep.v \in Nat
        /\ A = Append(blocks, b) /\ n = Len(blocks) /\ WithinMax(blocks) /\ Stops(blocks, prep.v)
    BY <1>3, <1>4 DEF QueueInv, A
  <2>1. /\ A \in Seq(Block) /\ Len(A) = Len(blocks) + 1 /\ A # <<>>
        /\ \A k \in 1 .. Len(blocks) : A[k] = blocks[k] /\ Onward(A, k) = Onward(blocks, k)
    <3>1. /\ A \in Seq(Block) /\ Len(A) = Len(blocks) + 1 /\ A # <<>> /\ A[Len(blocks) + 1] = b
          /\ \A k \in 1 .. Len(blocks) : A[k] = blocks[k]
      BY <2>0
    <3>2. ASSUME NEW k \in 1 .. Len(blocks) PROVE Onward(A, k) = Onward(blocks, k)
      <4>1. k # Len(A) /\ Onward(A, k) = A[k + 1].entry
        BY <3>1 DEF Onward
      <4>2. CASE k = Len(blocks)
        BY <2>0, <3>1, <4>1, <4>2 DEF Onward
      <4>3. CASE k # Len(blocks)
        <5>1. k + 1 \in 1 .. Len(blocks)
          BY <4>3
        <5> QED BY <3>1, <4>1, <4>3, <5>1 DEF Onward
      <4> QED BY <4>2, <4>3
    <3> QED BY <3>1, <3>2
  <2>2. WithinMax(A) /\ Stops(A, prep.v)
    BY <2>0, Appended
  <2>3. blocks # <<>> /\ Feasible(blocks, prep.v) => Feasible(A, prep.v)
    BY <2>0, Appended
  <2>4. \A p \in 1 .. n : Fastest(blocks, prep.v, p) =>
          ReachedUpTo(A, prep.v, p) /\ (\A k \in 2 .. p : TightAt(A, prep.v, k)) /\ Final(A, prep.v, p)
    <3> SUFFICES ASSUME NEW p \in 1 .. n, Fastest(blocks, prep.v, p)
                 PROVE  /\ ReachedUpTo(A, prep.v, p) /\ Final(A, prep.v, p)
                        /\ \A k \in 2 .. p : TightAt(A, prep.v, k)
      OBVIOUS
    <3> QED BY <2>0, Appended
  <2> QED BY <2>1, <2>2, <2>3, <2>4
<1>7. Limits(A, ovr, prevNominal')
  BY <1>3, <1>4, <1>5, AppendedLimits DEF QueueInv, A
<1>8. CASE blocks = <<>>
  <2>1. n = 0 /\ Len(A) = planned /\ planned = 1
    BY <1>8, <1>3, <1>6
  <2>2. blocks' = A /\ planned' = 1 /\ prep' = prep
    BY <1>5, <2>1 DEF Replan
  <2>3. /\ PrepFits(motion, A, prep) /\ ProfileFits(motion, A, prep) /\ ~prep.loaded
        /\ overridden = 0 => Steady(ovr, A, prep) /\ Fastest(A, prep.v, 1)
    BY <1>8, <1>3, <1>4, FirstLine DEF A
  <2> QED BY <2>1, <2>2, <2>3, <1>2, <1>3, <1>4, <1>5, <1>6, <1>7 DEF QueueInv
<1>9. CASE blocks # <<>>
  <2>1. n \in Nat /\ n >= 1 /\ planned \in 1 .. n /\ 1 \in 1 .. n /\ Len(A) # planned
    BY <1>9, <1>3, <1>6
  <2>2. A[1] = blocks[1] /\ Onward(A, 1) = Onward(blocks, 1)
    BY <2>1, <1>6
  <2>3. PrepFits(motion, A, prep) /\ ProfileFits(motion, A, prep)
    BY <2>2, <1>6, <1>9 DEF QueueInv, PrepFits, ProfileFits
  <2>4. ASSUME overridden = 0 PROVE Steady(ovr, A, prep)
    BY <2>2, <2>4, <1>6, <1>9 DEF QueueInv, Steady
  <2>5. CASE planned = 1
    <3> DEFINE r == Recalculated(UpdatedTail(A), 1)
    <3>1. blocks' = r.blocks /\ planned' = r.planned /\ prep' = UpdatedPrep
      BY <1>5, <2>1, <2>5 DEF Replan
    <3>2. /\ prep.decelOverride => prep.exit > 0
          /\ prep.recalculate => A[1].entry = prep.v
      BY <2>2 DEF QueueInv, PrepFits
    <3>3. /\ r.blocks \in Seq(Block) /\ Len(r.blocks) = Len(A) /\ r.planned \in 1 .. Len(A)
          /\ UpdatedPrep \in Preps
          /\ WithinMax(r.blocks) /\ Limits(r.blocks, ovr, prevNominal') /\ Stops(r.blocks, UpdatedPrep.v)
          /\ PrepFits(motion, r.blocks, UpdatedPrep) /\ ProfileFits(motion, r.blocks, UpdatedPrep)
          /\ WithinMax(A) /\ Steady(ovr, A, prep) =>
               /\ Steady(ovr, r.blocks, UpdatedPrep) /\ ~UpdatedPrep.loaded
               /\ motion \notin {"hold", "stopping"} => Fastest(r.blocks, UpdatedPrep.v, r.planned)
      BY <3>2, <2>3, <1>3, <1>6, <1>7, ReplannedTail
    <3> HIDE DEF r
    <3>4. PlanTypes'
      BY <3>1, <3>3, <1>2, <1>3, <1>4, <1>5, <1>6
    <3> QED BY <3>1, <3>3, <3>4, <2>4, <1>2, <1>6 DEF QueueInv
  <2>6. CASE planned # 1
    <3> DEFINE r == Recalculated(A, planned)
    <3>1. blocks' = r.blocks /\ planned' = r.planned /\ prep' = prep
      BY <1>5, <2>1, <2>6 DEF Replan
    <3>2. planned \in 2 .. Len(A)
      BY <2>1, <2>6, <1>6
    <3>3. /\ r.blocks \in Seq(Block) /\ Len(r.blocks) = Len(A) /\ r.planned \in 1 .. Len(A)
          /\ WithinMax(r.blocks) /\ Limits(r.blocks, ovr, prevNominal') /\ Stops(r.blocks, prep.v)
          /\ PrepFits(motion, r.blocks, prep) /\ ProfileFits(motion, r.blocks, prep)
          /\ r.blocks[1].left = A[1].left /\ Nominal(r.blocks[1], ovr) = Nominal(A[1], ovr)
          /\ Steady(ovr, A, prep) => Steady(ovr, r.blocks, prep)
          /\ ReachedUpTo(A, prep.v, planned) /\ (\A k \in 2 .. planned : TightAt(A, prep.v, k))
               /\ Final(A, prep.v, planned)
               => Fastest(r.blocks, prep.v, r.planned)
      BY <3>2, <2>3, <1>3, <1>6, <1>7, ReplannedOn
    <3> HIDE DEF r
    <3>4. PlanTypes'
      BY <3>1, <3>3, <1>2, <1>3, <1>4, <1>5, <1>6
    <3>5. ASSUME overridden = 0, motion \notin {"hold", "stopping"}
          PROVE Fastest(r.blocks, prep.v, r.planned)
      BY <3>3, <3>5, <2>1, <1>6 DEF QueueInv
    <3> QED BY <3>1, <3>3, <3>4, <3>5, <2>2, <2>4, <1>2, <1>6 DEF QueueInv
  <2> QED BY <2>5, <2>6
<1> QED BY <1>8, <1>9

(***************************************************************************)
(* Blocks taken up, held and stopped, and the overrides.                   *)
(***************************************************************************)

\* The speed the first block is left at.
LEMMA ExitSpeedIs ==
  ASSUME QueueInv, blocks # <<>>
  PROVE  /\ ExitSpeed = Onward(blocks, 1) /\ ExitSpeed \in Nat
         /\ ExitSpeed <= Nominal(blocks[1], ovr)
         /\ overridden = 0 /\ motion = "cycle" => ExitSpeed <= prep.v + blocks[1].left
<1> DEFINE n == Len(blocks)
<1>1. blocks \in Seq(Block) /\ n \in Nat /\ n >= 1 /\ ovr \in Overrides /\ prep.v \in Nat
  BY DEF QueueInv, PlanTypes, Preps
<1>1a. Len(blocks) = n
  OBVIOUS
<1>2. blocks[1] \in Block /\ blocks[1].left \in Nat
  <2>1. 1 \in 1 .. Len(blocks)
    BY <1>1
  <2> QED BY <2>1, <1>1, BlockFields
<1> HIDE DEF n
<1>3. Nominal(blocks[1], ovr) \in Nat
  BY <1>1, <1>2, NominalType
<1>4. CASE n = 1
  BY <1>1, <1>1a, <1>2, <1>3, <1>4 DEF ExitSpeed, Onward
<1>5. CASE n # 1
  <2>1. 2 \in 2 .. n /\ 2 \in 1 .. n /\ 2 - 1 = 1
    BY <1>1, <1>5
  <2>2. ExitSpeed = blocks[2].entry /\ Onward(blocks, 1) = blocks[2].entry
    BY <1>1, <1>1a, <1>5 DEF ExitSpeed, Onward
  <2>3. blocks[2].entry \in Nat /\ blocks[2].max \in Nat
    BY <1>1, <1>1a, <2>1, BlockFields
  <2>4. blocks[2].entry <= blocks[2].max
    BY <2>1, <1>1a DEF QueueInv, WithinMax
  <2>5. blocks[2].max <= Nominal(blocks[1], ovr)
    BY <2>1, <1>1a DEF QueueInv, Limits
  <2>6. overridden = 0 /\ motion = "cycle" => blocks[2].entry <= prep.v + blocks[1].left
    BY <2>1, <1>1a DEF QueueInv, Fastest, ReachedUpTo, Entry
  <2> QED BY <2>2, <2>3, <2>4, <2>5, <2>6, <1>3
<1> QED BY <1>4, <1>5

\* A block is taken up, whether a new one or the one in execution, at the speed now.
LEMMA Loaded ==
  ASSUME QueueInv, Prepping, ~prep.loaded, blocks # <<>>,
         NEW u \in Seq(Block), Alike(blocks, u), NEW b, u[1] = b, b.entry = prep.v,
         NEW p \in Preps, p.loaded, ~p.recalculate, ~p.decelOverride, p.v = prep.v,
         blocks' = u, prep' = Profile(p, b),
         motion' = motion, ovr' = ovr, planned' = planned, prevNominal' = prevNominal, overridden' = overridden
  PROVE  QueueInv' /\ prep'.v = prep.v
<1> DEFINE n == Len(blocks)
           t == Profile(p, b)
           x == ExitSpeed
           nominal == Nominal(blocks[1], ovr)
<1>1. /\ motion \in Motions /\ ovr \in Overrides /\ blocks \in Seq(Block) /\ planned \in Nat /\ 1 <= planned
      /\ planned <= n /\ prevNominal \in Nat /\ prep \in Preps /\ overridden \in Nat /\ prep.v \in Nat
  BY DEF QueueInv, PlanTypes, Preps
<1>2. n \in Nat /\ n >= 1 /\ 1 \in 1 .. n /\ Len(u) = n /\ u # <<>> /\ b \in Block /\ u[1].left = blocks[1].left
      /\ b.left \in Nat /\ b.max = blocks[1].max
  <2>1. n \in Nat /\ n >= 1 /\ 1 \in 1 .. n
    BY <1>1
  <2>2. Len(u) = n /\ u[1].left = blocks[1].left /\ u[1].max = blocks[1].max
    BY <2>1 DEF Alike
  <2>3. u # <<>> /\ b \in Block
    BY <2>1, <2>2
  <2> QED BY <2>1, <2>2, <2>3 DEF Block
<1>3. Nominal(b, ovr) = nominal
  BY <1>2, AlikeNominal
<1>4. /\ x = Onward(blocks, 1) /\ x \in Nat /\ x <= nominal
      /\ overridden = 0 /\ motion = "cycle" => x <= prep.v + blocks[1].left
  BY ExitSpeedIs
<1>5. /\ WithinMax(u) /\ Stops(u, prep.v)
      /\ Feasible(blocks, prep.v) => Feasible(u, prep.v)
      /\ Fastest(blocks, prep.v, planned) => Fastest(u, prep.v, planned)
      /\ Onward(u, 1) = x
  BY <1>1, <1>2, <1>4, AlikeSpeeds DEF QueueInv
<1>6. Limits(u, ovr, prevNominal)
  BY <1>1, AlikeLimits DEF QueueInv
<1> HIDE DEF x, t, nominal
<1>7. CASE motion = "hold"
  <2>1. /\ t \in Preps /\ t.v = prep.v /\ t.loaded /\ ~t.recalculate /\ ~t.decelOverride
        /\ HeldProfile(t, u[1].left)
    BY <1>7, <1>2, ProfileInHold DEF t
  <2>2. PlanTypes' /\ prep' = t
    BY <1>1, <1>2, <2>1 DEF PlanTypes, t
  <2>3. PrepFits(motion, u, t) /\ ProfileFits(motion, u, t)
    BY <1>2, <1>7, <2>1 DEF PrepFits, ProfileFits
  <2>4. overridden = 0 => Steady(ovr, u, t)
    BY <1>2, <1>3, <1>5, <2>1 DEF Steady, QueueInv, nominal
  <2> QED BY <1>5, <1>6, <1>7, <2>1, <2>2, <2>3, <2>4 DEF QueueInv
<1>8. CASE motion = "cycle"
  <2>1. motion # "hold"
    BY <1>8
  <2>2. /\ t \in Preps /\ t.v = prep.v /\ t.loaded /\ ~t.recalculate
        /\ t.decelOverride => t.exit > 0
        /\ CycleProfile(t, b.left, x)
        /\ (prep.v <= nominal /\ prep.v <= x + b.left /\ x <= prep.v + b.left)
            => ExactProfile(t, b.left, nominal)
    BY <1>1, <1>2, <1>3, <1>4, <2>1, ProfileInCycle DEF t, x
  <2>3. PlanTypes' /\ prep' = t
    BY <1>1, <1>2, <2>2 DEF PlanTypes, t
  <2>4. PrepFits(motion, u, t) /\ ProfileFits(motion, u, t)
    BY <1>2, <1>5, <1>8, <2>2 DEF PrepFits, ProfileFits
  <2>5. ASSUME overridden = 0 PROVE ExactProfile(t, b.left, nominal) /\ Steady(ovr, u, t)
    <3>1. Steady(ovr, blocks, prep)
      BY <2>5 DEF QueueInv
    <3>2. prep.v <= nominal
      BY <3>1 DEF Steady, nominal
    <3>3. prep.v <= x + b.left
      BY <3>1, <1>2, <1>4 DEF Steady, Feasible, Entry
    <3>4. ExactProfile(t, b.left, nominal)
      BY <3>2, <3>3, <2>2, <2>5, <1>2, <1>4, <1>8
    <3>5. ~t.decelOverride
      BY <3>4 DEF ExactProfile
    <3> QED BY <3>1, <3>2, <3>4, <3>5, <1>2, <1>3, <1>5, <2>2 DEF Steady, nominal
  <2> QED BY <1>2, <1>3, <1>5, <1>6, <1>8, <2>2, <2>3, <2>4, <2>5 DEF QueueInv
<1> QED BY <1>7, <1>8 DEF Prepping

\* A block that was planned again goes on at the speed it had.
LEMMA LoadSameKeeps ==
  ASSUME QueueInv, LoadSame
  PROVE  QueueInv' /\ prep'.v = prep.v
<1> DEFINE p == [prep EXCEPT !.loaded = TRUE, !.recalculate = FALSE, !.decelOverride = FALSE]
<1>1. prep \in Preps /\ blocks \in Seq(Block)
  BY DEF QueueInv, PlanTypes
<1>2. p \in Preps /\ p.loaded /\ ~p.recalculate /\ ~p.decelOverride /\ p.v = prep.v
  BY <1>1 DEF Preps
<1>3. /\ Prepping /\ ~prep.loaded /\ blocks # <<>> /\ prep' = Profile(p, blocks[1]) /\ blocks' = blocks
      /\ motion' = motion /\ ovr' = ovr /\ planned' = planned /\ prevNominal' = prevNominal
      /\ overridden' = overridden /\ prep.recalculate
  BY DEF LoadSame
<1>4. blocks[1].entry = prep.v
  BY <1>3 DEF QueueInv, PrepFits
<1>5. Alike(blocks, blocks)
  BY DEF Alike
<1> HIDE DEF p
<1> QED BY <1>1, <1>2, <1>3, <1>4, <1>5, Loaded

\* The speed goes on from one block to the next.
LEMMA LoadNewKeeps ==
  ASSUME QueueInv, LoadNew
  PROVE  QueueInv' /\ prep'.v = prep.v
<1> DEFINE forced == motion = "hold" \/ prep.decelOverride
           b == IF forced THEN [blocks[1] EXCEPT !.entry = prep.exit] ELSE blocks[1]
           u == [blocks EXCEPT ![1] = b]
           p == [prep EXCEPT !.loaded = TRUE, !.decelOverride = FALSE, !.v = b.entry]
<1>1. prep \in Preps /\ blocks \in Seq(Block) /\ prep.exit \in Nat
  BY DEF QueueInv, PlanTypes, Preps
<1>2. /\ Prepping /\ ~prep.loaded /\ blocks # <<>> /\ ~prep.recalculate
      /\ blocks' = u /\ prep' = Profile(p, b)
      /\ motion' = motion /\ ovr' = ovr /\ planned' = planned /\ prevNominal' = prevNominal
      /\ overridden' = overridden
  BY DEF LoadNew
<1>3. prep.v = prep.exit /\ (~forced => blocks[1].entry = prep.v)
  BY <1>2 DEF QueueInv, PrepFits
<1>4. /\ u \in Seq(Block) /\ Alike(blocks, u) /\ u[1] = b /\ b.entry = prep.v
  <2>1. CASE forced
    <3>1. b = [blocks[1] EXCEPT !.entry = prep.exit]
      BY <2>1
    <3>2. u = [blocks EXCEPT ![1].entry = prep.exit]
      BY <3>1
    <3>3. u \in Seq(Block) /\ Alike(blocks, u) /\ u[1].entry = prep.exit
      <4> HIDE DEF u
      <4> QED BY <3>2, <1>1, <1>2, FirstEntry
    <3>4. u[1] = b
      BY <1>1, <1>2
    <3> QED BY <3>3, <3>4, <1>3
  <2>2. CASE ~forced
    <3>1. u = blocks /\ b = blocks[1]
      BY <2>2, <1>1, <1>2
    <3> QED BY <3>1, <2>2, <1>1, <1>3 DEF Alike
  <2> QED BY <2>1, <2>2
<1>5. p \in Preps /\ p.loaded /\ ~p.recalculate /\ ~p.decelOverride /\ p.v = prep.v
  BY <1>1, <1>2, <1>4 DEF Preps
<1> HIDE DEF forced, b, u, p
<1> QED BY <1>1, <1>2, <1>4, <1>5, Loaded

\* An empty queue.
LEMMA EmptyQueue ==
  ASSUME NEW m \in Motions \ {"stopping"}, NEW o \in Overrides, NEW pn \in Nat, NEW t \in Preps, ~t.loaded, ~t.recalculate,
         t.v = 0, t.exit = 0, ~t.decelOverride
  PROVE  /\ WithinMax(<<>>) /\ Limits(<<>>, o, pn) /\ Stops(<<>>, t.v)
         /\ PrepFits(m, <<>>, t) /\ ProfileFits(m, <<>>, t)
         /\ Steady(o, <<>>, t) /\ Fastest(<<>>, t.v, 1) /\ <<>> \in Seq(Block)
<1>1. Len(<<>>) = 0 /\ (\A k \in 1 .. 0 : FALSE) /\ (\A k \in 2 .. 0 : FALSE)
  OBVIOUS
<1>2. WithinMax(<<>>) /\ Limits(<<>>, o, pn)
  BY <1>1 DEF WithinMax, Limits
<1>3. Stops(<<>>, t.v)
  <2> DEFINE w == [k \in 1 .. 1 |-> 0]
  <2>1. w \in [1 .. 1 -> Nat] /\ w[1] = 0
    OBVIOUS
  <2> HIDE DEF w
  <2>2. Way(<<>>, w)
    BY <1>1, <2>1 DEF Way
  <2> QED BY <2>1, <2>2, <1>1 DEF Stops, Stoppable
<1>4. PrepFits(m, <<>>, t) /\ ProfileFits(m, <<>>, t)
  BY DEF PrepFits, ProfileFits
<1>5. Steady(o, <<>>, t) /\ Fastest(<<>>, t.v, 1)
  BY <1>1 DEF Steady, Fastest, Feasible, ReachedUpTo, Final
<1> QED BY <1>2, <1>3, <1>4, <1>5

\* Types of what a reset leaves.
LEMMA OvrResetType == OvrReset \in Overrides
BY PlannerAssumption DEF OvrReset, Overrides

\* The same of the preparation.
LEMMA PrepResetType ==
  /\ PrepReset \in Preps /\ ~PrepReset.loaded /\ ~PrepReset.recalculate
  /\ PrepReset.v = 0 /\ PrepReset.exit = 0 /\ ~PrepReset.decelOverride
BY DEF PrepReset, Preps

\* The start.
LEMMA InitKeeps ==
  ASSUME PlanInit
  PROVE  QueueInv
<1>1. /\ motion = "idle" /\ ovr = OvrReset /\ blocks = <<>> /\ planned = 1 /\ prevNominal = 0
      /\ prep = PrepReset /\ overridden = 0
  BY DEF PlanInit
<1>2. motion \in Motions \ {"stopping"}
  BY <1>1 DEF Motions
<1>3. /\ WithinMax(blocks) /\ Limits(blocks, ovr, prevNominal) /\ Stops(blocks, prep.v)
      /\ PrepFits(motion, blocks, prep) /\ ProfileFits(motion, blocks, prep)
      /\ Steady(ovr, blocks, prep) /\ Fastest(blocks, prep.v, planned) /\ blocks \in Seq(Block)
  BY <1>1, <1>2, EmptyQueue, OvrResetType, PrepResetType
<1>4. PlanTypes
  BY <1>1, <1>2, <1>3, OvrResetType, PrepResetType DEF PlanTypes
<1> QED BY <1>1, <1>3, <1>4, PrepResetType DEF QueueInv

\* A reset.
LEMMA ResetKeeps ==
  ASSUME PlanReset
  PROVE  QueueInv'
<1>1. /\ motion' = "idle" /\ ovr' = OvrReset /\ blocks' = <<>> /\ planned' = 1 /\ prevNominal' = 0
      /\ prep' = PrepReset /\ overridden' = 0
  BY DEF PlanReset
<1>2. motion' \in Motions \ {"stopping"}
  BY <1>1 DEF Motions
<1>3. /\ WithinMax(blocks') /\ Limits(blocks', ovr', prevNominal') /\ Stops(blocks', prep'.v)
      /\ PrepFits(motion', blocks', prep') /\ ProfileFits(motion', blocks', prep')
      /\ Steady(ovr', blocks', prep') /\ Fastest(blocks', prep'.v, planned') /\ blocks' \in Seq(Block)
  BY <1>1, <1>2, EmptyQueue, OvrResetType, PrepResetType
<1>4. PlanTypes'
  BY <1>1, <1>2, <1>3, OvrResetType, PrepResetType DEF PlanTypes
<1> QED BY <1>1, <1>3, <1>4, PrepResetType DEF QueueInv

\* A start or a resume.
LEMMA CycleStartKeeps ==
  ASSUME QueueInv, CycleStart
  PROVE  QueueInv'
<1>1. /\ motion \in {"idle", "held"} /\ motion' \in {"idle", "cycle"}
      /\ ovr' = ovr /\ blocks' = blocks /\ planned' = planned /\ prevNominal' = prevNominal
      /\ prep' = prep /\ overridden' = overridden
  BY DEF CycleStart
<1>2. ~prep.loaded
  BY <1>1 DEF QueueInv, PrepFits
<1>3. PlanTypes'
  BY <1>1 DEF QueueInv, PlanTypes, Motions
<1>4. PrepFits(motion', blocks, prep) /\ ProfileFits(motion', blocks, prep)
  BY <1>1, <1>2 DEF QueueInv, PrepFits, ProfileFits
<1>5. overridden = 0 => Fastest(blocks, prep.v, planned)
  BY <1>1 DEF QueueInv
<1> QED BY <1>1, <1>2, <1>3, <1>4, <1>5 DEF QueueInv

\* A hold: the block in execution is to be taken up anew, and the plan stays.
LEMMA FeedHoldKeeps ==
  ASSUME QueueInv, FeedHold
  PROVE  QueueInv'
<1>1. /\ motion = "cycle" /\ motion' = "hold" /\ blocks' = UpdatedTail(blocks) /\ prep' = UpdatedPrep
      /\ ovr' = ovr /\ planned' = planned /\ prevNominal' = prevNominal /\ overridden' = overridden
  BY DEF FeedHold
<1>2. prep \in Preps /\ blocks \in Seq(Block) /\ PlanTypes
  BY DEF QueueInv, PlanTypes
<1>3. CASE blocks = <<>>
  <2>1. ~prep.loaded /\ ~prep.recalculate
    BY <1>3 DEF QueueInv, PrepFits
  <2>2. blocks' = blocks /\ prep' = prep
    BY <1>1, <2>1 DEF UpdatedTail, UpdatedPrep
  <2>3. PrepFits(motion', blocks, prep) /\ ProfileFits(motion', blocks, prep)
    BY <1>1, <1>3, <2>1 DEF QueueInv, PrepFits, ProfileFits
  <2>4. PlanTypes'
    BY <1>1, <2>2 DEF QueueInv, PlanTypes, Motions
  <2> QED BY <1>1, <2>1, <2>2, <2>3, <2>4 DEF QueueInv
<1>4. CASE blocks # <<>>
  <2> DEFINE u == UpdatedTail(blocks)
             t == UpdatedPrep
  <2>1. /\ u \in Seq(Block) /\ Alike(blocks, u) /\ Len(u) = Len(blocks) /\ u # <<>>
        /\ u[1].entry = IF prep.loaded THEN prep.v ELSE blocks[1].entry
    BY <1>2, <1>4, UpdatedTailAlike
  <2>2. /\ t \in Preps /\ ~t.loaded /\ t.recalculate = (prep.loaded \/ prep.recalculate)
        /\ t.v = prep.v /\ t.exit = prep.exit /\ t.decelOverride = prep.decelOverride
    BY <1>2, UpdatedPrepFields
  <2>3. blocks' = u /\ prep' = t
    BY <1>1
  <2> HIDE DEF u, t
  <2>4. PlanTypes'
    BY <1>1, <1>2, <1>4, <2>1, <2>2, <2>3 DEF PlanTypes, Motions
  <2>5. WithinMax(u) /\ Stops(u, prep.v) /\ (Feasible(blocks, prep.v) => Feasible(u, prep.v))
    BY <1>2, <2>1, AlikeSpeeds DEF QueueInv
  <2>6. Limits(u, ovr, prevNominal)
    BY <1>2, <2>1, AlikeLimits DEF QueueInv
  <2>7. PrepFits("hold", u, t) /\ ProfileFits("hold", u, t)
    <3>1. t.recalculate => u[1].entry = t.v
      BY <2>1, <2>2 DEF QueueInv, PrepFits
    <3>2. ~t.loaded /\ ~t.recalculate => t.v = t.exit
      BY <2>2 DEF QueueInv, PrepFits
    <3> QED BY <3>1, <3>2, <2>1, <2>2 DEF QueueInv, PrepFits, ProfileFits
  <2>8. overridden = 0 => Steady(ovr, u, t)
    <3>1. 1 \in 1 .. Len(blocks)
      BY <1>2, <1>4
    <3>2. Nominal(u[1], ovr) = Nominal(blocks[1], ovr)
      BY <3>1, <2>1, AlikeNominal
    <3>3. u[1].max = blocks[1].max
      BY <3>1, <2>1 DEF Alike
    <3>4. ~t.recalculate => ~prep.loaded /\ ~prep.recalculate /\ u[1].entry = blocks[1].entry
      BY <2>1, <2>2 
    <3> QED BY <3>2, <3>3, <3>4, <2>1, <2>2, <2>5, <1>4 DEF QueueInv, Steady
  <2> QED BY <1>1, <2>2, <2>3, <2>4, <2>5, <2>6, <2>7, <2>8 DEF QueueInv
<1> QED BY <1>3, <1>4

\* The end of a cycle; what was overridden is forgotten with an empty queue only.
LEMMA CycleStopKeeps ==
  ASSUME QueueInv, CycleStop
  PROVE  QueueInv'
<1>1. /\ motion = "cycle" /\ motion' = "idle" /\ ~prep.loaded /\ ~prep.recalculate /\ prep.v = 0
      /\ overridden' = (IF blocks = <<>> THEN 0 ELSE overridden)
      /\ ovr' = ovr /\ blocks' = blocks /\ planned' = planned /\ prevNominal' = prevNominal /\ prep' = prep
  BY DEF CycleStop
<1>2. ~prep.decelOverride /\ prep.exit = 0 /\ prep \in Preps /\ overridden \in Nat
  BY <1>1 DEF QueueInv, PrepFits, PlanTypes, Preps
<1>3. PlanTypes'
  BY <1>1, <1>2 DEF QueueInv, PlanTypes, Motions
<1>4. PrepFits(motion', blocks, prep) /\ ProfileFits(motion', blocks, prep)
  BY <1>1 DEF QueueInv, PrepFits, ProfileFits
<1>5. CASE blocks = <<>>
  <2>1. Steady(ovr, blocks, prep) /\ Fastest(blocks, prep.v, 1) /\ planned = 1
    <3>1. motion \in Motions \ {"stopping"} /\ ovr \in Overrides /\ prevNominal \in Nat /\ planned = 1
      BY <1>1, <1>5 DEF QueueInv, PlanTypes, Motions
    <3> QED BY <3>1, <1>1, <1>2, <1>5, EmptyQueue
  <2> QED BY <2>1, <1>1, <1>2, <1>3, <1>4 DEF QueueInv
<1>6. CASE blocks # <<>>
  BY <1>1, <1>2, <1>3, <1>4, <1>6 DEF QueueInv
<1> QED BY <1>5, <1>6

\* The recalculation of a single block changes nothing.
LEMMA RecalculatedOne ==
  ASSUME NEW q \in Seq(Block), Len(q) = 1
  PROVE  Recalculated(q, 1).blocks = q /\ Recalculated(q, 1).planned = 1
<1>1. 1 \in 1 .. Len(q) /\ DOMAIN q = 1 .. 1
  OBVIOUS
<1>2. Recalculated(q, 1).planned \in 1 .. 1
  BY <1>1, RecalculatedFields
<1>3. Recalculated(q, 1).blocks =
        [i \in DOMAIN q |-> IF i > 1 THEN [q[i] EXCEPT !.entry = Forward(q, 1)[i]] ELSE q[i]]
  BY DEF Recalculated
<1>4. \A i \in DOMAIN q : ~(i > 1)
  BY <1>1
<1>5. Recalculated(q, 1).blocks = [i \in DOMAIN q |-> q[i]]
  BY <1>3, <1>4
<1> QED BY <1>2, <1>5

\* plan_cycle_reinitialize() of a queue.
LEMMA Reinitialized ==
  ASSUME prep \in Preps, NEW q \in Seq(Block), Reinitialize(q)
  PROVE  /\ prep' = UpdatedPrep
         /\ q # <<>> => /\ blocks' = Recalculated(UpdatedTail(q), 1).blocks
                        /\ planned' = Recalculated(UpdatedTail(q), 1).planned
         /\ q = <<>> /\ ~prep.loaded => blocks' = <<>> /\ planned' = 1
<1> DEFINE u == UpdatedTail(q)
           r == IF Len(u) <= 1 THEN [blocks |-> u, planned |-> 1] ELSE Recalculated(u, 1)
<1>1. prep' = UpdatedPrep /\ blocks' = r.blocks /\ planned' = r.planned
  BY DEF Reinitialize
<1>2. CASE q = <<>> /\ ~prep.loaded
  <2>1. u = <<>>
    BY <1>2 DEF UpdatedTail
  <2> QED BY <1>1, <1>2, <2>1
<1>3. CASE q # <<>>
  <2>1. u \in Seq(Block) /\ Len(u) = Len(q) /\ Len(u) \in Nat /\ Len(u) >= 1
    <3>1. u \in Seq(Block) /\ Len(u) = Len(q)
      BY <1>3, UpdatedTailAlike
    <3> QED BY <3>1, <1>3
  <2> HIDE DEF u
  <2>2. CASE Len(u) = 1
    BY <1>1, <1>3, <2>1, <2>2, RecalculatedOne DEF u
  <2>3. CASE Len(u) # 1
    BY <1>1, <1>3, <2>1, <2>3 DEF u
  <2> QED BY <2>2, <2>3
<1> QED BY <1>1, <1>2, <1>3

\* The end of a hold: the queue is planned anew from the speed zero.
LEMMA HoldCompleteKeeps ==
  ASSUME QueueInv, HoldComplete
  PROVE  QueueInv'
<1>1. /\ motion = "stopping" \/ (motion = "hold" /\ blocks = <<>>)
      /\ motion' = "held" /\ Reinitialize(blocks)
      /\ ovr' = ovr /\ prevNominal' = prevNominal /\ overridden' = overridden
  BY DEF HoldComplete
<1>2. prep \in Preps /\ blocks \in Seq(Block) /\ ovr \in Overrides /\ prevNominal \in Nat /\ overridden \in Nat
  BY DEF QueueInv, PlanTypes
<1>3. CASE blocks = <<>>
  <2>1. ~prep.loaded /\ ~prep.recalculate
    BY <1>3 DEF QueueInv, PrepFits
  <2>2. blocks' = blocks /\ prep' = prep /\ planned' = 1
    BY <1>1, <1>2, <1>3, <2>1, Reinitialized DEF UpdatedPrep
  <2>3. PrepFits("held", blocks, prep) /\ ProfileFits("held", blocks, prep)
    BY <1>3, <2>1 DEF QueueInv, PrepFits, ProfileFits
  <2>4. PlanTypes'
    BY <1>1, <1>3, <2>2 DEF QueueInv, PlanTypes, Motions
  <2>5. Fastest(blocks, prep.v, 1)
    <3>1. Len(blocks) = 0
      BY <1>3
    <3> QED BY <3>1 DEF Fastest, ReachedUpTo, Final
  <2> QED BY <1>1, <2>1, <2>2, <2>3, <2>4, <2>5 DEF QueueInv
<1>4. CASE blocks # <<>>
  <2> DEFINE u == UpdatedTail(blocks)
             t == UpdatedPrep
             r == Recalculated(u, 1)
  <2>1. blocks' = r.blocks /\ planned' = r.planned /\ prep' = t
    BY <1>1, <1>2, <1>4, Reinitialized
  <2>2. ~prep.loaded => PrepFits("held", blocks, prep)
    BY <1>1, <1>4 DEF QueueInv, PrepFits
  <2>3. /\ prep.decelOverride => prep.exit > 0
        /\ prep.recalculate => blocks[1].entry = prep.v
        /\ Limits(blocks, ovr, prevNominal) /\ Stops(blocks, prep.v) /\ WithinMax(blocks)
    BY DEF QueueInv, PrepFits
  <2>4. /\ r.blocks \in Seq(Block) /\ Len(r.blocks) = Len(blocks) /\ r.planned \in 1 .. Len(blocks)
        /\ t \in Preps
        /\ WithinMax(r.blocks) /\ Limits(r.blocks, ovr, prevNominal) /\ Stops(r.blocks, t.v)
        /\ PrepFits("held", r.blocks, t) /\ ProfileFits("held", r.blocks, t)
        /\ WithinMax(blocks) /\ Steady(ovr, blocks, prep) =>
             /\ Steady(ovr, r.blocks, t) /\ ~t.loaded
             /\ "held" \notin {"hold", "stopping"} => Fastest(r.blocks, t.v, r.planned)
    BY <1>2, <1>4, <2>2, <2>3, ReplannedTail
  <2> HIDE DEF r, t
  <2>5. PlanTypes'
    <3>1. r.blocks # <<>> /\ r.planned \in Nat /\ 1 <= r.planned /\ r.planned <= Len(r.blocks)
      BY <1>2, <1>4, <2>4
    <3> QED BY <3>1, <1>1, <1>2, <2>1, <2>4 DEF PlanTypes, Motions
  <2> QED BY <1>1, <2>1, <2>3, <2>4, <2>5 DEF QueueInv
<1> QED BY <1>3, <1>4

\* The maxima under other overrides.
LEMMA ReprofiledFields ==
  ASSUME NEW q \in Seq(Block), NEW o \in Overrides, NEW u, u = Reprofiled(q, o)
  PROVE  /\ u \in Seq(Block) /\ Len(u) = Len(q)
         /\ \A k \in 1 .. Len(q) : /\ u[k].left = q[k].left /\ u[k].entry = q[k].entry
                                   /\ u[k].rate = q[k].rate /\ u[k].rapid = q[k].rapid
                                   /\ u[k].junction = q[k].junction
                                   /\ u[k].max <= q[k].junction /\ u[k].max <= Nominal(q[k], o)
                                   /\ k > 1 => u[k].max <= Nominal(q[k - 1], o)
<1> DEFINE n == Len(q)
           prev(i) == IF i = 1 THEN Nominal(q[i], o) ELSE Nominal(q[i - 1], o)
           x(i) == MaxEntry(q[i].junction, Nominal(q[i], o), prev(i))
<1>1. n \in Nat /\ DOMAIN q = 1 .. n
  OBVIOUS
<1>2. u = [i \in 1 .. n |-> [q[i] EXCEPT !.max = x(i)]]
  BY <1>1 DEF Reprofiled
<1>3. ASSUME NEW k \in 1 .. n
      PROVE /\ x(k) \in Nat /\ x(k) <= q[k].junction /\ x(k) <= Nominal(q[k], o)
            /\ k > 1 => x(k) <= Nominal(q[k - 1], o)
            /\ q[k] \in Block
  <2>1. q[k] \in Block /\ q[k].junction \in Nat
    BY BlockFields
  <2>2. Nominal(q[k], o) \in Nat
    BY <2>1, NominalType
  <2>3. prev(k) \in Nat
    <3>1. CASE k = 1
      BY <3>1, <2>2
    <3>2. CASE k # 1
      <4>1. k - 1 \in 1 .. n
        BY <3>2, <1>1
      <4>2. q[k - 1] \in Block
        BY <4>1
      <4> QED BY <4>2, <3>2, NominalType
    <3> QED BY <3>1, <3>2
  <2>4. k > 1 => prev(k) = Nominal(q[k - 1], o)
    OBVIOUS
  <2> HIDE DEF prev
  <2>5. x(k) \in Nat /\ x(k) <= q[k].junction /\ x(k) <= Nominal(q[k], o) /\ x(k) <= prev(k)
    BY <2>1, <2>2, <2>3 DEF MaxEntry, Lesser
  <2> QED BY <2>1, <2>4, <2>5
<1> HIDE DEF x
<1>4. ASSUME NEW k \in 1 .. n
      PROVE /\ u[k] \in Block /\ u[k].max = x(k)
            /\ u[k].left = q[k].left /\ u[k].entry = q[k].entry /\ u[k].rate = q[k].rate /\ u[k].rapid = q[k].rapid
            /\ u[k].junction = q[k].junction
  <2>1. u[k] = [q[k] EXCEPT !.max = x(k)]
    BY <1>2
  <2> QED BY <2>1, <1>3 DEF Block
<1>5. u \in Seq(Block) /\ Len(u) = n
  <2>1. u = [i \in 1 .. n |-> u[i]]
    BY <1>2
  <2>2. \A k \in 1 .. n : u[k] \in Block
    BY <1>4
  <2> HIDE DEF n
  <2>3. Len(q) = n
    BY DEF n
  <2>4. u \in Seq(Block) /\ Len(u) = n
    BY <2>1, <2>2, <1>1
  <2> QED BY <2>3, <2>4
<1> QED BY <1>3, <1>4, <1>5

\* An override: new maxima, and a new plan from the speed now.
LEMMA OverrideKeeps ==
  ASSUME QueueInv, Override
  PROVE  QueueInv'
<1>1. /\ ovr' \in Overrides /\ Reinitialize(Reprofiled(blocks, ovr')) /\ motion' = motion
      /\ prevNominal' = (IF blocks = <<>> THEN SomeLarge ELSE Nominal(blocks[Len(blocks)], ovr'))
      /\ overridden' = (IF blocks = <<>> THEN overridden ELSE overridden + 1)
  BY DEF Override, Overrides
<1>2. prep \in Preps /\ blocks \in Seq(Block) /\ motion \in Motions /\ overridden \in Nat /\ prep.v \in Nat
  BY DEF QueueInv, PlanTypes, Preps
<1> DEFINE q == Reprofiled(blocks, ovr')
           n == Len(blocks)
<1>3. /\ q \in Seq(Block) /\ Len(q) = n
      /\ \A k \in 1 .. n : /\ q[k].left = blocks[k].left /\ q[k].entry = blocks[k].entry
                           /\ q[k].rate = blocks[k].rate /\ q[k].rapid = blocks[k].rapid
                           /\ q[k].junction = blocks[k].junction
                           /\ q[k].max <= blocks[k].junction /\ q[k].max <= Nominal(blocks[k], ovr')
                           /\ k > 1 => q[k].max <= Nominal(blocks[k - 1], ovr')
  BY <1>1, <1>2, ReprofiledFields
<1>4. Reinitialize(q)
  BY <1>1
<1> HIDE DEF q
<1>5. CASE blocks = <<>>
  <2>1. ~prep.loaded /\ ~prep.recalculate
    BY <1>5 DEF QueueInv, PrepFits
  <2>2. q = <<>>
    BY <1>3, <1>5
  <2>3. blocks' = <<>> /\ planned' = 1 /\ prep' = prep
    <3>1. prep' = UpdatedPrep
      BY <1>2, <1>3, <1>4, Reinitialized
    <3>2. blocks' = <<>> /\ planned' = 1
      BY <1>2, <1>3, <1>4, <2>1, <2>2, Reinitialized
    <3> QED BY <3>1, <3>2, <2>1 DEF UpdatedPrep
  <2>4. PlanTypes' /\ planned = 1
    BY <1>1, <1>5, <2>3, PlannerAssumption DEF QueueInv, PlanTypes
  <2>5. Limits(blocks', ovr', prevNominal')
    <3>1. Len(<<>>) = 0
      OBVIOUS
    <3> QED BY <2>3, <3>1 DEF Limits
  <2>6. overridden = 0 => Steady(ovr', blocks', prep')
    BY <1>5, <2>3 DEF QueueInv, Steady
  <2>7. overridden' = overridden
    BY <1>1, <1>5
  <2> QED BY <1>1, <1>5, <2>1, <2>3, <2>4, <2>5, <2>6, <2>7 DEF QueueInv
<1>6. CASE blocks # <<>>
  <2> DEFINE u == UpdatedTail(q)
             t == UpdatedPrep
             r == Recalculated(u, 1)
  <2>1. q # <<>> /\ n \in Nat /\ n \in 1 .. n /\ 1 \in 1 .. n
    BY <1>2, <1>3, <1>6
  <2>2. blocks' = r.blocks /\ planned' = r.planned /\ prep' = t
    BY <1>2, <1>3, <1>4, <2>1, Reinitialized
  <2>3. ~prep.loaded => PrepFits(motion, q, prep)
    BY <2>1, <1>3, <1>6 DEF QueueInv, PrepFits
  <2>4. /\ prep.decelOverride => prep.exit > 0
        /\ prep.recalculate => q[1].entry = prep.v
    BY <2>1, <1>3 DEF QueueInv, PrepFits
  <2>5. Stops(q, prep.v)
    <3>1. PICK w : Stoppable(blocks, prep.v, w)
      BY DEF QueueInv, Stops
    <3>2. \A k \in 2 .. n : k \in 1 .. n
      OBVIOUS
    <3>3. Stoppable(q, prep.v, w)
      BY <3>1, <3>2, <1>3 DEF Stoppable, Way
    <3> QED BY <3>3 DEF Stops
  <2>6. \A k \in 1 .. n : Nominal(q[k], ovr') = Nominal(blocks[k], ovr')
    BY <1>3 DEF Nominal
  <2>7. Limits(q, ovr', prevNominal')
    <3>1. \A k \in 2 .. n : k \in 1 .. n /\ k - 1 \in 1 .. n /\ k > 1
      OBVIOUS
    <3> QED BY <3>1, <2>1, <2>6, <1>1, <1>3, <1>6 DEF Limits
  <2>8. /\ r.blocks \in Seq(Block) /\ Len(r.blocks) = Len(q) /\ r.planned \in 1 .. Len(q)
        /\ t \in Preps
        /\ WithinMax(r.blocks) /\ Limits(r.blocks, ovr', prevNominal') /\ Stops(r.blocks, t.v)
        /\ PrepFits(motion, r.blocks, t) /\ ProfileFits(motion, r.blocks, t)
        /\ WithinMax(q) /\ Steady(ovr', q, prep) =>
             /\ Steady(ovr', r.blocks, t) /\ ~t.loaded
             /\ motion \notin {"hold", "stopping"} => Fastest(r.blocks, t.v, r.planned)
    <3>1. ovr' \in Overrides /\ q \in Seq(Block)
      BY <1>1, <1>3
    <3> QED BY <3>1, <1>2, <2>1, <2>3, <2>4, <2>5, <2>7, ReplannedTail
  <2> HIDE DEF r, t
  <2>9. PlanTypes'
    <3>1. r.blocks # <<>> /\ r.planned \in Nat /\ 1 <= r.planned /\ r.planned <= Len(r.blocks)
      BY <1>3, <2>1, <2>8
    <3>2. prevNominal' \in Nat
      <4>1. blocks[n] \in Block
        BY <1>2, <2>1
      <4> QED BY <4>1, <1>1, <1>6, NominalType
    <3>3. overridden' \in Nat
      BY <1>1, <1>2
    <3> QED BY <3>1, <3>2, <3>3, <1>1, <1>2, <2>2, <2>8 DEF PlanTypes
  <2>10. overridden' # 0
    BY <1>1, <1>2, <1>6
  <2> QED BY <1>1, <2>2, <2>8, <2>9, <2>10 DEF QueueInv
<1> QED BY <1>5, <1>6

(***************************************************************************)
(* Segments.                                                               *)
(***************************************************************************)

\* The speed the first block is left at can be stopped from.
LEMMA OnwardStops ==
  ASSUME NEW q \in Seq(Block), q # <<>>, NEW v, NEW w, Stoppable(q, v, w)
  PROVE  /\ w[2] \in Nat /\ w[1] = w[2] + q[1].left /\ Onward(q, 1) \in Nat /\ Onward(q, 1) <= w[2]
         /\ v <= w[2] + q[1].left
<1> DEFINE n == Len(q)
<1>1. n \in Nat /\ n >= 1
  OBVIOUS
<1>2. Len(q) = n
  OBVIOUS
<1> HIDE DEF n
<1>3. 1 \in 1 .. n /\ 2 \in 1 .. n + 1
  BY <1>1
<1>4. w[2] \in Nat /\ w[1] = w[2] + q[1].left /\ w[n + 1] = 0 /\ v <= w[1]
  BY <1>2, <1>3 DEF Stoppable, Way
<1>5. CASE n = 1
  BY <1>2, <1>4, <1>5 DEF Onward
<1>6. CASE n # 1
  <2>1. 2 \in 2 .. n /\ 2 \in 1 .. n
    BY <1>1, <1>6
  <2>2. Onward(q, 1) = q[2].entry
    BY <1>2, <1>6 DEF Onward
  <2>3. q[2].entry \in Nat
    BY <1>2, <2>1, BlockFields
  <2>4. q[2].entry <= w[2]
    BY <1>2, <2>1 DEF Stoppable
  <2> QED BY <2>2, <2>3, <2>4, <1>4
<1> QED BY <1>5, <1>6

\* The queue u is the queue q, of whose first block l is left, at the speed x.
Shortens(q, v, u, x, l) ==
  /\ u \in Seq(Block) /\ Len(u) = Len(q) /\ u # <<>>
  /\ u[1].left = l /\ u[1].entry = q[1].entry /\ u[1].max = q[1].max
  /\ \A k \in 1 .. Len(q) : Onward(u, k) = Onward(q, k)
  /\ \A o : Nominal(u[1], o) = Nominal(q[1], o)
  /\ WithinMax(q) => WithinMax(u)
  /\ \A o, pn : Limits(q, o, pn) => Limits(u, o, pn)
  /\ Stops(q, v) /\ (\A w \in Nat : Onward(q, 1) <= w /\ v <= w + q[1].left => x <= w + l)
       => Stops(u, x)
  /\ Feasible(q, v) /\ x <= Onward(q, 1) + l => Feasible(u, x)
  /\ \A p \in Nat : /\ Fastest(q, v, p) /\ p <= Len(q)
                    /\ Onward(q, 1) <= v + q[1].left => Onward(q, 1) <= x + l
                    /\ Onward(q, 1) = v + q[1].left => Onward(q, 1) = x + l
       => Fastest(u, x, p)

\* The queue after a segment within its first block.
LEMMA Shortened ==
  ASSUME NEW q \in Seq(Block), q # <<>>, NEW l \in Nat, l > 0, NEW v \in Nat, NEW x \in Nat,
         NEW u, u = [q EXCEPT ![1].left = l]
  PROVE  Shortens(q, v, u, x, l)
<1> DEFINE n == Len(q)
           b == [q[1] EXCEPT !.left = l]
<1>1. n \in Nat /\ n >= 1
  OBVIOUS
<1>2. Len(q) = n /\ 1 \in DOMAIN q /\ q[1] \in Block
  OBVIOUS
<1>3. b \in Block /\ b.left = l /\ b.entry = q[1].entry /\ b.max = q[1].max /\ b.junction = q[1].junction
      /\ b.rate = q[1].rate /\ b.rapid = q[1].rapid
  BY <1>2, SMTT(60) DEF Block
<1>4. u = [q EXCEPT ![1] = b]
  OBVIOUS
<1> HIDE DEF b
<1>5. u \in Seq(Block) /\ Len(u) = n /\ \A k \in 1 .. n : u[k] = IF k = 1 THEN b ELSE q[k]
  BY <1>2, <1>3, <1>4
<1> HIDE DEF n
<1>6. 1 \in 1 .. n /\ u # <<>> /\ u[1] = b
  BY <1>1, <1>5
<1>7. \A k \in 1 .. n : /\ u[k].entry = q[k].entry /\ u[k].max = q[k].max /\ u[k].junction = q[k].junction
                        /\ u[k].rate = q[k].rate /\ u[k].rapid = q[k].rapid
                        /\ k # 1 => u[k].left = q[k].left
  BY <1>3, <1>5
<1>8. \A k \in 2 .. n : k \in 1 .. n /\ k - 1 \in 1 .. n /\ k # 1
  BY <1>1
<1>9. \A k \in 1 .. n : k = 1 \/ k \in 2 .. n
  BY <1>1
<1>10. ASSUME NEW k \in 1 .. n PROVE Onward(u, k) = Onward(q, k)
  <2>1. CASE k = n
    BY <2>1, <1>2, <1>5 DEF Onward
  <2>2. CASE k # n
    <3>1. k + 1 \in 1 .. n
      BY <2>2, <1>1
    <3> QED BY <3>1, <2>2, <1>2, <1>5, <1>7 DEF Onward
  <2> QED BY <2>1, <2>2
<1>11. \A o : \A k \in 1 .. n : Nominal(u[k], o) = Nominal(q[k], o)
  BY <1>7 DEF Nominal
<1>12. WithinMax(q) => WithinMax(u)
  BY <1>2, <1>5, <1>7, <1>8 DEF WithinMax
<1>13. ASSUME NEW o, NEW pn, Limits(q, o, pn) PROVE Limits(u, o, pn)
  <2>1. n \in 1 .. n
    BY <1>1
  <2>2. \A k \in 1 .. n : Nominal(u[k], o) = Nominal(q[k], o)
    BY <1>11
  <2>3. \A k \in 1 .. n : q[k].max <= q[k].junction /\ q[k].max <= Nominal(q[k], o)
    BY <1>2, <1>13 DEF Limits
  <2>4. \A k \in 2 .. n : q[k].max <= Nominal(q[k - 1], o)
    BY <1>2, <1>13 DEF Limits
  <2>5. pn = Nominal(q[n], o)
    BY <1>2, <1>13 DEF Limits
  <2>6. \A k \in 1 .. n : u[k].max <= u[k].junction /\ u[k].max <= Nominal(u[k], o)
    BY <2>2, <2>3, <1>7
  <2>7. \A k \in 2 .. n : u[k].max <= Nominal(u[k - 1], o)
    <3> SUFFICES ASSUME NEW k \in 2 .. n PROVE u[k].max <= Nominal(u[k - 1], o)
      OBVIOUS
    <3>1. k \in 1 .. n /\ k - 1 \in 1 .. n
      BY <1>8
    <3>2. Nominal(u[k - 1], o) = Nominal(q[k - 1], o) /\ u[k].max = q[k].max
      BY <3>1, <2>2, <1>7
    <3> QED BY <3>2, <2>4
  <2>8. pn = Nominal(u[n], o)
    BY <2>1, <2>2, <2>5
  <2> QED BY <2>6, <2>7, <2>8, <1>5 DEF Limits
<1>14. ASSUME Stops(q, v), \A w \in Nat : Onward(q, 1) <= w /\ v <= w + q[1].left => x <= w + l
       PROVE  Stops(u, x)
  <2>1. PICK w : Stoppable(q, v, w)
    BY <1>14 DEF Stops
  <2>2. w[2] \in Nat /\ Onward(q, 1) <= w[2] /\ v <= w[2] + q[1].left
    BY <2>1, OnwardStops
  <2>3. x <= w[2] + l
    BY <2>2, <1>14
  <2>4. w \in [1 .. n + 1 -> Nat] /\ w[n + 1] = 0 /\ (\A k \in 1 .. n : w[k] = w[k + 1] + q[k].left)
        /\ \A k \in 2 .. n : q[k].entry <= w[k]
    BY <2>1, <1>2 DEF Stoppable, Way
  <2> DEFINE z == [k \in 1 .. n + 1 |-> IF k = 1 THEN w[2] + l ELSE w[k]]
  <2>5. z \in [1 .. n + 1 -> Nat] /\ z[1] = w[2] + l /\ (\A k \in 2 .. n + 1 : z[k] = w[k])
    <3>1. \A k \in 1 .. n + 1 : w[k] \in Nat /\ (k = 1 \/ k \in 2 .. n + 1)
      BY <2>4, <1>1
    <3>2. 1 \in 1 .. n + 1 /\ \A k \in 2 .. n + 1 : k \in 1 .. n + 1 /\ k # 1
      BY <1>1
    <3> QED BY <3>1, <3>2, <2>2
  <2> HIDE DEF z
  <2>6. z[n + 1] = 0
    <3>1. n + 1 \in 2 .. n + 1
      BY <1>1
    <3> QED BY <3>1, <2>4, <2>5
  <2>7. \A k \in 1 .. n : z[k] = z[k + 1] + u[k].left
    <3>1. \A k \in 1 .. n : k + 1 \in 2 .. n + 1
      BY <1>1
    <3>2. z[1] = z[2] + u[1].left
      <4>1. 2 \in 2 .. n + 1
        BY <1>1
      <4> QED BY <4>1, <2>5, <1>3, <1>6
    <3>3. ASSUME NEW k \in 2 .. n PROVE z[k] = z[k + 1] + u[k].left
      <4>1. k \in 2 .. n + 1 /\ k + 1 \in 2 .. n + 1 /\ k \in 1 .. n /\ k # 1
        BY <1>1
      <4> QED BY <4>1, <2>4, <2>5, <1>7
    <3> QED BY <3>2, <3>3, <1>9
  <2>8. \A k \in 2 .. n : u[k].entry <= z[k]
    <3>1. \A k \in 2 .. n : k \in 2 .. n + 1
      BY <1>1
    <3> QED BY <3>1, <2>4, <2>5, <1>7, <1>8
  <2>9. Stoppable(u, x, z)
    BY <2>3, <2>5, <2>6, <2>7, <2>8, <1>5 DEF Stoppable, Way
  <2> QED BY <2>9 DEF Stops
<1>15. ASSUME Feasible(q, v), x <= Onward(q, 1) + l PROVE Feasible(u, x)
  <2>1. Entry(u, x, 1) <= Onward(u, 1) + u[1].left
    BY <1>3, <1>6, <1>10, <1>15 DEF Entry
  <2>2. ASSUME NEW k \in 2 .. n PROVE Entry(u, x, k) <= Onward(u, k) + u[k].left
    <3>1. k \in 1 .. n /\ k # 1
      BY <1>8
    <3>2. Entry(q, v, k) <= Onward(q, k) + q[k].left
      BY <3>1, <1>2, <1>15 DEF Feasible
    <3> QED BY <3>1, <3>2, <1>7, <1>10 DEF Entry
  <2> QED BY <2>1, <2>2, <1>5, <1>9 DEF Feasible
<1>16. ASSUME NEW p \in Nat, Fastest(q, v, p), p <= n,
              Onward(q, 1) <= v + q[1].left => Onward(q, 1) <= x + l,
              Onward(q, 1) = v + q[1].left => Onward(q, 1) = x + l
       PROVE  Fastest(u, x, p)
  <2>1. ASSUME NEW k \in 2 .. n
        PROVE /\ u[k].entry <= Entry(u, x, k - 1) + u[k - 1].left
              /\ AtLimit(q, v, k) => AtLimit(u, x, k)
    <3>1. k \in 1 .. n /\ k - 1 \in 1 .. n /\ k # 1 /\ k \in Nat
      BY <1>8
    <3>2. q[k].entry <= Entry(q, v, k - 1) + q[k - 1].left
      BY <1>2, <1>16 DEF Fastest, ReachedUpTo
    <3>3. CASE k = 2
      <4>1. n # 1 /\ k - 1 = 1
        BY <3>3, <1>1
      <4>2. Onward(q, 1) = q[k].entry
        BY <4>1, <3>3, <1>2 DEF Onward
      <4>3. Entry(q, v, k - 1) = v /\ Entry(u, x, k - 1) = x /\ q[k - 1] = q[1] /\ u[k - 1].left = l
        BY <4>1, <1>3, <1>6 DEF Entry
      <4>4. u[k].entry = q[k].entry /\ u[k].max = q[k].max
        BY <3>1, <1>7
      <4> QED BY <3>2, <4>2, <4>3, <4>4, <1>16 DEF AtLimit
    <3>4. CASE k # 2
      <4>1. k - 1 # 1
        BY <3>1, <3>4
      <4>2. Entry(q, v, k - 1) = Entry(u, x, k - 1) /\ q[k - 1].left = u[k - 1].left
        BY <4>1, <3>1, <1>7 DEF Entry
      <4> QED BY <3>1, <3>2, <4>2, <1>7 DEF AtLimit
    <3> QED BY <3>3, <3>4
  <2>2. ReachedUpTo(u, x, Len(u))
    BY <2>1, <1>5 DEF ReachedUpTo
  <2>3. \A k \in 2 .. Len(u) : TightAt(u, x, k)
    <3> SUFFICES ASSUME NEW k \in 2 .. n PROVE TightAt(u, x, k)
      BY <1>5
    <3>1. k \in 1 .. n /\ k # 1
      BY <1>8
    <3>2. TightAt(q, v, k)
      BY <1>2, <1>16 DEF Fastest
    <3>3. Onward(u, k) = Onward(q, k) /\ u[k].entry = q[k].entry /\ u[k].left = q[k].left
      BY <3>1, <1>7, <1>10
    <3> QED BY <3>2, <3>3, <2>1 DEF TightAt
  <2>4. Final(u, x, p)
    <3>1. p > 1 => p \in 2 .. n
      BY <1>1, <1>16
    <3> QED BY <3>1, <2>1, <1>16 DEF Final, Fastest
  <2> QED BY <2>2, <2>3, <2>4 DEF Fastest
<1>17. \A o : Nominal(u[1], o) = Nominal(q[1], o)
  BY <1>6, <1>11
<1> QED BY <1>2, <1>3, <1>5, <1>6, <1>10, <1>12, <1>13, <1>14, <1>15, <1>16, <1>17 DEF Shortens

\* The first block was driven, and is left at the speed x.
LEMMA Driven ==
  ASSUME NEW q \in Seq(Block), q # <<>>, NEW v \in Nat, NEW x \in Nat, NEW u, u = Tail(q)
  PROVE  /\ u \in Seq(Block) /\ Len(u) = Len(q) - 1
         /\ \A k \in 1 .. Len(u) : u[k] = q[k + 1]
         /\ WithinMax(q) => WithinMax(u)
         /\ \A o, pn : Limits(q, o, pn) => Limits(u, o, pn)
         /\ Stops(q, v) /\ (\A w \in Nat : Onward(q, 1) <= w /\ v <= w + q[1].left => x <= w)
              => Stops(u, x)
         /\ Feasible(q, v) /\ x <= Onward(q, 1) => Feasible(u, x)
         /\ \A p \in 1 .. Len(q) : Fastest(q, v, p) /\ x = Onward(q, 1) => Fastest(u, x, Discarded(p))
<1> DEFINE n == Len(q)
           m == n - 1
<1>1. n \in Nat /\ n >= 1 /\ m \in Nat /\ n = m + 1
  OBVIOUS
<1>2. Len(q) = n
  OBVIOUS
<1>3. u \in Seq(Block) /\ Len(u) = m /\ \A k \in 1 .. m : u[k] = q[k + 1]
  OBVIOUS
<1> HIDE DEF n, m
<1>4. \A k \in 1 .. m : k + 1 \in 2 .. n /\ k + 1 \in 1 .. n /\ k + 1 # 1 /\ k \in Nat
  BY <1>1
<1>5. \A k \in 2 .. m : k \in 1 .. m /\ k - 1 \in 1 .. m /\ k - 1 + 1 = k /\ k # 1
  BY <1>1
<1>6. ASSUME NEW k \in 1 .. m
      PROVE  /\ Onward(u, k) = Onward(q, k + 1)
             /\ k # 1 \/ x = Onward(q, 1) => Entry(u, x, k) = Entry(q, v, k + 1)
  <2>1. Onward(u, k) = Onward(q, k + 1)
    <3>1. CASE k = m
      BY <3>1, <1>1, <1>2, <1>3 DEF Onward
    <3>2. CASE k # m
      <4>1. k + 1 \in 1 .. m /\ k + 1 # n
        BY <3>2, <1>1
      <4> QED BY <4>1, <3>2, <1>2, <1>3 DEF Onward
    <3> QED BY <3>1, <3>2
  <2>2. k + 1 # 1 /\ (k = 1 => 1 # n)
    BY <1>1
  <2>3. Onward(q, 1) = q[2].entry \/ n = 1
    BY <1>2 DEF Onward
  <2>4. CASE k = 1
    BY <2>2, <2>3, <2>1, <2>4, <1>3 DEF Entry
  <2>5. CASE k # 1
    BY <2>2, <2>1, <2>5, <1>3 DEF Entry
  <2> QED BY <2>4, <2>5
<1>7. ASSUME WithinMax(q) PROVE WithinMax(u)
  <2> SUFFICES ASSUME NEW k \in 2 .. m PROVE u[k].entry <= u[k].max
    BY <1>3 DEF WithinMax
  <2>1. k \in 1 .. m /\ k + 1 \in 2 .. n
    BY <1>4, <1>5
  <2> QED BY <2>1, <1>2, <1>3, <1>7 DEF WithinMax
<1>8. ASSUME NEW o, NEW pn, Limits(q, o, pn) PROVE Limits(u, o, pn)
  <2>1. \A k \in 1 .. m : u[k].max <= u[k].junction /\ u[k].max <= Nominal(u[k], o)
    BY <1>2, <1>3, <1>4, <1>8 DEF Limits
  <2>2. ASSUME NEW k \in 2 .. m PROVE u[k].max <= Nominal(u[k - 1], o)
    <3>1. k \in 1 .. m /\ k + 1 \in 2 .. n /\ k - 1 \in 1 .. m
      BY <1>4, <1>5
    <3>2. q[k + 1].max <= Nominal(q[k + 1 - 1], o)
      BY <3>1, <1>2, <1>8 DEF Limits
    <3>3. k + 1 - 1 = k /\ k - 1 + 1 = k
      BY <3>1
    <3>4. u[k] = q[k + 1] /\ u[k - 1] = q[k]
      BY <3>1, <3>3, <1>3
    <3> QED BY <3>2, <3>3, <3>4
  <2>3. ASSUME u # <<>> PROVE pn = Nominal(u[m], o)
    <3>1. m \in 1 .. m
      BY <2>3, <1>1, <1>3
    <3>2. u[m] = q[n]
      BY <3>1, <1>1, <1>3
    <3> QED BY <3>2, <1>2, <1>8 DEF Limits
  <2> QED BY <2>1, <2>2, <2>3, <1>3 DEF Limits
<1>9. ASSUME Stops(q, v), \A w \in Nat : Onward(q, 1) <= w /\ v <= w + q[1].left => x <= w
      PROVE  Stops(u, x)
  <2>1. PICK w : Stoppable(q, v, w)
    BY <1>9 DEF Stops
  <2>2. w[2] \in Nat /\ Onward(q, 1) <= w[2] /\ v <= w[2] + q[1].left
    BY <2>1, OnwardStops
  <2>3. x <= w[2]
    BY <2>2, <1>9
  <2>4. w \in [1 .. n + 1 -> Nat] /\ w[n + 1] = 0 /\ (\A k \in 1 .. n : w[k] = w[k + 1] + q[k].left)
        /\ \A k \in 2 .. n : q[k].entry <= w[k]
    BY <2>1, <1>2 DEF Stoppable, Way
  <2> DEFINE z == [k \in 1 .. m + 1 |-> w[k + 1]]
  <2>5. z \in [1 .. m + 1 -> Nat] /\ \A k \in 1 .. m + 1 : z[k] = w[k + 1]
    <3>1. \A k \in 1 .. m + 1 : k + 1 \in 1 .. n + 1
      BY <1>1
    <3> QED BY <3>1, <2>4
  <2> HIDE DEF z
  <2>6. 1 \in 1 .. m + 1 /\ m + 1 \in 1 .. m + 1 /\ m + 1 = n
    BY <1>1
  <2>7. z[m + 1] = 0 /\ x <= z[1]
    BY <2>3, <2>4, <2>5, <2>6
  <2>8. ASSUME NEW k \in 1 .. m PROVE z[k] = z[k + 1] + u[k].left
    <3>1. k + 1 \in 1 .. n /\ k \in 1 .. m + 1 /\ k + 1 \in 1 .. m + 1
      BY <1>1
    <3> QED BY <3>1, <2>4, <2>5, <1>3
  <2>9. ASSUME NEW k \in 2 .. m PROVE u[k].entry <= z[k]
    <3>1. k + 1 \in 2 .. n /\ k \in 1 .. m + 1 /\ k \in 1 .. m
      BY <1>1
    <3> QED BY <3>1, <2>4, <2>5, <1>3
  <2>10. Stoppable(u, x, z)
    BY <2>5, <2>7, <2>8, <2>9, <1>3 DEF Stoppable, Way
  <2> QED BY <2>10 DEF Stops
<1>10. ASSUME Feasible(q, v), x <= Onward(q, 1) PROVE Feasible(u, x)
  <2> SUFFICES ASSUME NEW k \in 1 .. m PROVE Entry(u, x, k) <= Onward(u, k) + u[k].left
    BY <1>3 DEF Feasible
  <2>1. k + 1 \in 1 .. n /\ k + 1 # 1 /\ u[k] = q[k + 1] /\ Onward(u, k) = Onward(q, k + 1)
    BY <1>3, <1>4, <1>6
  <2>2. q[k + 1].entry <= Onward(q, k + 1) + q[k + 1].left
    BY <2>1, <1>2, <1>10 DEF Feasible, Entry
  <2>3. CASE k = 1
    <3>1. n # 1 /\ 1 + 1 = 2 /\ n >= 2
      BY <2>3, <1>1
    <3>2. Onward(q, 1) = q[2].entry
      BY <3>1, <1>2 DEF Onward
    <3>3. q[2].entry \in Nat
      <4>1. 2 \in 1 .. n
        BY <3>1, <1>1
      <4> QED BY <4>1, <1>2, BlockFields
    <3>4. q[k + 1].left \in Nat
      BY <2>1, <1>2, BlockFields
    <3>5. Onward(u, k) \in Nat
      <4>1. CASE k = m
        BY <4>1, <1>3 DEF Onward
      <4>2. CASE k # m
        <5>1. k + 1 \in 1 .. m
          BY <4>2, <1>1
        <5> QED BY <5>1, <4>2, <1>3, BlockFields DEF Onward
      <4> QED BY <4>1, <4>2
    <3>6a. Entry(u, x, k) = x
      BY <2>3 DEF Entry
    <3>6b. k + 1 = 2
      BY <2>3
    <3>6. Entry(u, x, k) = x /\ q[k + 1].entry = q[2].entry
      BY <3>6a, <3>6b
    <3>7. q[2].entry <= Onward(u, k) + u[k].left
      BY <3>6, <2>1, <2>2
    <3>8. u[k].left \in Nat
      BY <3>4, <2>1
    <3>9. x <= q[2].entry
      BY <3>2, <1>10
    <3> DEFINE a == Onward(u, k)
               b == u[k].left
               e == q[2].entry
    <3>10. x <= e /\ e <= a + b /\ e \in Nat /\ a \in Nat /\ b \in Nat
      BY <3>3, <3>5, <3>7, <3>8, <3>9
    <3> HIDE DEF a, b, e
    <3>11. x <= a + b
      BY <3>10
    <3> QED BY <3>6a, <3>11 DEF a, b
  <2>4. CASE k # 1
    BY <2>1, <2>2, <2>4 DEF Entry
  <2> QED BY <2>3, <2>4
<1>11. ASSUME NEW p \in 1 .. n, Fastest(q, v, p), x = Onward(q, 1) PROVE Fastest(u, x, Discarded(p))
  <2>1. ASSUME NEW k \in 2 .. m
        PROVE /\ u[k].entry <= Entry(u, x, k - 1) + u[k - 1].left
              /\ TightAt(u, x, k)
              /\ AtLimit(q, v, k + 1) => AtLimit(u, x, k)
    <3> DEFINE j == k + 1
    <3>1. k \in 1 .. m /\ k - 1 \in 1 .. m /\ j \in 2 .. n /\ k - 1 + 1 = k /\ j - 1 = k
      BY <1>4, <1>5
    <3>2. u[k] = q[j] /\ u[k - 1] = q[j - 1] /\ Entry(u, x, k - 1) = Entry(q, v, j - 1) /\ Onward(u, k) = Onward(q, j)
      BY <3>1, <1>3, <1>6, <1>11
    <3> HIDE DEF j
    <3>3. q[j].entry <= Entry(q, v, j - 1) + q[j - 1].left
      BY <3>1, <1>2, <1>11 DEF Fastest, ReachedUpTo
    <3>4. TightAt(q, v, j)
      BY <3>1, <1>2, <1>11 DEF Fastest
    <3>5. AtLimit(q, v, j) => AtLimit(u, x, k)
      BY <3>2 DEF AtLimit
    <3>6. TightAt(u, x, k)
      BY <3>2, <3>4, <3>5 DEF TightAt
    <3> QED BY <3>2, <3>3, <3>5, <3>6 DEF j
  <2>2. ReachedUpTo(u, x, Len(u))
    BY <2>1, <1>3 DEF ReachedUpTo
  <2>3. \A k \in 2 .. Len(u) : TightAt(u, x, k)
    BY <2>1, <1>3
  <2>4. Final(u, x, Discarded(p))
    <3> SUFFICES ASSUME Discarded(p) > 1 PROVE AtLimit(u, x, Discarded(p))
      BY DEF Final
    <3>1. p > 1 /\ Discarded(p) = p - 1 /\ p - 1 \in 2 .. m /\ p - 1 + 1 = p
      BY <1>1 DEF Discarded
    <3>2. AtLimit(q, v, p)
      BY <3>1, <1>11 DEF Fastest, Final
    <3> QED BY <3>1, <3>2, <2>1
  <2> QED BY <2>2, <2>3, <2>4 DEF Fastest
<1> QED BY <1>1, <1>2, <1>3, <1>7, <1>8, <1>9, <1>10, <1>11

\* What a segment is, of a block in execution.
LEMMA SegmentIs ==
  ASSUME QueueInv, Segment
  PROVE  /\ prep \in Preps /\ prep.loaded /\ ~prep.recalculate /\ blocks \in Seq(Block) /\ blocks # <<>>
         /\ blocks[1].left \in Nat /\ blocks[1].left > 0 /\ Onward(blocks, 1) \in Nat
         /\ Nominal(blocks[1], ovr) \in Nat /\ Onward(blocks, 1) <= Nominal(blocks[1], ovr)
         /\ overridden = 0 /\ motion = "cycle" => Onward(blocks, 1) <= prep.v + blocks[1].left
         /\ prep.v \in Nat /\ prep.exit \in Nat /\ prep.complete \in Nat
         /\ motion \in {"cycle", "hold"}
         /\ planned \in 1 .. Len(blocks) /\ planned \in Nat /\ planned <= Len(blocks)
         /\ prep' = SegmentPrep(Moved)
         /\ ovr' = ovr /\ prevNominal' = prevNominal /\ overridden' = overridden
         /\ Moved.left = prep.complete /\ Moved.left = 0 =>
              blocks' = Tail(blocks) /\ planned' = Discarded(planned) /\ motion' = motion
         /\ ~(Moved.left = prep.complete /\ Moved.left = 0) =>
              /\ blocks' = [blocks EXCEPT ![1].left = Moved.left] /\ planned' = planned
              /\ motion' = IF Moved.left = prep.complete THEN "stopping" ELSE motion
<1>1. prep \in Preps /\ prep.loaded /\ ~prep.recalculate /\ blocks \in Seq(Block) /\ blocks # <<>>
      /\ motion \in {"cycle", "hold"} /\ planned \in Nat /\ 1 <= planned /\ planned <= Len(blocks)
      /\ ovr \in Overrides
  BY DEF QueueInv, PlanTypes, PrepFits, Segment, Prepping
<1>2. 1 \in 1 .. Len(blocks) /\ planned \in 1 .. Len(blocks)
  BY <1>1
<1>3. blocks[1].left \in Nat /\ blocks[1].left > 0 /\ blocks[1] \in Block
  BY <1>1, <1>2, BlockFields
<1>4. Nominal(blocks[1], ovr) \in Nat
  BY <1>1, <1>3, NominalType
<1>5. /\ Onward(blocks, 1) \in Nat /\ Onward(blocks, 1) <= Nominal(blocks[1], ovr)
      /\ overridden = 0 /\ motion = "cycle" => Onward(blocks, 1) <= prep.v + blocks[1].left
  BY <1>1, ExitSpeedIs
<1>6. prep.v \in Nat /\ prep.exit \in Nat /\ prep.complete \in Nat
  BY <1>1 DEF Preps
<1>7. /\ prep' = SegmentPrep(Moved)
      /\ ovr' = ovr /\ prevNominal' = prevNominal /\ overridden' = overridden
      /\ Moved.left = prep.complete /\ Moved.left = 0 =>
           blocks' = Tail(blocks) /\ planned' = Discarded(planned) /\ motion' = motion
      /\ ~(Moved.left = prep.complete /\ Moved.left = 0) =>
           /\ blocks' = [blocks EXCEPT ![1].left = Moved.left] /\ planned' = planned
           /\ motion' = IF Moved.left = prep.complete THEN "stopping" ELSE motion
  BY DEF Segment, SegmentPrep
<1> QED BY <1>1, <1>2, <1>3, <1>4, <1>5, <1>6, <1>7

\* What a segment makes of the speed and of the profile: y is the way it leaves of the
\* block, and x the speed then.
LEMMA SegmentSpeeds ==
  ASSUME QueueInv, Segment, NEW y, y = Moved.left, NEW x, x = Moved.v, NEW t, t = SegmentPrep(Moved)
  PROVE  /\ y \in Nat /\ x \in Nat /\ t \in Preps /\ t.v = x /\ ~t.recalculate
         /\ t.loaded = ~(y = prep.complete /\ y = 0)
         /\ t.decelOverride = prep.decelOverride /\ t.exit = prep.exit
         /\ y = 0 => prep.complete = 0 /\ x = prep.exit
         /\ y = prep.complete /\ y > 0 => motion = "hold" /\ x = 0
         /\ \A w \in Nat : Onward(blocks, 1) <= w /\ prep.v <= w + blocks[1].left => x <= w + y
         /\ y # prep.complete /\ motion = "cycle" => CycleProfile(t, y, Onward(blocks, 1))
         /\ y # prep.complete /\ motion = "hold" => HeldProfile(t, y)
         /\ y = 0 /\ motion = "cycle" /\ ~prep.decelOverride => x = Onward(blocks, 1)
<1> DEFINE d == blocks[1].left
           o == Onward(blocks, 1)
<1>1. /\ prep \in Preps /\ prep.loaded /\ ~prep.recalculate
      /\ d \in Nat /\ d > 0 /\ o \in Nat /\ prep.v \in Nat /\ prep.exit \in Nat /\ prep.complete \in Nat
      /\ motion \in {"cycle", "hold"}
  BY SegmentIs
<1> HIDE DEF d, o
<1>2. ASSUME Moved.v \in Nat, Moved.ramp \in {"accel", "cruise", "decel", "decelOverride"}
      PROVE  /\ t \in Preps /\ t.v = x /\ ~t.recalculate /\ t.loaded = ~(y = prep.complete /\ y = 0)
             /\ t.decelOverride = prep.decelOverride /\ t.exit = prep.exit
  BY <1>1, <1>2, SegmentPrepFields
<1>3. CASE motion = "cycle"
  <2>1. CycleProfile(prep, d, o)
    BY <1>1, <1>3 DEF QueueInv, ProfileFits, d, o
  <2>2. /\ y \in Nat /\ x \in Nat /\ Moved.v \in Nat /\ Moved.ramp \in {"accel", "cruise", "decel", "decelOverride"}
        /\ y = 0 => x = prep.exit
        /\ y > 0 => CycleProfile(t, y, o)
        /\ \A w \in Nat : prep.v <= w + d /\ prep.exit <= w => x <= w + y
    BY <1>1, <2>1, MovedInCycle DEF d
  <2>3. prep.complete = 0 /\ (prep.decelOverride => prep.v = prep.exit + d) /\ (~prep.decelOverride => prep.exit = o)
    BY <2>1 DEF CycleProfile
  <2>4. ASSUME NEW w \in Nat, o <= w, prep.v <= w + d PROVE x <= w + y
    <3>1. prep.exit <= w
      BY <2>3, <2>4, <1>1
    <3> QED BY <3>1, <2>2, <2>4
  <2>5. y # prep.complete => y > 0
    BY <2>2, <2>3
  <2> QED BY <1>2, <1>3, <2>2, <2>3, <2>4, <2>5 DEF d, o
<1>4. CASE motion = "hold"
  <2>1. HeldProfile(prep, d)
    BY <1>1, <1>4 DEF QueueInv, ProfileFits, d
  <2>2. /\ y \in Nat /\ x \in Nat /\ Moved.v \in Nat /\ Moved.ramp \in {"accel", "cruise", "decel", "decelOverride"}
        /\ y = prep.complete => x = prep.exit
        /\ y # prep.complete => HeldProfile(t, y)
        /\ prep.complete # 0 => y # 0
        /\ y <= d
        /\ prep.v = x + (d - y)
    BY <1>1, <2>1, MovedInHold DEF d
  <2>3. prep.exit = 0 \/ prep.complete = 0
    BY <2>1 DEF HeldProfile
  <2>4. ASSUME NEW w \in Nat, o <= w, prep.v <= w + d PROVE x <= w + y
    BY <2>2, <2>4, <1>1
  <2>5. y = prep.complete /\ y > 0 => x = 0
    BY <2>2, <2>3
  <2> QED BY <1>2, <1>4, <2>2, <2>4, <2>5 DEF d, o
<1> QED BY <1>1, <1>3, <1>4

\* A segment that ends the block.
LEMMA SegmentEndsBlock ==
  ASSUME QueueInv, Segment, Moved.left = prep.complete, Moved.left = 0
  PROVE  QueueInv'
<1> DEFINE y == Moved.left
           x == Moved.v
           t == SegmentPrep(Moved)
           u == Tail(blocks)
<1>1. /\ prep \in Preps /\ prep.loaded /\ blocks \in Seq(Block) /\ blocks # <<>>
      /\ blocks[1].left \in Nat /\ Onward(blocks, 1) \in Nat
      /\ prep.v \in Nat /\ motion \in {"cycle", "hold"}
      /\ planned \in 1 .. Len(blocks) /\ planned \in Nat /\ planned <= Len(blocks)
      /\ prep' = t /\ ovr' = ovr /\ prevNominal' = prevNominal /\ overridden' = overridden
      /\ blocks' = u /\ planned' = Discarded(planned) /\ motion' = motion
  BY SegmentIs
<1>2. /\ x \in Nat /\ t \in Preps /\ t.v = x /\ ~t.recalculate /\ ~t.loaded
      /\ t.decelOverride = prep.decelOverride /\ t.exit = prep.exit /\ x = prep.exit /\ y = 0
      /\ \A w \in Nat : Onward(blocks, 1) <= w /\ prep.v <= w + blocks[1].left => x <= w + y
      /\ motion = "cycle" /\ ~prep.decelOverride => x = Onward(blocks, 1)
  BY SegmentSpeeds
<1>3. \A w \in Nat : Onward(blocks, 1) <= w /\ prep.v <= w + blocks[1].left => x <= w
  BY <1>2
<1> HIDE DEF x, y, t, u
<1>4. /\ u \in Seq(Block) /\ Len(u) = Len(blocks) - 1
      /\ \A k \in 1 .. Len(u) : u[k] = blocks[k + 1]
      /\ WithinMax(blocks) => WithinMax(u)
      /\ \A o, pn : Limits(blocks, o, pn) => Limits(u, o, pn)
      /\ Stops(blocks, prep.v) => Stops(u, x)
      /\ Feasible(blocks, prep.v) /\ x <= Onward(blocks, 1) => Feasible(u, x)
      /\ \A p \in 1 .. Len(blocks) : Fastest(blocks, prep.v, p) /\ x = Onward(blocks, 1) => Fastest(u, x, Discarded(p))
  <2>0. blocks \in Seq(Block) /\ blocks # <<>> /\ prep.v \in Nat /\ x \in Nat
        /\ u = Tail(blocks)
    BY <1>1, <1>2 DEF u
  <2>1. /\ u \in Seq(Block) /\ Len(u) = Len(blocks) - 1
        /\ \A k \in 1 .. Len(u) : u[k] = blocks[k + 1]
    BY <2>0, Driven
  <2>2. /\ WithinMax(blocks) => WithinMax(u)
        /\ \A o, pn : Limits(blocks, o, pn) => Limits(u, o, pn)
    BY <2>0, Driven
  <2>3. Stops(blocks, prep.v) => Stops(u, x)
    BY <2>0, <1>3, Driven
  <2>4. Feasible(blocks, prep.v) /\ x <= Onward(blocks, 1) => Feasible(u, x)
    BY <2>0, Driven
  <2>5. \A p \in 1 .. Len(blocks) : Fastest(blocks, prep.v, p) /\ x = Onward(blocks, 1) => Fastest(u, x, Discarded(p))
    <3> SUFFICES ASSUME NEW p \in 1 .. Len(blocks), Fastest(blocks, prep.v, p), x = Onward(blocks, 1)
                 PROVE  Fastest(u, x, Discarded(p))
      OBVIOUS
    <3> HIDE DEF Discarded
    <3> QED BY <2>0, Driven
  <2> QED BY <2>1, <2>2, <2>3, <2>4, <2>5
<1>5. ASSUME u # <<>> PROVE /\ u[1] = blocks[2] /\ Onward(blocks, 1) = blocks[2].entry /\ 2 \in 2 .. Len(blocks)
                            /\ 2 \in 1 .. Len(blocks) /\ Len(blocks) >= 2
  <2>1. Len(blocks) >= 2 /\ 1 \in 1 .. Len(u)
    BY <1>4, <1>5
  <2> QED BY <2>1, <1>4 DEF Onward
<1>6. PlanTypes'
  <2>1. Discarded(planned) \in Nat /\ 1 <= Discarded(planned)
    BY <1>1 DEF Discarded
  <2>2. u = <<>> => Discarded(planned) = 1
    <3> SUFFICES ASSUME u = <<>> PROVE Discarded(planned) = 1
      OBVIOUS
    <3>1. Len(blocks) = 1
      BY <1>1, <1>4
    <3> QED BY <3>1, <1>1 DEF Discarded
  <2>3. u # <<>> => Discarded(planned) <= Len(u)
    BY <1>1, <1>4, <1>5 DEF Discarded
  <2> QED BY <2>1, <2>2, <2>3, <1>1, <1>2, <1>4 DEF QueueInv, PlanTypes
<1>7. WithinMax(u) /\ Limits(u, ovr, prevNominal) /\ Stops(u, x)
  BY <1>4 DEF QueueInv
<1>8. PrepFits(motion, u, t) /\ ProfileFits(motion, u, t)
  <2>1. t.decelOverride => t.exit > 0
    BY <1>2 DEF QueueInv, PrepFits
  <2>2. ~t.decelOverride /\ u # <<>> /\ motion # "hold" => u[1].entry = t.v
    BY <1>1, <1>2, <1>5
  <2> QED BY <2>1, <2>2, <1>1, <1>2 DEF PrepFits, ProfileFits
<1>9. ASSUME overridden = 0
      PROVE  Steady(ovr, u, t) /\ (motion \notin {"hold", "stopping"} => Fastest(u, x, Discarded(planned)))
  <2>1. Steady(ovr, blocks, prep)
    BY <1>9 DEF QueueInv
  <2>2. ~prep.decelOverride /\ Feasible(blocks, prep.v)
    BY <2>1 DEF Steady
  <2>3. x <= Onward(blocks, 1)
    <3>1. CASE motion = "cycle"
      BY <3>1, <2>2, <1>1, <1>2
    <3>2. CASE motion = "hold"
      <4>1. HeldProfile(prep, blocks[1].left) /\ prep.complete = 0
        BY <3>2, <1>1 DEF QueueInv, ProfileFits
      <4>2. prep.v = x + blocks[1].left
        BY <4>1, <1>1, <1>2 DEF HeldProfile
      <4>3. prep.v <= Onward(blocks, 1) + blocks[1].left
        <5>1. 1 \in 1 .. Len(blocks)
          BY <1>1
        <5> QED BY <5>1, <2>2 DEF Feasible, Entry
      <4> QED BY <4>2, <4>3, <1>1, <1>2
    <3> QED BY <3>1, <3>2, <1>1
  <2>4. Feasible(u, x)
    BY <2>2, <2>3, <1>4
  <2>5. ASSUME u # <<>> PROVE x <= Nominal(u[1], ovr) /\ x <= u[1].entry /\ u[1].entry <= u[1].max
    <3>1. x <= blocks[2].entry
      BY <2>3, <2>5, <1>5
    <3>2. blocks[2].entry <= blocks[2].max
      BY <2>5, <1>5 DEF QueueInv, WithinMax
    <3>3. blocks[2].max <= Nominal(blocks[2], ovr)
      BY <2>5, <1>5 DEF QueueInv, Limits
    <3>4. blocks[2].entry \in Nat /\ blocks[2].max \in Nat /\ blocks[2] \in Block
      BY <2>5, <1>1, <1>5, BlockFields
    <3>5. Nominal(blocks[2], ovr) \in Nat
      <4>1. ovr \in Overrides
        BY DEF QueueInv, PlanTypes
      <4> QED BY <3>4, <4>1, NominalType
    <3> QED BY <3>1, <3>2, <3>3, <3>4, <3>5, <2>5, <1>2, <1>5
  <2>6. Steady(ovr, u, t)
    BY <2>2, <2>4, <2>5, <1>2 DEF Steady
  <2>7. motion \notin {"hold", "stopping"} => Fastest(u, x, Discarded(planned))
    BY <1>1, <1>2, <1>4, <1>9, <2>2 DEF QueueInv
  <2> QED BY <2>6, <2>7
<1> QED BY <1>1, <1>2, <1>6, <1>7, <1>8, <1>9 DEF QueueInv

\* A segment within the block.
LEMMA SegmentInBlock ==
  ASSUME QueueInv, Segment, ~(Moved.left = prep.complete /\ Moved.left = 0)
  PROVE  QueueInv'
<1> DEFINE y == Moved.left
           x == Moved.v
           t == SegmentPrep(Moved)
           m == IF y = prep.complete THEN "stopping" ELSE motion
           u == [blocks EXCEPT ![1].left = y]
<1>1. /\ prep \in Preps /\ prep.loaded /\ blocks \in Seq(Block) /\ blocks # <<>>
      /\ blocks[1].left \in Nat /\ blocks[1].left > 0 /\ Onward(blocks, 1) \in Nat
      /\ Nominal(blocks[1], ovr) \in Nat /\ Onward(blocks, 1) <= Nominal(blocks[1], ovr)
      /\ overridden = 0 /\ motion = "cycle" => Onward(blocks, 1) <= prep.v + blocks[1].left
      /\ prep.v \in Nat /\ motion \in {"cycle", "hold"}
      /\ planned \in Nat /\ planned <= Len(blocks)
      /\ prep' = t /\ ovr' = ovr /\ prevNominal' = prevNominal /\ overridden' = overridden
      /\ blocks' = u /\ planned' = planned /\ motion' = m
  BY SegmentIs
<1>2. /\ y \in Nat /\ x \in Nat /\ t \in Preps /\ t.v = x /\ ~t.recalculate /\ t.loaded
      /\ t.decelOverride = prep.decelOverride /\ t.exit = prep.exit
      /\ y = 0 => prep.complete = 0
      /\ y = prep.complete /\ y > 0 => motion = "hold" /\ x = 0
      /\ \A w \in Nat : Onward(blocks, 1) <= w /\ prep.v <= w + blocks[1].left => x <= w + y
      /\ y # prep.complete /\ motion = "cycle" => CycleProfile(t, y, Onward(blocks, 1))
      /\ y # prep.complete /\ motion = "hold" => HeldProfile(t, y)
  <2> HIDE DEF x, y, t
  <2>1. /\ y \in Nat /\ x \in Nat /\ t \in Preps /\ t.v = x /\ ~t.recalculate
        /\ t.decelOverride = prep.decelOverride /\ t.exit = prep.exit
        /\ t.loaded = ~(y = prep.complete /\ y = 0)
    BY SegmentSpeeds DEF x, y, t
  <2>2. /\ y = 0 => prep.complete = 0
        /\ y = prep.complete /\ y > 0 => motion = "hold" /\ x = 0
        /\ \A w \in Nat : Onward(blocks, 1) <= w /\ prep.v <= w + blocks[1].left => x <= w + y
    BY SegmentSpeeds DEF x, y, t
  <2>3. /\ y # prep.complete /\ motion = "cycle" => CycleProfile(t, y, Onward(blocks, 1))
        /\ y # prep.complete /\ motion = "hold" => HeldProfile(t, y)
    BY SegmentSpeeds DEF x, y, t
  <2> QED BY <2>1, <2>2, <2>3 DEF y
<1>3. y > 0
  BY <1>2
<1>4. m \in {"cycle", "hold", "stopping"} /\ (m = "stopping" <=> y = prep.complete)
      /\ (m # "stopping" => m = motion)
  BY <1>1
<1> HIDE DEF x, y, t, u, m
<1>5. /\ u \in Seq(Block) /\ Len(u) = Len(blocks) /\ u # <<>>
      /\ u[1].left = y /\ u[1].entry = blocks[1].entry /\ u[1].max = blocks[1].max
      /\ \A k \in 1 .. Len(blocks) : Onward(u, k) = Onward(blocks, k)
      /\ \A o : Nominal(u[1], o) = Nominal(blocks[1], o)
      /\ WithinMax(blocks) => WithinMax(u)
      /\ \A o, pn : Limits(blocks, o, pn) => Limits(u, o, pn)
      /\ Stops(blocks, prep.v) => Stops(u, x)
      /\ Feasible(blocks, prep.v) /\ x <= Onward(blocks, 1) + y => Feasible(u, x)
      /\ \A p \in Nat : /\ Fastest(blocks, prep.v, p) /\ p <= Len(blocks)
                        /\ Onward(blocks, 1) <= prep.v + blocks[1].left => Onward(blocks, 1) <= x + y
                        /\ Onward(blocks, 1) = prep.v + blocks[1].left => Onward(blocks, 1) = x + y
              => Fastest(u, x, p)
  <2>0. blocks \in Seq(Block) /\ blocks # <<>> /\ y \in Nat /\ y > 0 /\ prep.v \in Nat /\ x \in Nat
        /\ u = [blocks EXCEPT ![1].left = y]
    BY <1>1, <1>2, <1>3 DEF u
  <2>a. \A w \in Nat : Onward(blocks, 1) <= w /\ prep.v <= w + blocks[1].left => x <= w + y
    BY <1>2
  <2>1. Shortens(blocks, prep.v, u, x, y)
    BY <2>0, Shortened
  <2> QED BY <2>1, <2>a DEF Shortens
<1>6. PlanTypes'
  BY <1>1, <1>2, <1>4, <1>5 DEF QueueInv, PlanTypes, Motions
<1>7. WithinMax(u) /\ Limits(u, ovr, prevNominal) /\ Stops(u, x)
  BY <1>5 DEF QueueInv
<1>8. Onward(u, 1) = Onward(blocks, 1)
  <2>1. 1 \in 1 .. Len(blocks)
    BY <1>1
  <2> QED BY <2>1, <1>5
<1>9. PrepFits(m, u, t) /\ ProfileFits(m, u, t)
  <2>1. t.decelOverride => t.exit > 0
    BY <1>2 DEF QueueInv, PrepFits
  <2>2. ProfileFits(m, u, t)
    BY <1>2, <1>3, <1>4, <1>5, <1>8 DEF ProfileFits
  <2> QED BY <2>1, <2>2, <1>2, <1>4, <1>5 DEF PrepFits
<1>10. ASSUME overridden = 0
       PROVE  /\ Steady(ovr, u, t)
              /\ m = "cycle" => ExactProfile(t, y, Nominal(u[1], ovr))
              /\ m \notin {"hold", "stopping"} => Fastest(u, x, planned)
  <2>1. Steady(ovr, blocks, prep)
    BY <1>10 DEF QueueInv
  <2>2. ~prep.decelOverride /\ Feasible(blocks, prep.v) /\ prep.v <= Nominal(blocks[1], ovr)
    BY <2>1, <1>1 DEF Steady
  <2>3. prep.v <= Onward(blocks, 1) + blocks[1].left
    <3>1. 1 \in 1 .. Len(blocks)
      BY <1>1
    <3> QED BY <3>1, <2>2 DEF Feasible, Entry
  <2>4. x <= Onward(blocks, 1) + y
    BY <2>3, <1>1, <1>2
  <2>5. Feasible(u, x)
    BY <2>2, <2>4, <1>5
  <2>6. CASE motion = "cycle"
    <3>1. CycleProfile(prep, blocks[1].left, Onward(blocks, 1)) /\ ExactProfile(prep, blocks[1].left, Nominal(blocks[1], ovr))
      BY <2>6, <1>1, <1>10 DEF QueueInv, ProfileFits
    <3>2. prep.exit = Onward(blocks, 1)
      BY <3>1, <2>2 DEF CycleProfile
    <3>3. /\ ExactProfile(t, y, Nominal(blocks[1], ovr))
          /\ prep.v <= Nominal(blocks[1], ovr) /\ prep.exit <= Nominal(blocks[1], ovr) => x <= Nominal(blocks[1], ovr)
          /\ prep.exit <= prep.v + blocks[1].left => prep.exit <= x + y
          /\ prep.exit = prep.v + blocks[1].left => prep.exit = x + y
      BY <3>1, <1>1, <1>3, MovedInCycle DEF x, y, t
    <3>4. x <= Nominal(blocks[1], ovr)
      BY <3>2, <3>3, <2>2, <1>1
    <3>5. Steady(ovr, u, t)
      BY <3>4, <2>2, <2>5, <1>2, <1>5 DEF Steady
    <3>6. Fastest(blocks, prep.v, planned)
      BY <2>6, <1>10 DEF QueueInv
    <3>7. Fastest(u, x, planned)
      BY <3>2, <3>3, <3>6, <1>1, <1>5
    <3> QED BY <3>3, <3>5, <3>7, <1>5
  <2>7. CASE motion = "hold"
    <3>1. HeldProfile(prep, blocks[1].left)
      BY <2>7, <1>1 DEF QueueInv, ProfileFits
    <3>2. x <= prep.v
      <4>1. Moved.left <= blocks[1].left /\ prep.v = Moved.v + (blocks[1].left - Moved.left)
        BY <3>1, <1>1, MovedInHold
      <4> QED BY <4>1, <1>1, <1>2 DEF x, y
    <3>3. x <= Nominal(blocks[1], ovr)
      BY <3>2, <2>2, <1>1, <1>2
    <3>4. Steady(ovr, u, t)
      BY <3>3, <2>2, <2>5, <1>2, <1>5 DEF Steady
    <3> QED BY <3>4, <2>7, <1>4
  <2> QED BY <2>6, <2>7, <1>1
<1> QED BY <1>1, <1>2, <1>4, <1>5, <1>6, <1>7, <1>9, <1>10 DEF QueueInv

\* A segment.
LEMMA SegmentKeeps ==
  ASSUME QueueInv, Segment
  PROVE  QueueInv'
BY SegmentEndsBlock, SegmentInBlock

(***************************************************************************)
(* The theorems.                                                           *)
(***************************************************************************)

\* The invariant is inductive.
LEMMA PlanStep ==
  ASSUME QueueInv, [PlanNext]_planVars
  PROVE  QueueInv'
<1>1. CASE BufferLine
  BY <1>1, BufferLineKeeps
<1>2. CASE LoadSame
  BY <1>2, LoadSameKeeps
<1>3. CASE LoadNew
  BY <1>3, LoadNewKeeps
<1>4. CASE Segment
  BY <1>4, SegmentKeeps
<1>5. CASE CycleStart
  BY <1>5, CycleStartKeeps
<1>6. CASE FeedHold
  BY <1>6, FeedHoldKeeps
<1>7. CASE HoldComplete
  BY <1>7, HoldCompleteKeeps
<1>8. CASE CycleStop
  BY <1>8, CycleStopKeeps
<1>9. CASE Override
  BY <1>9, OverrideKeeps
<1>10. CASE PlanReset
  BY <1>10, ResetKeeps
<1>11. CASE UNCHANGED planVars
  BY <1>11 DEF planVars, QueueInv, PlanTypes
<1> QED BY <1>1, <1>2, <1>3, <1>4, <1>5, <1>6, <1>7, <1>8, <1>9, <1>10, <1>11 DEF PlanNext

\* The invariant of the planner: types, maxima, the way to stop in, the profile of the
\* block in preparation, and, as long as nothing was overridden, the fastest plan.
THEOREM PlanInvariant == PlanSpec => []QueueInv
<1>1. PlanInit => QueueInv
  BY InitKeeps
<1>2. QueueInv /\ [PlanNext]_planVars => QueueInv'
  BY PlanStep
<1> QED BY <1>1, <1>2, PTL DEF PlanSpec

\* The invariant implies that the plan is the fastest one.
LEMMA InvOptimal ==
  ASSUME QueueInv
  PROVE  PlanOptimal
<1> SUFFICES ASSUME motion \notin {"hold", "stopping"}, overridden = 0, NEW k \in 2 .. Len(blocks)
             PROVE  blocks[k].entry = Best(k)
  BY DEF PlanOptimal
<1> DEFINE now == IF prep.loaded THEN prep.v ELSE blocks[1].entry
<1>1. blocks \in Seq(Block) /\ prep \in Preps /\ prep.v \in Nat
  BY DEF QueueInv, PlanTypes, Preps
<1>2. blocks # <<>> /\ Len(blocks) \in Nat
  BY <1>1
<1>3. /\ Steady(ovr, blocks, prep) /\ Fastest(blocks, prep.v, planned) /\ WithinMax(blocks)
      /\ PrepFits(motion, blocks, prep)
  BY DEF QueueInv
<1>4. now = prep.v
  BY <1>2, <1>3 DEF Steady, PrepFits
<1>5. /\ Feasible(blocks, prep.v) /\ ReachedUpTo(blocks, prep.v, Len(blocks))
      /\ \A i \in 2 .. Len(blocks) : TightAt(blocks, prep.v, i)
  BY <1>3 DEF Steady, Fastest
<1> HIDE DEF now
<1>6. LET n == Len(blocks)
          at == Places(blocks)
          apart(i, j) == IF i < j THEN at[j] - at[i] ELSE at[i] - at[j]
      IN  blocks[k].entry = Min({blocks[j].max + apart(j, k) : j \in 2 .. n} \union
                                {now + apart(1, k), apart(k, n + 1)})
  BY <1>1, <1>3, <1>4, <1>5, TightIsBest
<1> QED BY <1>6 DEF Best, now

\* Every queued block is planned to be entered at the highest speed that the speed
\* now, the maxima of all queued blocks and the stop at the end of the queue allow:
\* block_buffer_planned, which spares the blocks before it from being planned again,
\* costs no speed.  In a hold the plan is left alone; it is optimal again when the
\* hold is complete.
THEOREM PlanIsOptimal == PlanSpec => []PlanOptimal
<1>1. QueueInv => PlanOptimal
  BY InvOptimal
<1> QED BY <1>1, PlanInvariant, PTL

\* What a segment of a block changes of the speed.
LEMMA SegmentWithinAcceleration ==
  ASSUME QueueInv, Segment, overridden = 0
  PROVE  prep'.v - prep.v \in -Distance .. Distance
<1> DEFINE y == Moved.left
           x == Moved.v
           d == blocks[1].left
<1>1. /\ prep \in Preps /\ prep.loaded /\ blocks \in Seq(Block) /\ blocks # <<>>
      /\ d \in Nat /\ d > 0 /\ Onward(blocks, 1) \in Nat /\ Nominal(blocks[1], ovr) \in Nat
      /\ prep.v \in Nat /\ motion \in {"cycle", "hold"}
      /\ prep' = SegmentPrep(Moved)
      /\ y = prep.complete /\ y = 0 => blocks' = Tail(blocks)
      /\ ~(y = prep.complete /\ y = 0) => blocks' = [blocks EXCEPT ![1].left = y]
  BY SegmentIs
<1>2. y \in Nat /\ x \in Nat /\ prep'.v = x /\ (y = 0 => prep.complete = 0)
  BY <1>1, SegmentSpeeds
<1>3. y <= d /\ x <= prep.v + (d - y) /\ prep.v <= x + (d - y)
  <2>1. CASE motion = "cycle"
    <3>1. CycleProfile(prep, d, Onward(blocks, 1)) /\ ExactProfile(prep, d, Nominal(blocks[1], ovr))
      BY <2>1, <1>1 DEF QueueInv, ProfileFits
    <3> QED BY <3>1, <1>1, MovedInCycle
  <2>2. CASE motion = "hold"
    <3>1. HeldProfile(prep, d)
      BY <2>2, <1>1 DEF QueueInv, ProfileFits
    <3>2. y <= d /\ prep.v = x + (d - y)
      BY <3>1, <1>1, MovedInHold
    <3> QED BY <3>2, <1>1, <1>2
  <2> QED BY <2>1, <2>2, <1>1
<1>4. Distance = d - y
  <2> DEFINE n == Len(blocks)
  <2>0. n \in Nat /\ n >= 1
    BY <1>1
  <2>1. CASE y = prep.complete /\ y = 0
    <3>1. Len(blocks') = n - 1
      BY <2>1, <1>1
    <3>2. Len(blocks') # Len(blocks)
      BY <3>1, <2>0
    <3> QED BY <3>2, <2>1, <1>1 DEF Distance
  <2>2. CASE ~(y = prep.complete /\ y = 0)
    <3>1. Len(blocks') = Len(blocks) /\ blocks'[1].left = y
      <4>1. y > 0
        BY <2>2, <1>2
      <4>2. blocks' = [blocks EXCEPT ![1].left = y]
        BY <2>2, <1>1
      <4>3. Shortens(blocks, prep.v, blocks', x, y)
        BY <4>1, <4>2, <1>1, <1>2, Shortened
      <4> QED BY <4>3 DEF Shortens
    <3> QED BY <3>1 DEF Distance
  <2> QED BY <2>1, <2>2
<1> HIDE DEF y, x, d
<1> QED BY <1>1, <1>2, <1>3, <1>4

\* The speed changes by no more than the distance of a segment allows, and not at all
\* where a block is taken up, whether anew or after it was planned again.
THEOREM SpeedIsContinuous == PlanSpec => WithinAcceleration
<1>1. QueueInv /\ [PlanNext]_planVars =>
        [/\ Segment /\ overridden = 0 => prep'.v - prep.v \in -Distance .. Distance
         /\ LoadNew \/ LoadSame => prep'.v = prep.v]_planVars
  BY SegmentWithinAcceleration, LoadNewKeeps, LoadSameKeeps
<1> QED BY <1>1, PlanInvariant, PTL DEF PlanSpec, WithinAcceleration

\* A new block is entered within its maximum.
LEMMA EntryWithinJunction ==
  ASSUME QueueInv, LoadNew, overridden = 0
  PROVE  prep'.v <= Lesser(blocks[1].junction, Nominal(blocks[1], ovr))
<1>1. ~prep.loaded /\ ~prep.recalculate /\ blocks # <<>>
  BY DEF LoadNew
<1>2. prep'.v = prep.v
  BY LoadNewKeeps
<1>3. blocks \in Seq(Block) /\ prep.v \in Nat /\ ovr \in Overrides
  BY DEF QueueInv, PlanTypes, Preps
<1>4. 1 \in 1 .. Len(blocks) /\ blocks[1] \in Block
  BY <1>1, <1>3
<1>5. prep.v <= blocks[1].entry /\ blocks[1].entry <= blocks[1].max
  BY <1>1 DEF QueueInv, Steady
<1>6. blocks[1].max <= blocks[1].junction /\ blocks[1].max <= Nominal(blocks[1], ovr)
  BY <1>4 DEF QueueInv, Limits
<1>7. blocks[1].entry \in Nat /\ blocks[1].max \in Nat /\ blocks[1].junction \in Nat
  BY <1>3, <1>4, BlockFields
<1>8. Nominal(blocks[1], ovr) \in Nat
  BY <1>3, <1>4, NominalType
<1> QED BY <1>2, <1>3, <1>5, <1>6, <1>7, <1>8 DEF Lesser

\* As long as nothing was overridden, no block is entered faster than its corner and
\* its rate allow, not even out of a hold that ends in the block before.
THEOREM CornersAreRespected == PlanSpec => JunctionRespected
<1>1. QueueInv /\ [PlanNext]_planVars =>
        [LoadNew /\ overridden = 0 =>
           prep'.v <= Lesser(blocks[1].junction, Nominal(blocks[1], ovr))]_planVars
  BY EntryWithinJunction
<1> QED BY <1>1, PlanInvariant, PTL DEF PlanSpec, JunctionRespected

\* The bounds of the queue and of the overrides.
PlanBounds == Len(blocks) <= QueueSize /\ overridden <= MaxOverrides

\* No block is lost or made when the queue is planned anew.
LEMMA ReinitializedLength ==
  ASSUME QueueInv, NEW q \in Seq(Block), Len(q) = Len(blocks), Reinitialize(q)
  PROVE  Len(blocks') = Len(blocks)
<1>1. prep \in Preps /\ blocks \in Seq(Block)
  BY DEF QueueInv, PlanTypes
<1>2. CASE q = <<>>
  <2>1. blocks = <<>>
    BY <1>1, <1>2
  <2>2. ~prep.loaded
    BY <2>1 DEF QueueInv, PrepFits
  <2>3. blocks' = <<>>
    BY <1>1, <1>2, <2>2, Reinitialized
  <2> QED BY <2>1, <2>3
<1>3. CASE q # <<>>
  <2> DEFINE u == UpdatedTail(q)
  <2>1. u \in Seq(Block) /\ Len(u) = Len(q) /\ u # <<>>
    BY <1>1, <1>3, UpdatedTailAlike
  <2>2. blocks' = Recalculated(u, 1).blocks
    BY <1>1, <1>3, Reinitialized
  <2> HIDE DEF u
  <2>3. 1 \in 1 .. Len(u)
    BY <2>1
  <2>4. Len(Recalculated(u, 1).blocks) = Len(u)
    BY <2>1, <2>3, RecalculatedFields
  <2> QED BY <2>1, <2>2, <2>4
<1> QED BY <1>2, <1>3

\* Nor when a line is planned.
LEMMA ReplanLength ==
  ASSUME prep \in Preps, NEW q \in Seq(Block), q # <<>>, NEW p \in 1 .. Len(q), Replan(q, p)
  PROVE  Len(blocks') = Len(q)
<1> DEFINE u == IF p = 1 THEN UpdatedTail(q) ELSE q
<1>1. u \in Seq(Block) /\ Len(u) = Len(q)
  BY UpdatedTailAlike
<1>2. CASE Len(q) = p
  BY <1>2 DEF Replan
<1>3. CASE Len(q) # p
  <2>1. blocks' = Recalculated(u, p).blocks
    BY <1>3 DEF Replan
  <2> HIDE DEF u
  <2>2. Len(Recalculated(u, p).blocks) = Len(u)
    BY <1>1, RecalculatedFields
  <2> QED BY <2>1, <2>2, <1>1
<1> QED BY <1>2, <1>3

\* The queue never outgrows the ring.
LEMMA BoundsStep ==
  ASSUME QueueInv, PlanBounds, [PlanNext]_planVars
  PROVE  PlanBounds'
<1>1. /\ prep \in Preps /\ blocks \in Seq(Block) /\ Len(blocks) \in Nat /\ ovr \in Overrides
      /\ planned \in Nat /\ 1 <= planned /\ (blocks = <<>> => planned = 1) /\ (blocks # <<>> => planned <= Len(blocks))
      /\ overridden \in Nat /\ prevNominal \in Nat
  BY DEF QueueInv, PlanTypes
<1>0. QueueSize \in Nat /\ MaxOverrides \in Nat /\ QueueSize > 0
  BY PlannerAssumption
<1>2. CASE BufferLine
  <2>1. PICK len \in Lengths, j \in Junctions, rate \in Rates, rapid \in BOOLEAN :
         LET junction == IF blocks = <<>> THEN 0 ELSE j
             line == [left |-> len, entry |-> 0, max |-> 0, junction |-> junction,
                      rate |-> rate, rapid |-> rapid]
             nominal == Nominal(line, ovr)
             b == [line EXCEPT !.max = MaxEntry(junction, nominal, prevNominal)]
         IN  Replan(Append(blocks, b), planned)
    BY <1>2, ZenonT(60) DEF BufferLine
  <2> DEFINE junction == IF blocks = <<>> THEN 0 ELSE j
             line == [left |-> len, entry |-> 0, max |-> 0, junction |-> junction,
                      rate |-> rate, rapid |-> rapid]
             b == [line EXCEPT !.max = MaxEntry(junction, Nominal(line, ovr), prevNominal)]
             A == Append(blocks, b)
  <2>2. b \in Block
    BY <1>1, NewLine
  <2>3. Replan(A, planned)
    BY <2>1
  <2> HIDE DEF b
  <2>4a. A \in Seq(Block) /\ Len(A) = Len(blocks) + 1
    BY <1>1, <2>2
  <2> HIDE DEF A
  <2>4. A \in Seq(Block) /\ A # <<>> /\ Len(A) = Len(blocks) + 1
    BY <1>1, <2>4a
  <2>5. planned \in 1 .. Len(A)
    BY <1>1, <2>4
  <2>6. Len(blocks') = Len(A)
    BY <1>1, <2>3, <2>4, <2>5, ReplanLength
  <2>7. Len(blocks) < QueueSize /\ overridden' = overridden
    BY <1>2 DEF BufferLine
  <2> QED BY <2>4, <2>6, <2>7, <1>0, <1>1 DEF PlanBounds
<1>3. CASE LoadSame \/ CycleStart
  BY <1>3 DEF LoadSame, CycleStart, PlanBounds
<1>4. CASE LoadNew
  <2>1. overridden' = overridden /\ \E b : blocks' = [blocks EXCEPT ![1] = b]
    BY <1>4 DEF LoadNew
  <2>2. Len(blocks') = Len(blocks)
    BY <2>1, <1>1
  <2> QED BY <2>1, <2>2 DEF PlanBounds
<1>5. CASE Segment
  <2>1. overridden' = overridden /\ blocks # <<>>
    BY <1>5, SegmentIs
  <2>2. blocks' = Tail(blocks) \/ \E y : blocks' = [blocks EXCEPT ![1].left = y]
    BY <1>5, SegmentIs
  <2>3. Len(blocks') <= Len(blocks) /\ Len(blocks') \in Nat
    <3>1. CASE blocks' = Tail(blocks)
      BY <3>1, <1>1, <2>1
    <3>2. CASE \E y : blocks' = [blocks EXCEPT ![1].left = y]
      BY <3>2, <1>1
    <3> QED BY <3>1, <3>2, <2>2
  <2> QED BY <2>1, <2>3, <1>0, <1>1 DEF PlanBounds
<1>6. CASE FeedHold
  <2>1. blocks' = UpdatedTail(blocks) /\ overridden' = overridden
    BY <1>6 DEF FeedHold
  <2>2. Len(blocks') = Len(blocks)
    <3>1. CASE blocks = <<>>
      <4>1. ~prep.loaded
        BY <3>1 DEF QueueInv, PrepFits
      <4> QED BY <4>1, <2>1 DEF UpdatedTail
    <3>2. CASE blocks # <<>>
      BY <3>2, <1>1, <2>1, UpdatedTailAlike
    <3> QED BY <3>1, <3>2
  <2> QED BY <2>1, <2>2 DEF PlanBounds
<1>7. CASE HoldComplete
  <2>1. Reinitialize(blocks) /\ overridden' = overridden
    BY <1>7 DEF HoldComplete
  <2>2. Len(blocks') = Len(blocks)
    BY <1>1, <2>1, ReinitializedLength
  <2> QED BY <2>1, <2>2 DEF PlanBounds
<1>8. CASE CycleStop
  BY <1>8, <1>0 DEF CycleStop, PlanBounds
<1>9. CASE Override
  <2> DEFINE q == Reprofiled(blocks, ovr')
  <2>1. Reinitialize(q) /\ overridden < MaxOverrides /\ ovr' \in Overrides
        /\ overridden' = (IF blocks = <<>> THEN overridden ELSE overridden + 1)
    BY <1>9 DEF Override, Overrides
  <2>2. q \in Seq(Block) /\ Len(q) = Len(blocks)
    BY <1>1, <2>1, ReprofiledFields
  <2> HIDE DEF q
  <2>3. Len(blocks') = Len(blocks)
    BY <2>1, <2>2, ReinitializedLength
  <2> QED BY <2>1, <2>3, <1>0, <1>1 DEF PlanBounds
<1>10. CASE PlanReset
  BY <1>10, <1>0 DEF PlanReset, PlanBounds
<1>11. CASE UNCHANGED planVars
  BY <1>11 DEF planVars, PlanBounds
<1> QED BY <1>2, <1>3, <1>4, <1>5, <1>6, <1>7, <1>8, <1>9, <1>10, <1>11 DEF PlanNext

\* Types of the variables: the queue fits the ring, block_buffer_planned points into it,
\* no speed or distance of a profile is negative.
THEOREM PlanTypeCorrect == PlanSpec => []PlanTypeOK
<1>1. PlanInit => PlanBounds
  BY PlannerAssumption DEF PlanInit, PlanBounds
<1>2. QueueInv /\ PlanBounds /\ [PlanNext]_planVars => PlanBounds'
  BY BoundsStep
<1>3. QueueInv /\ PlanBounds => PlanTypeOK
  <2> SUFFICES ASSUME QueueInv, PlanBounds PROVE PlanTypeOK
    OBVIOUS
  <2> DEFINE B == [left : Nat, entry : Nat, max : Nat, junction : Nat, rate : Rates, rapid : BOOLEAN]
  <2>1. /\ motion \in Motions /\ ovr \in Overrides /\ blocks \in Seq(Block) /\ Len(blocks) \in Nat
        /\ planned \in Nat /\ 1 <= planned /\ (blocks = <<>> => planned = 1) /\ (blocks # <<>> => planned <= Len(blocks))
        /\ prevNominal \in Nat /\ prep \in Preps /\ overridden \in Nat
    BY DEF QueueInv, PlanTypes
  <2>2. blocks \in Seq(B)
    <3>1. \A b \in Block : b \in B
      BY DEF Block
    <3>2. \A k \in 1 .. Len(blocks) : blocks[k] \in B
      <4> HIDE DEF B
      <4> QED BY <2>1, <3>1
    <3> HIDE DEF B
    <3>3. blocks = [k \in 1 .. Len(blocks) |-> blocks[k]]
      BY <2>1
    <3> QED BY <2>1, <3>2, <3>3
  <2>3. planned \in 1 .. Len(blocks) + 1
    BY <2>1
  <2>4. Len(blocks) \in 0 .. QueueSize /\ overridden \in 0 .. MaxOverrides
    BY <2>1, PlannerAssumption DEF PlanBounds
  <2> QED BY <2>1, <2>2, <2>3, <2>4 DEF PlanTypeOK, Motions, Overrides, Preps
<1> QED BY <1>1, <1>2, <1>3, PlanInvariant, PTL DEF PlanSpec

\* As long as nothing was overridden, every queued block can brake, within its own
\* length, to the speed the next one is entered with.
THEOREM PlanBrakes == PlanSpec => [](overridden = 0 => PlanBraked)
<1>1. QueueInv => (overridden = 0 => PlanBraked)
  <2> SUFFICES ASSUME QueueInv, overridden = 0, NEW k \in 2 .. Len(blocks) - 1
               PROVE  blocks[k].entry <= blocks[k + 1].entry + blocks[k].left
    BY DEF PlanBraked
  <2>1. k \in 1 .. Len(blocks) /\ k # 1 /\ k # Len(blocks)
    BY DEF QueueInv, PlanTypes
  <2>2. Feasible(blocks, prep.v)
    BY DEF QueueInv, Steady
  <2> QED BY <2>1, <2>2 DEF Feasible, Entry, Onward
<1> QED
  BY <1>1, PlanInvariant, PTL

\* Whatever was held, resumed or overridden, and in the middle of every block: the
\* blocks that are queued are long enough to stop in.
THEOREM PlanCanStop == PlanSpec => []Stops(blocks, prep.v)
<1>1. QueueInv => Stops(blocks, prep.v)
  BY DEF QueueInv
<1> QED BY <1>1, PlanInvariant, PTL
=============================================================================
