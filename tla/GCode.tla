-------------------------------- MODULE GCode ---------------------------------
(***************************************************************************)
(* The g-code parser: gc_execute_line reads a line word by word into a     *)
(* block, checks the block against itself and against the parser state,    *)
(* and executes it in the order the standard gives, part of it before its  *)
(* motion, the motion, and the program flow after it.  The planner and the *)
(* machine follow behind; a reset or a jog cancel of another task may fall *)
(* between any two of these steps.                                         *)
(*                                                                         *)
(* A word is a letter and its value in hundredths.  A length is in         *)
(* hundredths of a millimetre.  A line that is refused is answered "error" *)
(* whatever its error number.  The plane geometry of an arc and the soft   *)
(* limits are a free choice between "fits" and "does not fit".             *)
(***************************************************************************)
EXTENDS Kinematics, FiniteSets

CONSTANTS
    Programs,     \* the sets of words that lines are made of, one is chosen
    Kinds,        \* the kinematics to choose from
    Pins,         \* the user outputs that have a pin
    Reversible,   \* the spindle may turn counterclockwise (M4)
    MaxLines,     \* bound: lines
    MaxWords,     \* bound: words of a line
    MaxEvents     \* bound: resets, jog cancels and system commands

ASSUME GCodeAssumption ==
    /\ Kinds \subseteq Modes
    /\ Pins \subseteq 0..3
    /\ Reversible \in BOOLEAN
    /\ {MaxLines, MaxWords, MaxEvents} \subseteq Nat

VARIABLES
    kin,        \* current_mode of Kinematics.cpp
    program,    \* the words of this behaviour's lines
    gc,         \* gc_state
    block,      \* gc_block and the locals of gc_execute_line
    coords,     \* coords[]
    planner,    \* pl.position, in motor coordinates: where the queue ends
    machine,    \* sys_position, in motor coordinates
    mode,       \* sys.state
    abort,      \* a reset was requested, the main task has not handled it
    out,        \* what is switched on: spindle, flood coolant, user outputs
    restored,   \* history: $RST=# since the active system was last loaded
    budget      \* what is left of the bounds

vars == <<kin, program, gc, block, coords, planner, machine, mode, abort, out,
          restored, budget>>

Origin == [a \in Axes |-> 0]
Systems == {"G54", "G55", "G56", "G57", "G58", "G59"}
Stored == Systems \cup {"G28", "G30"}

(***************************************************************************)
(* The words                                                               *)
(***************************************************************************)
\* int_value and mantissa: a byte, and the rest in a 16-bit number.  So G800,
\* G801 and G802 read as G32, G33 and G34 with a mantissa, and are refused.
Byte(v) == (v \div 100) % 256
Mantissa(v) == (v - 100 * Byte(v)) % 65536

\* A command word: its modal group (the number in ModalGroup), the field of
\* the block it sets, whether it takes the axis words, and whether it is
\* refused on a line where another command has taken them.
Command(group, field, value) ==
    [group |-> group, field |-> field, value |-> value, axis |-> "asis", alone |-> FALSE]
Takes(command, axis) == [command EXCEPT !.axis = axis]
TakesAlone(command, axis) == [command EXCEPT !.axis = axis, !.alone = TRUE]
Unsupported == Command(99, "ignored", "none")

\* The G words that move or use the axes, and the other non-modal ones
GAction(i, m) ==
    LET is(n) == i = n /\ m = 0
        nonModal(name) == Command(0, "nonModal", name)
        motion(name) == Command(1, "motion", name)
    IN  CASE is(0) -> Takes(motion("Seek"), "MotionMode")
          [] is(1) -> Takes(motion("Linear"), "MotionMode")
          [] is(2) \/ is(3) -> Takes(motion(IF i = 2 THEN "CwArc" ELSE "CcwArc"), "MotionMode")
          [] i = 38 /\ m \in {20, 30, 40, 50} ->
                TakesAlone(motion(CASE m = 20 -> "ProbeToward" [] m = 30 -> "ProbeTowardNoError"
                                    [] OTHER -> "ProbeAway"), "MotionMode")
          [] is(80) -> motion("None")
          [] is(4) -> nonModal("Dwell")
          [] is(53) -> nonModal("AbsoluteOverride")
          [] is(10) -> TakesAlone(nonModal("SetCoordinateData"), "NonModal")
          [] is(28) -> TakesAlone(nonModal("GoHome0"), "NonModal")
          [] is(30) -> TakesAlone(nonModal("GoHome1"), "NonModal")
          [] is(92) -> TakesAlone(nonModal("SetCoordinateOffset"), "NonModal")
          [] i = 28 /\ m = 10 -> nonModal("SetHome0")
          [] i = 30 /\ m = 10 -> nonModal("SetHome1")
          [] i = 92 /\ m = 10 -> nonModal("ResetCoordinateOffset")
          [] OTHER -> Unsupported

\* The G words that only set a mode
GMode(i, m) ==
    LET is(n) == i = n /\ m = 0
    IN  CASE i \in 17..19 /\ m = 0 ->
                Command(2, "plane", CASE i = 17 -> {"X", "Y"} [] i = 18 -> {"Z", "X"}
                                      [] i = 19 -> {"Y", "Z"})
          [] is(90) \/ is(91) -> Command(3, "incremental", i = 91)
          [] i = 91 /\ m = 10 -> Command(4, "ignored", "none")
          [] is(93) \/ is(94) -> Command(5, "inverseTime", i = 93)
          [] is(20) \/ is(21) -> Command(6, "inches", i = 20)
          [] is(40) -> Command(7, "ignored", "none")
          [] i = 49 -> TakesAlone(Command(8, "toolLength", "Cancel"), "ToolLength")
          [] i = 43 /\ m = 10 ->
                TakesAlone(Command(8, "toolLength", "EnableDynamic"), "ToolLength")
          [] i \in 54..59 /\ m = 0 ->
                Command(9, "coord", CASE i = 54 -> "G54" [] i = 55 -> "G55" [] i = 56 -> "G56"
                                      [] i = 57 -> "G57" [] i = 58 -> "G58" [] i = 59 -> "G59")
          [] is(61) -> Command(10, "ignored", "none")
          [] OTHER -> Unsupported

\* The M words
MCommand(i) ==
    CASE i = 0 -> Command(11, "flow", "Paused")
      [] i = 1 -> Command(11, "ignored", "none")
      [] i \in {2, 30} -> Command(11, "flow", "Completed")
      [] i = 3 \/ (i = 4 /\ Reversible) -> Command(12, "spindle", IF i = 3 THEN "Cw" ELSE "Ccw")
      [] i = 5 -> Command(12, "spindle", "Disable")
      [] i = 6 -> Command(14, "ignored", "none")
      [] i \in {7, 8, 9} -> Command(13, "coolant", <<"M7", "M8", "M9">>[i - 6])
      [] i \in 62..65 -> Command(15, "io", <<"OnSync", "OffSync", "OnImmediate",
                                             "OffImmediate">>[i - 61])
      [] i \in {67, 68} -> Command(15, "io", IF i = 67 THEN "AnalogSync" ELSE "AnalogImmediate")
      [] i \in 100..102 -> Command(16, "paper", IF i = 102 THEN "stop" ELSE "feed")
      [] i \in 103..108 -> Command(17, "servo", IF i \in {103, 106} THEN "angle" ELSE "other")
      [] OTHER -> Unsupported

ValueLetters == {"E", "F", "I", "J", "K", "L", "N", "P", "Q", "R", "S", "T"} \cup Axes
NonNegative == {"F", "N", "P", "T", "S"}

\* A word of a program is a letter and hundredths.
ASSUME ProgramsAssumption ==
    \A p \in Programs : p \subseteq (({"G", "M"} \cup ValueLetters) \X Int)

(***************************************************************************)
(* State                                                                   *)
(***************************************************************************)
NoLine == [at |-> "none"]

\* gc_init: everything zero but the position, which is set next
Cleared(position) ==
    [motion |-> "Seek", plane |-> {"X", "Y"}, incremental |-> FALSE, inverseTime |-> FALSE,
     inches |-> FALSE, toolLength |-> "Cancel", coord |-> "G54", spindle |-> "Disable",
     coolant |-> FALSE, feed |-> 0, speed |-> 0, tool |-> 0, position |-> position,
     system |-> coords["G54"], offset |-> Origin, tlo |-> 0]

AllOff == [spindle |-> FALSE, coolant |-> FALSE, pins |-> {}]
Here == MotorsToCartesian(kin, machine)
Moving == machine # planner

Init ==
    /\ kin \in Kinds
    /\ program \in Programs
    /\ coords = [c \in Stored |-> Origin]
    /\ planner = Origin /\ machine = Origin
    /\ gc = Cleared(Origin)
    /\ block = NoLine
    /\ mode = "Idle" /\ abort = FALSE /\ out = AllOff /\ restored = FALSE
    /\ budget = [lines |-> MaxLines, events |-> MaxEvents]

(***************************************************************************)
(* Steps 1 and 2: a line is read                                           *)
(***************************************************************************)
\* gc_block: the modes of gc_state, and nothing else yet; $J= enforces G1, G94
StartLine ==
    /\ block = NoLine /\ ~abort /\ budget.lines > 0
    /\ \E jog \in BOOLEAN :
        /\ IF jog THEN mode \in {"Idle", "Jog"} ELSE mode \notin {"Alarm", "Jog"}
        /\ block' = [at |-> "parse", jog |-> jog, groups |-> {}, words |-> {},
                     val |-> [l \in ValueLetters |-> 0], axis |-> "None",
                     motion |-> IF jog THEN "Linear" ELSE gc.motion,
                     inverseTime |-> ~jog /\ gc.inverseTime,
                     plane |-> gc.plane, incremental |-> gc.incremental,
                     inches |-> gc.inches, toolLength |-> gc.toolLength,
                     coord |-> gc.coord, spindle |-> gc.spindle, coolant |-> "None",
                     nonModal |-> "NoAction", flow |-> "Running", io |-> "none",
                     paper |-> "none", servo |-> "none", ignored |-> "none"]
    /\ budget' = [budget EXCEPT !.lines = @ - 1]
    /\ UNCHANGED <<kin, program, gc, coords, planner, machine, mode, abort, out, restored>>

Accepted(c) ==
    /\ c # Unsupported
    /\ c.alone => block.axis = "None"
    /\ c.group \notin block.groups

WithCommand(c) ==
    [block EXCEPT ![c.field] = c.value, !.groups = @ \cup {c.group},
                  !.axis = IF c.axis = "asis" THEN @ ELSE c.axis]

\* The command of a G or an M word
CommandOf(w) ==
    LET i == Byte(w[2])
        m == Mantissa(w[2])
    IN  IF w[1] = "M" THEN MCommand(i)
        ELSE IF GAction(i, m) # Unsupported THEN GAction(i, m) ELSE GMode(i, m)

\* Nothing refuses the word
WordFits(w) ==
    IF w[1] \in {"G", "M"}
    THEN Accepted(CommandOf(w)) /\ (w[1] = "M" => Mantissa(w[2]) = 0)
    ELSE /\ w[1] \notin block.words
         /\ w[1] \in NonNegative => w[2] >= 0
         /\ w[1] = "T" => w[2] <= 25500

WithValue(w) == [block EXCEPT !.words = @ \cup {w[1]}, !.val[w[1]] = w[2]]

\* One word: a command takes its place in the block, a value is stored.
\* "T" is stored in gc_state at once.
Word ==
    /\ block.at = "parse"
    /\ Cardinality(block.groups) + Cardinality(block.words) < MaxWords
    /\ \E w \in program :
        /\ block' = IF ~WordFits(w) THEN NoLine
                    ELSE IF w[1] \in {"G", "M"} THEN WithCommand(CommandOf(w))
                    ELSE WithValue(w)
        /\ gc' = IF w[1] = "T" /\ w[2] <= 25500 THEN [gc EXCEPT !.tool = Byte(w[2])] ELSE gc
    /\ UNCHANGED <<kin, program, coords, planner, machine, mode, abort, out, restored, budget>>

(***************************************************************************)
(* Step 3: the block is checked                                            *)
(***************************************************************************)
AxisWords(b) == b.words \cap Axes
Millimetres(b, v) == IF b.inches THEN (v * 254) \div 10 ELSE v

\* Axis words that no command of the line takes belong to the motion mode
AxisCommand(b) ==
    IF AxisWords(b) # {} /\ b.axis = "None" THEN "MotionMode" ELSE b.axis

\* The feed rate of the block; one that follows a G93 is not converted
Feed(b) ==
    IF b.jog THEN Millimetres(b, b.val["F"])
    ELSE IF b.inverseTime \/ gc.inverseTime THEN b.val["F"]
    ELSE IF "F" \in b.words THEN Millimetres(b, b.val["F"])
    ELSE gc.feed

\* Mutant: the system in force is kept until the modes are set.
BadBlockSystem(b) == gc.system

\* block_coord_system
BlockSystem(b) == IF b.coord # gc.coord THEN coords[b.coord] ELSE gc.system

\* The coordinate system that G10 writes: P is a byte, P0 is the active one
Chosen(b) ==
    LET p == Byte(b.val["P"])
    IN  IF p = 0 THEN b.coord
        ELSE IF p > 6 THEN "none"
        ELSE <<"G54", "G55", "G56", "G57", "G58", "G59">>[p]

\* Mutant: the tool length is left out.
BadLength(a) == 0

\* The axis that the tool length is on (TOOL_LENGTH_OFFSET_AXIS)
Length(a) == IF a = "Z" THEN gc.tlo ELSE 0

\* values.xyz when the checks are done
Target(b) ==
    [a \in Axes |->
        LET v == Millimetres(b, b.val[a])
        IN  CASE b.nonModal = "SetCoordinateData" \/ AxisCommand(b) = "ToolLength" -> v
              [] b.nonModal = "SetCoordinateOffset" ->
                    IF a \in b.words
                    THEN gc.position[a] - BlockSystem(b)[a] - v - Length(a)
                    ELSE gc.offset[a]
              [] OTHER ->
                    IF AxisWords(b) = {} THEN 0
                    ELSE IF a \notin b.words THEN gc.position[a]
                    ELSE IF b.nonModal = "AbsoluteOverride" THEN v
                    ELSE IF b.incremental THEN gc.position[a] + v
                    ELSE v + BlockSystem(b)[a] + gc.offset[a] + Length(a)]

\* Mutant: the G92 offset is left out.
BadZero(a, v) == gc.position[a] - v - Length(a)

\* G10 L20: the origin with which the axis is at v
Zero(a, v) == gc.position[a] - gc.offset[a] - v - Length(a)

\* coord_data: what G10 stores, or where G28 and G30 go
CoordData(b) ==
    [a \in Axes |->
        CASE b.nonModal = "SetCoordinateData" ->
                LET v == Millimetres(b, b.val[a])
                IN  IF a \notin b.words THEN coords[Chosen(b)][a]
                    ELSE IF Byte(b.val["L"]) = 20 THEN Zero(a, v)
                    ELSE v
          [] b.nonModal \in {"GoHome0", "GoHome1"} ->
                IF AxisWords(b) # {} /\ a \notin b.words THEN gc.position[a]
                ELSE coords[IF b.nonModal = "GoHome0" THEN "G28" ELSE "G30"][a]
          [] OTHER -> 0]

Arcs == {"CwArc", "CcwArc"}
Probes == {"ProbeToward", "ProbeTowardNoError", "ProbeAway"}

\* The words that some command of the line uses
UsedWords(b) ==
    {"N", "F"} \cup Axes
    \cup (IF b.jog THEN {} ELSE {"S", "T"})
    \cup (IF \/ b.nonModal \in {"Dwell", "SetCoordinateData"} \/ b.paper = "feed" \/ b.servo # "none"
             \/ b.io \in {"OnSync", "OffSync", "OnImmediate", "OffImmediate"}
          THEN {"P"} ELSE {})
    \cup (IF b.nonModal = "SetCoordinateData" THEN {"L"} ELSE {})
    \cup (IF b.io \in {"AnalogSync", "AnalogImmediate"} THEN {"E", "Q"} ELSE {})
    \cup (IF b.motion \in Arcs /\ AxisCommand(b) = "MotionMode"
          THEN IF "R" \in b.words THEN {"R"} ELSE {"I", "J", "K"} ELSE {})

\* A value word that a command needs is missing
WordMissing(b) ==
    \/ b.jog /\ "F" \notin b.words
    \/ ~b.jog /\ b.inverseTime /\ AxisCommand(b) = "MotionMode" /\ "F" \notin b.words
    \/ /\ \/ b.nonModal = "Dwell" \/ b.paper = "feed" \/ b.servo = "angle"
          \/ b.io \in {"OnSync", "OffSync", "OnImmediate", "OffImmediate"}
       /\ "P" \notin b.words
    \/ b.io \in {"AnalogSync", "AnalogImmediate"} /\ ~({"E", "Q"} \subseteq b.words)
    \/ b.nonModal \in {"SetCoordinateData", "SetCoordinateOffset"} /\ AxisWords(b) = {}

\* The command and its values do not go together
BadCommand(b) ==
    \/ AxisCommand(b) = "ToolLength" /\ b.toolLength = "EnableDynamic" /\ AxisWords(b) # {"Z"}
    \/ /\ b.nonModal = "SetCoordinateData"
       /\ \/ {"P", "L"} \cap b.words = {}
          \/ Byte(b.val["L"]) \notin {2, 20}
          \/ Byte(b.val["L"]) = 2 /\ "R" \in b.words
          \/ Chosen(b) = "none"
    \/ b.nonModal = "AbsoluteOverride" /\ b.motion \notin {"Seek", "Linear"}
    \/ /\ b.jog
       /\ \/ ~(b.groups \subseteq {0, 3, 6})
          \/ b.nonModal \notin {"AbsoluteOverride", "NoAction"}

\* An arc needs a way in its plane, and a centre or a radius that fit it
BadArc(b, fits) ==
    \/ AxisWords(b) \cap b.plane = {}
    \/ "R" \in b.words /\ Target(b) = gc.position
    \/ "R" \notin b.words /\ \A a \in b.plane :
          (CASE a = "X" -> "I" [] a = "Y" -> "J" [] a = "Z" -> "K") \notin b.words
    \/ ~fits

\* The motion mode and the values do not go together
BadMotion(b, fits) ==
    IF b.motion = "None" THEN AxisWords(b) # {}
    ELSE /\ AxisCommand(b) = "MotionMode" /\ b.motion # "Seek"
         /\ \/ Feed(b) = 0
            \/ b.motion \in Arcs /\ BadArc(b, fits)
            \/ b.motion \in Probes /\ (AxisWords(b) = {} \/ Target(b) = gc.position)

Rejected(b, fits) ==
    \/ WordMissing(b) \/ BadCommand(b) \/ BadMotion(b, fits)
    \/ ~(b.words \subseteq UsedWords(b))

\* axis_command when the checks are done: none without an axis word to use
Axis(b) ==
    IF /\ AxisWords(b) = {}
       /\ \/ b.nonModal \in {"GoHome0", "GoHome1"}
          \/ AxisCommand(b) = "MotionMode" /\ b.motion \in {"Seek", "Linear"}
    THEN "None" ELSE AxisCommand(b)

\* What the execution needs of the block
Checked(b) ==
    [at |-> IF b.jog THEN "jog" ELSE "modes", axis |-> Axis(b), named |-> AxisWords(b),
     said |-> [a \in Axes |-> Millimetres(b, b.val[a])], xyz |-> Target(b),
     data |-> CoordData(b), index |-> Chosen(b), system |-> BlockSystem(b), feed |-> Feed(b),
     speed |-> IF "S" \in b.words THEN b.val["S"] ELSE gc.speed, p |-> b.val["P"],
     e |-> Byte(b.val["E"]), twenty |-> Byte(b.val["L"]) = 20, motion |-> b.motion,
     inverseTime |-> b.inverseTime, plane |-> b.plane, incremental |-> b.incremental,
     inches |-> b.inches, toolLength |-> b.toolLength, coord |-> b.coord,
     spindle |-> b.spindle, coolant |-> b.coolant, nonModal |-> b.nonModal,
     flow |-> b.flow, io |-> b.io, paper |-> b.paper, servo |-> b.servo]

EndOfLine ==
    /\ block.at = "parse"
    /\ \E fits \in BOOLEAN :
        block' = IF Rejected(block, fits) THEN NoLine ELSE Checked(block)
    /\ UNCHANGED <<kin, program, gc, coords, planner, machine, mode, abort, out, restored, budget>>

(***************************************************************************)
(* Step 4: the block is executed                                           *)
(***************************************************************************)
Digital == {"OnSync", "OffSync", "OnImmediate", "OffImmediate"}
Analog == {"AnalogSync", "AnalogImmediate"}
TurnsOn(b) == b.io \in {"OnSync", "OnImmediate"}

\* Mutant: an output that has no pin passes.
BadIoFails(b) == b.io \in Digital /\ b.p >= 400

\* The user output cannot be set: the line fails half way
IoFails(b) ==
    \/ b.io \in Digital /\ (b.p >= 400 \/ (TurnsOn(b) /\ b.p \div 100 \notin Pins))
    \/ b.io \in Analog /\ b.e \notin Pins

\* Steps 2 to 8: feed rate, spindle and coolant
Coolant(b) ==
    CASE b.coolant = "M8" -> TRUE [] b.coolant = "M9" -> FALSE [] OTHER -> gc.coolant
FirstModes(b) ==
    [gc EXCEPT !.inverseTime = b.inverseTime, !.feed = b.feed, !.speed = b.speed,
               !.spindle = b.spindle, !.coolant = Coolant(b)]

\* Steps 11 to 19: the other modes, and the offsets
OtherModes(b) ==
    LET tools == b.axis = "ToolLength"
    IN  [FirstModes(b) EXCEPT
            !.plane = b.plane, !.inches = b.inches, !.incremental = b.incremental,
            !.toolLength = IF tools THEN b.toolLength ELSE @,
            !.tlo = IF ~tools THEN @ ELSE IF b.toolLength = "Cancel" THEN 0 ELSE b.xyz["Z"],
            !.coord = b.coord,
            !.system = IF b.nonModal = "SetCoordinateData" /\ b.index = b.coord THEN b.data
                       ELSE b.system,
            !.offset = CASE b.nonModal = "SetCoordinateOffset" -> b.xyz
                         [] b.nonModal = "ResetCoordinateOffset" -> Origin
                         [] OTHER -> @]

NewCoords(b) ==
    CASE b.nonModal = "SetCoordinateData" -> [coords EXCEPT ![b.index] = b.data]
      [] b.nonModal = "SetHome0" -> [coords EXCEPT !["G28"] = gc.position]
      [] b.nonModal = "SetHome1" -> [coords EXCEPT !["G30"] = gc.position]
      [] OTHER -> coords

\* protocol_buffer_synchronize is called before the modes are set
NeedsSync(b) ==
    \/ b.nonModal \in {"SetCoordinateData", "SetHome0", "SetHome1", "SetCoordinateOffset",
                       "ResetCoordinateOffset"}
    \/ b.coord # gc.coord \/ b.axis = "ToolLength"
    \/ b.io \in {"OnSync", "OffSync", "AnalogSync"} \/ b.servo # "none" \/ b.paper = "feed"
    \/ /\ mode # "CheckMode"
       /\ \/ b.spindle # gc.spindle \/ (b.speed # gc.speed /\ gc.spindle # "Disable")
          \/ b.coolant # "None" \/ b.nonModal = "Dwell"

\* Mutant: a reset does not end the wait for the queue.
BadSynchronized == ~Moving

\* protocol_buffer_synchronize returns
Synchronized == ~Moving \/ abort

\* Spindle::sync and coolant_sync do nothing in check mode or in an abort; a
\* user output is switched whatever happens.
Switched(b) ==
    LET live == mode # "CheckMode" /\ ~abort
    IN  [spindle |-> IF live /\ b.spindle # gc.spindle THEN b.spindle # "Disable" ELSE out.spindle,
         coolant |-> IF live /\ b.coolant # "None" THEN Coolant(b) ELSE out.coolant,
         pins |-> IF b.io \notin Digital \/ IoFails(b) THEN out.pins
                  ELSE IF TurnsOn(b) THEN out.pins \cup {b.p \div 100}
                  ELSE out.pins \ {b.p \div 100}]

SetModes ==
    /\ block.at = "modes"
    /\ NeedsSync(block) => Synchronized
    /\ out' = Switched(block)
    /\ IF IoFails(block)
       THEN gc' = FirstModes(block) /\ block' = NoLine /\ UNCHANGED <<coords, restored>>
       ELSE /\ gc' = OtherModes(block)
            /\ coords' = NewCoords(block)
            /\ restored' = (restored /\ block.coord = gc.coord)
            /\ block' = [block EXCEPT !.at = "motion"]
    /\ UNCHANGED <<kin, program, planner, machine, mode, abort, budget>>

Homes(b) == b.nonModal \in {"GoHome0", "GoHome1"}
Moves(b) == b.motion # "None" /\ b.axis = "MotionMode"
Runs == mode # "CheckMode" /\ ~abort

\* mc_line: the target is planned unless this is check mode or an abort
Planned(target) == IF Runs THEN CartesianToMotors(kin, target) ELSE planner

\* Steps 19 and 20: to the stored position, then where the motion mode says;
\* the parser is there at once, whatever mc_line did
Travel ==
    /\ block.at = "motion"
    /\ ~(Moves(block) /\ block.motion \in Probes)
    /\ LET moves == Homes(block) \/ Moves(block)
           last == IF Moves(block) THEN block.xyz ELSE block.data
       IN  /\ planner' = IF moves THEN Planned(last) ELSE planner
           /\ gc' = [gc EXCEPT !.motion = block.motion, !.position = IF moves THEN last ELSE @]
    /\ block' = [block EXCEPT !.at = "flow"]
    /\ UNCHANGED <<kin, program, coords, machine, mode, abort, out, restored, budget>>

ProbedAt(position) == [gc EXCEPT !.motion = block.motion, !.position = position]
\* Mutant: the planner is not told where the probe stopped.
BadProbeStops(m) ==
    machine' = m /\ UNCHANGED planner /\ gc' = ProbedAt(MotorsToCartesian(kin, m))

ProbeStops(m) ==
    machine' = m /\ planner' = m /\ gc' = ProbedAt(MotorsToCartesian(kin, m))

\* mc_probe_cycle: the queue is emptied, then the motion runs until the probe
\* makes contact or the target is reached; a probe in contact at the start,
\* or one that finds nothing, is an alarm
ProbeCycle ==
    /\ block.at = "motion" /\ Moves(block) /\ block.motion \in Probes
    /\ LET end == CartesianToMotors(kin, block.xyz)
       IN  \/ /\ mode = "CheckMode" \/ abort
              /\ gc' = ProbedAt(IF mode = "CheckMode" THEN block.xyz ELSE gc.position)
              /\ UNCHANGED <<planner, machine, mode>>
           \/ /\ Runs /\ ~Moving /\ gc' = ProbedAt(gc.position)
              /\ mode' = "Alarm"
              /\ UNCHANGED <<planner, machine>>
           \/ /\ Runs /\ ~Moving
              /\ \E m \in {machine, end} : ProbeStops(m)
              /\ UNCHANGED mode
           \/ /\ Runs /\ ~Moving /\ ProbeStops(end)
              /\ mode' = IF block.motion = "ProbeTowardNoError" THEN mode ELSE "Alarm"
    /\ block' = [block EXCEPT !.at = "flow"]
    /\ UNCHANGED <<kin, program, coords, abort, out, restored, budget>>

\* Mutant: the coolant is left on.
BadStopped == [out EXCEPT !.spindle = FALSE]

\* spindle->set_state(Disable) and coolant_off
Stopped == [out EXCEPT !.spindle = FALSE, !.coolant = FALSE]

\* Step 21: M2 and M30 bring a part of the modes back; M0 holds and resumes
Flow ==
    /\ block.at = "flow"
    /\ block.flow # "Running" => Synchronized
    /\ LET ends == block.flow = "Completed"
           reloads == ends /\ mode # "CheckMode"
       IN  /\ gc' = IF ~ends THEN gc
                    ELSE [gc EXCEPT !.motion = "Linear", !.plane = {"X", "Y"},
                                    !.incremental = FALSE, !.inverseTime = FALSE,
                                    !.coord = "G54", !.spindle = "Disable", !.coolant = FALSE,
                                    !.system = IF reloads THEN coords["G54"] ELSE @]
           /\ out' = IF reloads /\ ~abort THEN Stopped ELSE out
           /\ restored' = (restored /\ ~reloads)
    /\ block' = NoLine
    /\ UNCHANGED <<kin, program, coords, planner, machine, mode, abort, budget>>

\* jog_execute: beyond the soft limits, dropped by an abort, or queued
Jog ==
    /\ block.at = "jog" /\ block' = NoLine
    /\ \/ UNCHANGED <<gc, planner, mode>>
       \/ /\ ~abort
          /\ planner' = Planned(block.xyz)
          /\ gc' = [gc EXCEPT !.position = block.xyz]
          /\ mode' = IF mode = "Idle" /\ machine # planner' THEN "Jog" ELSE mode
    /\ UNCHANGED <<kin, program, coords, machine, abort, out, restored, budget>>

(***************************************************************************)
(* The rest of the system                                                  *)
(***************************************************************************)
\* The main task executes realtime commands: not while it parses a line
Realtime == block.at # "parse" /\ ~abort

\* protocol_auto_cycle_start
CycleStart ==
    /\ Realtime /\ mode = "Idle" /\ Moving
    /\ mode' = "Cycle"
    /\ UNCHANGED <<kin, program, gc, block, coords, planner, machine, abort, out, restored, budget>>

\* The queue has been executed
Arrive ==
    /\ Realtime /\ mode \in {"Cycle", "Jog"}
    /\ machine' = planner
    /\ mode' = "Idle"
    /\ UNCHANGED <<kin, program, gc, block, coords, planner, abort, out, restored, budget>>

Event == budget.events > 0 /\ budget' = [budget EXCEPT !.events = @ - 1]

\* A jog cancel: the motion stops somewhere, the queue is flushed, a jog line
\* in flight is dropped, and the positions are synchronized
JogCancel ==
    /\ Event /\ Realtime /\ mode = "Jog"
    /\ \E m \in {machine, planner} :
        /\ machine' = m /\ planner' = m
        /\ gc' = [gc EXCEPT !.position = MotorsToCartesian(kin, m)]
    /\ mode' = "Idle"
    /\ block' = NoLine
    /\ UNCHANGED <<kin, program, coords, abort, out, restored>>

\* mc_reset in another task: everything off, the motors stop where they are
Reset ==
    /\ Event /\ ~abort
    /\ abort' = TRUE /\ out' = AllOff
    /\ IF mode \in {"Cycle", "Jog"}
       THEN mode' = "Alarm" /\ machine' \in {machine, planner}
       ELSE UNCHANGED <<mode, machine>>
    /\ UNCHANGED <<kin, program, gc, block, coords, planner, restored>>

\* The main task is back in its loop: reset_variables
Restart ==
    /\ abort /\ block = NoLine
    /\ abort' = FALSE
    /\ gc' = Cleared(Here) /\ planner' = machine
    /\ mode' = IF mode = "Alarm" THEN "Alarm" ELSE "Idle"
    /\ out' = Stopped
    /\ restored' = FALSE
    /\ UNCHANGED <<kin, program, block, coords, machine, budget>>

\* A system command between two lines: $C on, $X, $RST=# ($C off is a reset)
CheckMode ==
    /\ Event /\ block = NoLine /\ ~abort /\ mode = "Idle"
    /\ mode' = "CheckMode"
    /\ UNCHANGED <<kin, program, gc, block, coords, planner, machine, abort, out, restored>>

Unlock ==
    /\ Event /\ block = NoLine /\ ~abort /\ mode = "Alarm"
    /\ mode' = "Idle"
    /\ UNCHANGED <<kin, program, gc, block, coords, planner, machine, abort, out, restored>>

\* settings_restore: the stored systems are zeroed, the active one is not loaded
Restore ==
    /\ Event /\ block = NoLine /\ ~abort /\ mode \in {"Idle", "Alarm"} /\ ~Moving
    /\ coords' = [c \in Stored |-> Origin]
    /\ restored' = TRUE
    /\ UNCHANGED <<kin, program, gc, block, planner, machine, mode, abort, out>>

Next ==
    \/ StartLine \/ Word \/ EndOfLine \/ SetModes \/ Travel \/ ProbeCycle \/ Flow \/ Jog
    \/ CycleStart \/ Arrive \/ JogCancel \/ Reset \/ Restart \/ CheckMode \/ Unlock \/ Restore

Spec == Init /\ [][Next]_vars

\* The main task goes on with a line, the steppers with the queue
Executes == EndOfLine \/ SetModes \/ Travel \/ ProbeCycle \/ Flow \/ Jog
FairSpec == Spec /\ WF_vars(Executes) /\ WF_vars(CycleStart) /\ WF_vars(Arrive)

(***************************************************************************)
(* Properties                                                              *)
(***************************************************************************)
\* Every field of the parser state has its kind of value, and an output that
\* has no pin is never switched on (sys_set_digital).
TypeOK ==
    /\ {gc.position, gc.system, gc.offset, planner, machine} \subseteq Vectors
    /\ coords \in [Stored -> Vectors]
    /\ gc.coord \in Systems /\ gc.tool \in 0..255 /\ gc.feed \in Nat /\ gc.tlo \in Int
    /\ mode \in {"Idle", "Cycle", "Jog", "Alarm", "CheckMode"}
    /\ out \in [spindle : BOOLEAN, coolant : BOOLEAN, pins : SUBSET Pins]
    /\ {abort, restored} \subseteq BOOLEAN
    /\ block.at \in {"none", "parse", "modes", "motion", "flow", "jog"}

\* The parser and the planner agree on where the queue ends, through lines,
\* jogs that are dropped, probe cycles that stop short and resets; only check
\* mode, which the planner does not see, and a reset not yet handled part them.
PositionIsPlanned ==
    ~abort /\ mode # "CheckMode" => gc.position = MotorsToCartesian(kin, planner)

\* The coordinate system in force is the stored one of the selected name.
\* ($RST=# alone breaks it: it zeroes what is stored and loads nothing.)
ActiveIsStored ==
    mode # "CheckMode" => gc.system = coords[gc.coord] \/ restored

\* The spindle and the coolant are as the parser thinks, also after a line
\* that failed half way, a program end and a reset.
AccessoriesAgree ==
    ~abort /\ mode # "CheckMode" =>
        out.spindle = (gc.spindle # "Disable") /\ out.coolant = gc.coolant

Work(g, a) == g.position[a] - g.system[a] - g.offset[a] - (IF a = "Z" THEN g.tlo ELSE 0)

\* A motion ends where its line says: in the work coordinates that are in
\* force after the line, in machine coordinates with G53, that far away with
\* G91; an axis the line does not name stays.  (Of the lines that only move.)
TargetAsSaid ==
    [][(/\ block.at = "motion" /\ block'.at = "flow" /\ Moves(block)
        /\ block.motion \notin Probes
        /\ block.nonModal \in {"NoAction", "Dwell", "SetHome0", "SetHome1", "AbsoluteOverride"})
       => \A a \in Axes :
            IF a \notin block.named THEN gc'.position[a] = gc.position[a]
            ELSE IF block.nonModal = "AbsoluteOverride" THEN gc'.position[a] = block.said[a]
            ELSE IF block.incremental THEN gc'.position[a] = gc.position[a] + block.said[a]
            ELSE Work(gc', a) = block.said[a]]_vars

\* G92, and G10 L20 of the selected system, make the work position of the
\* named axes what the line says, whatever offsets are in force.
OffsetsAsSaid ==
    [][(/\ block.at = "modes" /\ block'.at = "motion" /\ block.axis = "NonModal"
        /\ \/ block.nonModal = "SetCoordinateOffset"
           \/ block.nonModal = "SetCoordinateData" /\ block.twenty /\ block.index = block.coord)
       => \A a \in block.named : Work(gc', a) = block.said[a]]_vars

\* A line that is executed is answered: no wait for the queue, for the probe
\* or for a reset is for ever.
LineAnswered == (block.at = "modes" /\ mode # "CheckMode") ~> (block = NoLine)

\* GCode.cpp on axis words: "No axis word in block. Keep same axis position."
\* A line that moves leaves an axis that it does not name where it is.
NamedAxesMove ==
    [][(/\ block.at \in {"motion", "jog"} /\ ~Homes(block) /\ planner' # planner
        /\ machine' = machine /\ mode' \in {mode, "Jog"})
       => \A a \in Axes \ block.named : gc'.position[a] = gc.position[a]]_vars

\* mc_reset: "turn off all User I/O immediately".  They are off when the reset
\* is over.
OutputsOffAfterReset == [][abort /\ ~abort' => out'.pins = {}]_vars
===============================================================================
