----------------------------- MODULE GCode_proofs -----------------------------
(***************************************************************************)
(* Proofs about GCode, for programs of any words, any outputs with a pin,  *)
(* every kinematics and any number of lines and events.                    *)
(***************************************************************************)
EXTENDS GCode, TLAPS

(* The transforms of Custom/CoreXY.cpp, for every position. The parser keeps a *)
(* tool position and the planner motor positions; each report, each            *)
(* synchronisation and each homing turns one into the other.                   *)

\* The sums and differences that the belts make are even together.
LEMMA Halves ==
    ASSUME NEW x \in Int, NEW y \in Int
    PROVE  /\ ((x - y) - (-(x + y))) \div 2 = x
           /\ (-((x - y) + (-(x + y)))) \div 2 = y
<1>1. /\ (x - y) - (-(x + y)) = 2 * x
      /\ -((x - y) + (-(x + y))) = 2 * y
  OBVIOUS
<1>2. (2 * x) \div 2 = x /\ (2 * y) \div 2 = y
  OBVIOUS
<1> QED
  BY <1>1, <1>2

\* The belts of CoreXY are undone by the tool position they give.
LEMMA BeltsUndone ==
    ASSUME NEW p \in Vectors
    PROVE  /\ Belts(p) \in Vectors
           /\ Tool(Belts(p)) = p
<1>1. p.X \in Int /\ p.Y \in Int /\ p.Z \in Int
  BY DEF Vectors, Axes
<1>2. Belts(p) \in Vectors
  BY <1>1 DEF Belts, Vectors, Axes
<1>3. /\ Belts(p).X - Belts(p).Y = (p.X - p.Y) - (-(p.X + p.Y))
      /\ Belts(p).X + Belts(p).Y = (p.X - p.Y) + (-(p.X + p.Y))
      /\ Belts(p).Z = p.Z
  BY DEF Belts
<1>4. Tool(Belts(p)) = [X |-> p.X, Y |-> p.Y, Z |-> p.Z]
  BY <1>1, <1>3, Halves DEF Tool
<1>5. p = [X |-> p.X, Y |-> p.Y, Z |-> p.Z]
  BY DEF Vectors, Axes
<1> QED
  BY <1>2, <1>4, <1>5

\* Swapping the first two axes twice changes nothing.
LEMMA SwappedTwice ==
    ASSUME NEW v \in Vectors
    PROVE  Swapped(v) \in Vectors /\ Swapped(Swapped(v)) = v
  BY DEF Swapped, Vectors, Axes

\* CoreXY.cpp, cartesian_to_motors and motors_to_cartesian: in every mode the
\* inverse transform gives back the position the transform was given, so
\* neither a synchronisation nor a report moves the tool on paper.
THEOREM TransformUndone ==
    ASSUME NEW k \in Modes, NEW p \in Vectors
    PROVE  MotorsToCartesian(k, CartesianToMotors(k, p)) = p
<1>1. CASE k = "Cartesian"
  BY <1>1 DEF MotorsToCartesian, CartesianToMotors
<1>2. CASE k = "CoreXY"
  BY <1>2, BeltsUndone DEF MotorsToCartesian, CartesianToMotors
<1>3. CASE k = "SwapXY"
  <2>1. Swapped(p) \in Vectors
    BY SwappedTwice
  <2>2. /\ Belts(Swapped(p)) \in Vectors
        /\ Tool(Belts(Swapped(p))) = Swapped(p)
    BY <2>1, BeltsUndone
  <2>3. Swapped(Swapped(Belts(Swapped(p)))) = Belts(Swapped(p))
    BY <2>2, SwappedTwice
  <2>4. Swapped(Swapped(p)) = p
    BY SwappedTwice
  <2> QED
    BY <1>3, <2>2, <2>3, <2>4 DEF MotorsToCartesian, CartesianToMotors
<1> QED
  BY <1>1, <1>2, <1>3 DEF Modes

\* CoreXY.cpp, the one-argument cartesian_to_motors of user_defined_homing: it
\* stores the two motors the other way round than the transform of a line, so
\* after homing planner and parser agree only where both coincide.
THEOREM HomingSwapsMotors ==
    ASSUME NEW p \in Vectors
    PROVE  /\ HomingMotors(p) = Swapped(CartesianToMotors("CoreXY", p))
           /\ HomingMotors(p) = CartesianToMotors("CoreXY", p) <=> p.X = 0
<1>1. p.X \in Int /\ p.Y \in Int /\ p.Z \in Int
  BY DEF Vectors, Axes
<1>2. CartesianToMotors("CoreXY", p) = [X |-> p.X - p.Y, Y |-> -(p.X + p.Y), Z |-> p.Z]
  BY DEF CartesianToMotors, Belts
<1>3. HomingMotors(p) = [X |-> -(p.X + p.Y), Y |-> p.X - p.Y, Z |-> p.Z]
  BY DEF HomingMotors
<1>4. p.X - p.Y = -(p.X + p.Y) <=> p.X = 0
  BY <1>1
<1> QED
  BY <1>2, <1>3, <1>4 DEF Swapped

-----------------------------------------------------------------------------
(* The types of GCode.                                                         *)

Motions == {"Seek", "Linear", "None"} \cup Arcs \cup Probes
NonModals ==
  {"NoAction", "Dwell", "AbsoluteOverride", "SetCoordinateData", "GoHome0", "GoHome1",
   "SetCoordinateOffset", "SetHome0", "SetHome1", "ResetCoordinateOffset"}
AxisCommands == {"None", "MotionMode", "NonModal", "ToolLength"}
Planes == SUBSET Axes
ToolLengths == {"Cancel", "EnableDynamic"}
Spindles == {"Disable", "Cw", "Ccw"}
Coolants == {"None", "M7", "M8", "M9"}
Flows == {"Running", "Paused", "Completed"}
Outputs == {"none"} \cup Digital \cup Analog
Papers == {"none", "stop", "feed"}
Servos == {"none", "angle", "other"}

\* The parser state, a line that is read, and one that is executed.
GcStates ==
  [motion : Motions, plane : Planes, incremental : BOOLEAN, inverseTime : BOOLEAN,
   inches : BOOLEAN, toolLength : ToolLengths, coord : Systems, spindle : Spindles,
   coolant : BOOLEAN, feed : Nat, speed : Int, tool : 0..255, position : Vectors,
   system : Vectors, offset : Vectors, tlo : Int]

Reading ==
  [at : {"parse"}, jog : BOOLEAN, groups : SUBSET Int, words : SUBSET ValueLetters,
   val : [ValueLetters -> Int], axis : AxisCommands, motion : Motions, inverseTime : BOOLEAN,
   plane : Planes, incremental : BOOLEAN, inches : BOOLEAN, toolLength : ToolLengths,
   coord : Systems, spindle : Spindles, coolant : Coolants, nonModal : NonModals, flow : Flows,
   io : Outputs, paper : Papers, servo : Servos, ignored : {"none"}]

Executing ==
  [at : {"modes", "motion", "flow", "jog"}, axis : AxisCommands, named : SUBSET Axes,
   said : Vectors, xyz : Vectors, data : Vectors, index : Systems \cup {"none"}, system : Vectors,
   feed : Nat, speed : Int, p : Int, e : Int, twenty : BOOLEAN, motion : Motions,
   inverseTime : BOOLEAN, plane : Planes, incremental : BOOLEAN, inches : BOOLEAN,
   toolLength : ToolLengths, coord : Systems, spindle : Spindles, coolant : Coolants,
   nonModal : NonModals, flow : Flows, io : Outputs, paper : Papers, servo : Servos]

BlockTypes ==
  \/ block = NoLine
  \/ block \in Reading /\ block.val["F"] >= 0
  \/ /\ block \in Executing
     /\ block.nonModal = "SetCoordinateData" => block.index \in Systems

Types ==
  /\ kin \in Modes /\ program \in Programs
  /\ gc \in GcStates
  /\ planner \in Vectors /\ machine \in Vectors
  /\ coords \in [Stored -> Vectors]
  /\ mode \in {"Idle", "Cycle", "Jog", "Alarm", "CheckMode"}
  /\ abort \in BOOLEAN /\ restored \in BOOLEAN
  /\ out \in [spindle : BOOLEAN, coolant : BOOLEAN, pins : SUBSET Pins]
  /\ BlockTypes

\* Where a line that moves ends, in the modes it is executed under: with the modes of
\* the block before they are set, with those of the parser after.
EndsWhereSaid(system) ==
  (/\ Moves(block) /\ block.motion \notin Probes
   /\ block.nonModal \in {"NoAction", "Dwell", "SetHome0", "SetHome1", "AbsoluteOverride"})
  => \A a \in Axes :
       block.xyz[a] =
         IF a \notin block.named THEN gc.position[a]
         ELSE IF block.nonModal = "AbsoluteOverride" THEN block.said[a]
         ELSE IF block.incremental THEN gc.position[a] + block.said[a]
         ELSE block.said[a] + system[a] + gc.offset[a] + Length(a)

\* What G92 and G10 L20 will store makes the position the one they say.
OffsetsWillSay ==
  block.axis = "NonModal" =>
    \A a \in block.named :
      /\ block.nonModal = "SetCoordinateOffset" =>
           block.xyz[a] = gc.position[a] - block.system[a] - block.said[a] - Length(a)
      /\ block.nonModal = "SetCoordinateData" /\ block.twenty =>
           block.data[a] = gc.position[a] - gc.offset[a] - block.said[a] - Length(a)

LinesSaid ==
  /\ block.at = "modes" => EndsWhereSaid(block.system) /\ OffsetsWillSay
  /\ block.at = "motion" => EndsWhereSaid(gc.system)

\* A value that a field of a line that is read can have.
Fits(field, value) ==
  \/ field = "motion" /\ value \in Motions
  \/ field = "nonModal" /\ value \in NonModals
  \/ field = "plane" /\ value \in Planes
  \/ field \in {"incremental", "inverseTime", "inches"} /\ value \in BOOLEAN
  \/ field = "toolLength" /\ value \in ToolLengths
  \/ field = "coord" /\ value \in Systems
  \/ field = "flow" /\ value \in Flows
  \/ field = "spindle" /\ value \in Spindles
  \/ field = "coolant" /\ value \in Coolants
  \/ field = "io" /\ value \in Outputs
  \/ field = "paper" /\ value \in Papers
  \/ field = "servo" /\ value \in Servos
  \/ field = "ignored" /\ value = "none"

Sound(c) ==
  /\ c.group \in Int /\ Fits(c.field, c.value)
  /\ c.axis \in {"asis", "MotionMode", "NonModal", "ToolLength"}

-----------------------------------------------------------------------------
\* What a command word is made of.
LEMMA Made ==
  ASSUME NEW g \in Int, NEW f, NEW v, Fits(f, v)
  PROVE  /\ Sound(Command(g, f, v))
         /\ \A x \in {"MotionMode", "NonModal", "ToolLength"} :
              Sound(Takes(Command(g, f, v), x)) /\ Sound(TakesAlone(Command(g, f, v), x))
BY DEF Sound, Command, Takes, TakesAlone

\* The values that the words of a letter give their field.
LEMMA FieldValues ==
  /\ \A v \in Motions : Fits("motion", v)
  /\ \A v \in NonModals : Fits("nonModal", v)
  /\ \A v \in SUBSET Axes : Fits("plane", v)
  /\ \A v \in BOOLEAN : Fits("incremental", v) /\ Fits("inverseTime", v) /\ Fits("inches", v)
  /\ \A v \in ToolLengths : Fits("toolLength", v)
  /\ \A v \in Systems : Fits("coord", v)
  /\ \A v \in Flows : Fits("flow", v)
  /\ \A v \in Spindles : Fits("spindle", v)
  /\ \A v \in Coolants : Fits("coolant", v)
  /\ \A v \in Outputs : Fits("io", v)
  /\ \A v \in Papers : Fits("paper", v)
  /\ \A v \in Servos : Fits("servo", v)
  /\ Fits("ignored", "none")
BY DEF Fits, Planes

\* Every G word of the first two groups that is supported sets a field to one of its values.
LEMMA GActionSound ==
  ASSUME NEW i \in Int, NEW m \in Int
  PROVE  GAction(i, m) = Unsupported \/ Sound(GAction(i, m))
<1> DEFINE Moved == {"Seek", "Linear", "CwArc", "CcwArc", "ProbeToward", "ProbeTowardNoError", "ProbeAway"}
<1>1. \A n \in Moved : /\ Sound(Takes(Command(1, "motion", n), "MotionMode"))
                        /\ Sound(TakesAlone(Command(1, "motion", n), "MotionMode"))
  BY Made, FieldValues DEF Motions, Arcs, Probes
<1>2. Sound(Command(1, "motion", "None"))
  BY Made, FieldValues DEF Motions
<1>3. \A n \in NonModals : /\ Sound(Command(0, "nonModal", n))
                            /\ Sound(TakesAlone(Command(0, "nonModal", n), "NonModal"))
  BY Made, FieldValues
<1> QED BY <1>1, <1>2, <1>3 DEF GAction, NonModals

\* So does every G word that sets a mode.
LEMMA GModeSound ==
  ASSUME NEW i \in Int, NEW m \in Int
  PROVE  GMode(i, m) = Unsupported \/ Sound(GMode(i, m))
<1>1. \A p \in {{"X", "Y"}, {"Z", "X"}, {"Y", "Z"}} : Sound(Command(2, "plane", p))
  BY Made, FieldValues DEF Axes
<1>2. \A b \in BOOLEAN : /\ Sound(Command(3, "incremental", b))
                          /\ Sound(Command(5, "inverseTime", b))
                          /\ Sound(Command(6, "inches", b))
  BY Made, FieldValues
<1>3. \A g \in Int : Sound(Command(g, "ignored", "none"))
  BY Made, FieldValues
<1>4. \A t \in ToolLengths : Sound(TakesAlone(Command(8, "toolLength", t), "ToolLength"))
  BY Made, FieldValues
<1>5. \A c \in Systems : Sound(Command(9, "coord", c))
  BY Made, FieldValues
<1>6. i \in 17..19 => Sound(Command(2, "plane", CASE i = 17 -> {"X", "Y"} [] i = 18 -> {"Z", "X"}
                                                     [] i = 19 -> {"Y", "Z"}))
  <2>1. i \in 17..19 => i \in {17, 18, 19}
    OBVIOUS
  <2> QED BY <1>1, <2>1
<1>7. i \in 54..59 =>
        Sound(Command(9, "coord", CASE i = 54 -> "G54" [] i = 55 -> "G55" [] i = 56 -> "G56"
                                    [] i = 57 -> "G57" [] i = 58 -> "G58" [] i = 59 -> "G59"))
  <2>1. i \in 54..59 => i \in {54, 55, 56, 57, 58, 59}
    OBVIOUS
  <2> QED BY <1>5, <2>1 DEF Systems
<1>8. /\ Sound(Command(3, "incremental", i = 91))
      /\ Sound(Command(5, "inverseTime", i = 93))
      /\ Sound(Command(6, "inches", i = 20))
  BY <1>2, Zenon
<1> QED BY <1>3, <1>4, <1>6, <1>7, <1>8 DEF GMode, ToolLengths

\* And every M word.
LEMMA MCommandSound ==
  ASSUME NEW i \in Int
  PROVE  MCommand(i) = Unsupported \/ Sound(MCommand(i))
<1>1. \A g \in Int : Sound(Command(g, "ignored", "none"))
  BY Made, FieldValues
<1>2. \A v \in Flows : Sound(Command(11, "flow", v))
  BY Made, FieldValues
<1>3. \A v \in Spindles : Sound(Command(12, "spindle", v))
  BY Made, FieldValues
<1>4. \A v \in Coolants : Sound(Command(13, "coolant", v))
  BY Made, FieldValues
<1>5. \A v \in Outputs : Sound(Command(15, "io", v))
  BY Made, FieldValues
<1>6. \A v \in Papers : Sound(Command(16, "paper", v))
  BY Made, FieldValues
<1>7. \A v \in Servos : Sound(Command(17, "servo", v))
  BY Made, FieldValues
<1>8. i \in {7, 8, 9} => <<"M7", "M8", "M9">>[i - 6] \in Coolants
  BY DEF Coolants
<1>9. i \in 62..65 => <<"OnSync", "OffSync", "OnImmediate", "OffImmediate">>[i - 61] \in Outputs
  <2>1. i \in 62..65 => i \in {62, 63, 64, 65}
    OBVIOUS
  <2> QED BY <2>1 DEF Outputs, Digital
<1> QED BY <1>1, <1>2, <1>3, <1>4, <1>5, <1>6, <1>7, <1>8, <1>9
        DEF MCommand, Flows, Spindles, Outputs, Analog, Papers, Servos

\* A line that is read stays one when a field gets one of its values.
LEMMA FieldSet ==
  ASSUME NEW b \in Reading, NEW f, NEW v, Fits(f, v)
  PROVE  /\ [b EXCEPT ![f] = v] \in Reading
         /\ [b EXCEPT ![f] = v].val = b.val
<1>1. CASE f = "motion" /\ v \in Motions
  BY <1>1 DEF Reading
<1>2. CASE f = "nonModal" /\ v \in NonModals
  BY <1>2 DEF Reading
<1>3. CASE f = "plane" /\ v \in Planes
  BY <1>3 DEF Reading
<1>4. CASE f = "incremental" /\ v \in BOOLEAN
  BY <1>4 DEF Reading
<1>5. CASE f = "inverseTime" /\ v \in BOOLEAN
  BY <1>5 DEF Reading
<1>6. CASE f = "inches" /\ v \in BOOLEAN
  BY <1>6 DEF Reading
<1>7. CASE f = "toolLength" /\ v \in ToolLengths
  BY <1>7 DEF Reading
<1>8. CASE f = "coord" /\ v \in Systems
  BY <1>8 DEF Reading
<1>9. CASE f = "flow" /\ v \in Flows
  BY <1>9 DEF Reading
<1>10. CASE f = "spindle" /\ v \in Spindles
  BY <1>10 DEF Reading
<1>11. CASE f = "coolant" /\ v \in Coolants
  BY <1>11 DEF Reading
<1>12. CASE f = "io" /\ v \in Outputs
  BY <1>12 DEF Reading
<1>13. CASE f = "paper" /\ v \in Papers
  BY <1>13 DEF Reading
<1>14. CASE f = "servo" /\ v \in Servos
  BY <1>14 DEF Reading
<1>15. CASE f = "ignored" /\ v = "none"
  BY <1>15 DEF Reading
<1> QED BY <1>1, <1>2, <1>3, <1>4, <1>5, <1>6, <1>7, <1>8, <1>9, <1>10, <1>11, <1>12, <1>13, <1>14,
           <1>15 DEF Fits

\* A line that takes a command stays a line, with the values it had.
LEMMA CommandTaken ==
  ASSUME block \in Reading, NEW c, Sound(c)
  PROVE  WithCommand(c) \in Reading /\ WithCommand(c).val = block.val
<1> DEFINE b == [block EXCEPT ![c.field] = c.value]
           x == IF c.axis = "asis" THEN block.axis ELSE c.axis
           g == block.groups \cup {c.group}
<1>1. b \in Reading /\ b.val = block.val
  BY FieldSet DEF Sound
<1>2. c.field \notin {"groups", "axis"}
  BY DEF Sound, Fits
<1>3. WithCommand(c) = [b EXCEPT !.groups = g, !.axis = x]
  BY <1>2 DEF WithCommand
<1>4. x \in AxisCommands /\ g \in SUBSET Int
  BY DEF Sound, Reading, AxisCommands
<1> HIDE DEF b, x, g
<1> QED BY <1>1, <1>3, <1>4 DEF Reading

\* A whole number of hundredths has a byte and a mantissa that are whole.
LEMMA WordParts ==
  ASSUME NEW v \in Int
  PROVE  Byte(v) \in 0..255 /\ Mantissa(v) \in Int
<1>1. v \div 100 \in Int
  OBVIOUS
<1>2. Byte(v) \in 0..255
  BY <1>1 DEF Byte
<1>3. 100 * Byte(v) \in Int
  BY <1>2
<1> HIDE DEF Byte
<1>4. Mantissa(v) \in Int
  BY <1>2, <1>3 DEF Mantissa
<1> QED BY <1>2, <1>4

\* The initial state has its types.
LEMMA InitTypes == Init => Types
<1> SUFFICES ASSUME Init PROVE Types
  OBVIOUS
<1>1. Origin \in Vectors
  BY DEF Origin, Vectors
<1>2. coords \in [Stored -> Vectors]
  BY <1>1 DEF Init
<1>3. gc \in GcStates
  BY <1>1, <1>2 DEF Init, Cleared, GcStates, Motions, Planes, Axes, ToolLengths, Systems, Stored, Spindles
<1>4. out \in [spindle : BOOLEAN, coolant : BOOLEAN, pins : SUBSET Pins]
  BY DEF Init, AllOff
<1> QED BY <1>1, <1>2, <1>3, <1>4, GCodeAssumption DEF Init, Types, BlockTypes, GCodeAssumption

\* A line that starts has the modes of the parser, and its words keep its types.
LEMMA StartTypes == ASSUME Types, StartLine PROVE Types'
<1>1. block' \in Reading /\ block'.val = [l \in ValueLetters |-> 0]
  <2>1. PICK jog \in BOOLEAN :
          block' = [at |-> "parse", jog |-> jog, groups |-> {}, words |-> {},
                     val |-> [l \in ValueLetters |-> 0], axis |-> "None",
                     motion |-> IF jog THEN "Linear" ELSE gc.motion,
                     inverseTime |-> ~jog /\ gc.inverseTime,
                     plane |-> gc.plane, incremental |-> gc.incremental,
                     inches |-> gc.inches, toolLength |-> gc.toolLength,
                     coord |-> gc.coord, spindle |-> gc.spindle, coolant |-> "None",
                     nonModal |-> "NoAction", flow |-> "Running", io |-> "none",
                     paper |-> "none", servo |-> "none", ignored |-> "none"]
    BY DEF StartLine
  <2>2. (~jog /\ gc.inverseTime) \in BOOLEAN
    OBVIOUS
  <2>3. (IF jog THEN "Linear" ELSE gc.motion) \in Motions
    BY DEF Types, GcStates, Motions
  <2> QED BY <2>1, <2>2, <2>3 DEF Types, GcStates, Reading, AxisCommands, Coolants, NonModals, Flows,
              Outputs, Papers, Servos
<1>2. block'.val["F"] = 0
  BY <1>1 DEF ValueLetters
<1> QED BY <1>1, <1>2 DEF StartLine, Types, BlockTypes

\* A line that has read a word is still one that is read, or it is refused.
LEMMA WordRead ==
  ASSUME Types, Word
  PROVE  /\ gc' \in GcStates
         /\ block' = NoLine \/ (block' \in Reading /\ block'.val["F"] >= 0)
<1>1. block \in Reading /\ block.val["F"] >= 0
  BY DEF Types, BlockTypes, Word, NoLine, Executing
<1>2. PICK w \in program :
        /\ block' = IF ~WordFits(w) THEN NoLine
                    ELSE IF w[1] \in {"G", "M"} THEN WithCommand(CommandOf(w))
                    ELSE WithValue(w)
        /\ gc' = IF w[1] = "T" /\ w[2] <= 25500 THEN [gc EXCEPT !.tool = Byte(w[2])] ELSE gc
  BY DEF Word
<1> DEFINE letter == w[1]
           v == w[2]
<1>3. letter \in {"G", "M"} \cup ValueLetters /\ v \in Int
  BY <1>2, ProgramsAssumption DEF Types
<1>4. /\ \/ block' = NoLine
         \/ Accepted(CommandOf(w)) /\ block' = WithCommand(CommandOf(w))
         \/ /\ letter \notin {"G", "M"} /\ (letter \in NonNegative => v >= 0)
            /\ block' = WithValue(w)
      /\ gc' = gc \/ gc' = [gc EXCEPT !.tool = Byte(v)]
  BY <1>2 DEF WordFits
<1>5. Byte(v) \in 0..255 /\ Byte(v) \in Int /\ Mantissa(v) \in Int
  BY <1>3, WordParts
<1>6. CommandOf(w) = Unsupported \/ Sound(CommandOf(w))
  BY <1>5, GActionSound, GModeSound, MCommandSound DEF CommandOf
<1> HIDE DEF letter, v
<1>7. gc' \in GcStates
  BY <1>4, <1>5 DEF Types, GcStates
<1>8. block' = NoLine \/ (block' \in Reading /\ block'.val["F"] >= 0)
  <2>1. CASE block' = NoLine
    BY <2>1
  <2>2. CASE Accepted(CommandOf(w)) /\ block' = WithCommand(CommandOf(w))
    BY <1>1, <1>6, <2>2, CommandTaken DEF Accepted
  <2>3. CASE /\ letter \notin {"G", "M"} /\ (letter \in NonNegative => v >= 0)
             /\ block' = WithValue(w)
    <3> DEFINE val == [block.val EXCEPT ![letter] = v]
               words == block.words \cup {letter}
    <3>1. block' = [block EXCEPT !.words = words, !.val = val]
      BY <2>3 DEF WithValue, letter, v
    <3>2. val \in [ValueLetters -> Int] /\ words \in SUBSET ValueLetters
      BY <1>1, <1>3, <2>3 DEF Reading
    <3>3. val["F"] >= 0
      BY <1>1, <1>3, <2>3 DEF Reading, NonNegative, ValueLetters
    <3> HIDE DEF val, words
    <3>4. block' \in Reading /\ block'.val = val
      BY <1>1, <3>1, <3>2 DEF Reading
    <3> QED BY <3>3, <3>4
  <2> QED BY <1>4, <2>1, <2>2, <2>3
<1> QED BY <1>7, <1>8

\* A word keeps the types.
LEMMA WordTypes == ASSUME Types, Word PROVE Types'
<1>1. BlockTypes'
  BY WordRead DEF BlockTypes
<1> QED BY <1>1, WordRead DEF Word, Types

\* A length stays a whole number, and a positive one positive, in either unit.
LEMMA LengthTypes ==
  ASSUME NEW b, NEW v \in Int
  PROVE  Millimetres(b, v) \in Int /\ (v >= 0 => Millimetres(b, v) \in Nat)
<1>1. (v * 254) \div 10 \in Int /\ (v >= 0 => (v * 254) \div 10 >= 0)
  OBVIOUS
<1> QED BY <1>1 DEF Millimetres

\* The system that G10 writes is one of the six, or none.
LEMMA ChosenSystem ==
  ASSUME NEW b \in Reading
  PROVE  Chosen(b) \in Systems \cup {"none"}
<1> DEFINE p == Byte(b.val["P"])
<1>1. b.val["P"] \in Int /\ b.coord \in Systems
  BY DEF Reading, ValueLetters
<1>2. p \in 0..255
  BY <1>1, WordParts
<1> HIDE DEF p
<1>3. p = 0 \/ p > 6 \/ p \in {1, 2, 3, 4, 5, 6}
  BY <1>2
<1>4. p \in {1, 2, 3, 4, 5, 6} => <<"G54", "G55", "G56", "G57", "G58", "G59">>[p] \in Systems
  BY DEF Systems
<1>5. Chosen(b) = IF p = 0 THEN b.coord
                  ELSE IF p > 6 THEN "none"
                  ELSE <<"G54", "G55", "G56", "G57", "G58", "G59">>[p]
  BY DEF Chosen, p
<1> QED BY <1>1, <1>3, <1>4, <1>5

\* The vectors of the parser state and the stored ones.
LEMMA StateVectors ==
  ASSUME Types
  PROVE  /\ gc.position \in Vectors /\ gc.system \in Vectors /\ gc.offset \in Vectors
         /\ \A a \in Axes : gc.position[a] \in Int /\ gc.offset[a] \in Int /\ Length(a) \in Int
         /\ \A c \in Stored, a \in Axes : coords[c][a] \in Int
<1>1. gc.position \in Vectors /\ gc.system \in Vectors /\ gc.offset \in Vectors /\ gc.tlo \in Int
  BY DEF Types, GcStates
<1>2. \A c \in Stored : coords[c] \in Vectors
  BY DEF Types
<1> QED BY <1>1, <1>2 DEF Vectors, Length

\* The coordinate system of a block is a vector.
LEMMA SystemTypes ==
  ASSUME Types, NEW b \in Reading
  PROVE  BlockSystem(b) \in Vectors /\ \A a \in Axes : BlockSystem(b)[a] \in Int
<1>1. b.coord \in Stored
  BY DEF Reading, Stored
<1> QED BY <1>1, StateVectors DEF BlockSystem, Types, Vectors

\* The point where the motion of a block ends is a vector.
LEMMA TargetTypes ==
  ASSUME Types, NEW b \in Reading
  PROVE  Target(b) \in Vectors
<1> SUFFICES ASSUME NEW a \in Axes PROVE Target(b)[a] \in Int
  BY DEF Target, Vectors
<1>1. b.val[a] \in Int
  BY DEF Reading, ValueLetters
<1>2. Millimetres(b, b.val[a]) \in Int
  BY <1>1, LengthTypes
<1>3. gc.position[a] \in Int /\ gc.offset[a] \in Int /\ Length(a) \in Int /\ BlockSystem(b)[a] \in Int
  BY StateVectors, SystemTypes
<1> HIDE DEF Millimetres, BlockSystem, Length
<1> QED BY <1>2, <1>3 DEF Target

\* What a block stores, or the stored position it goes to, is a vector.
LEMMA DataTypes ==
  ASSUME Types, NEW b \in Reading, b.nonModal = "SetCoordinateData" => Chosen(b) \in Systems
  PROVE  CoordData(b) \in Vectors
<1> SUFFICES ASSUME NEW a \in Axes PROVE CoordData(b)[a] \in Int
  BY DEF CoordData, Vectors
<1>1. b.val[a] \in Int
  BY DEF Reading, ValueLetters
<1>2. Millimetres(b, b.val[a]) \in Int
  BY <1>1, LengthTypes
<1>3. gc.position[a] \in Int /\ gc.offset[a] \in Int /\ Length(a) \in Int
      /\ \A c \in Stored : coords[c][a] \in Int
  BY StateVectors
<1>4. Zero(a, Millimetres(b, b.val[a])) \in Int
  BY <1>2, <1>3 DEF Zero
<1>5. Chosen(b) \in Systems => coords[Chosen(b)][a] \in Int
  BY <1>3 DEF Stored
<1>6. coords["G28"][a] \in Int /\ coords["G30"][a] \in Int
  BY <1>3 DEF Stored
<1> HIDE DEF Millimetres, Zero, Chosen
<1>7. CASE b.nonModal = "SetCoordinateData"
  BY <1>2, <1>4, <1>5, <1>7 DEF CoordData
<1>8. CASE b.nonModal \in {"GoHome0", "GoHome1"}
  BY <1>3, <1>6, <1>8 DEF CoordData
<1>9. CASE b.nonModal \notin {"SetCoordinateData", "GoHome0", "GoHome1"}
  BY <1>9 DEF CoordData
<1> QED BY <1>7, <1>8, <1>9

\* The feed rate of a block is never negative.
LEMMA FeedTypes ==
  ASSUME Types, NEW b \in Reading, b.val["F"] >= 0
  PROVE  Feed(b) \in Nat
<1>1. b.val["F"] \in Nat
  BY DEF Reading, ValueLetters
<1>2. Millimetres(b, b.val["F"]) \in Nat
  BY <1>1, LengthTypes
<1>3. gc.feed \in Nat
  BY DEF Types, GcStates
<1> HIDE DEF Millimetres
<1> QED BY <1>1, <1>2, <1>3 DEF Feed

\* A block that passes the checks is one to execute.
LEMMA CheckedTypes ==
  ASSUME Types, block \in Reading, block.val["F"] >= 0, NEW fits, ~Rejected(block, fits)
  PROVE  /\ Checked(block) \in Executing
         /\ block.nonModal = "SetCoordinateData" => Chosen(block) \in Systems
<1>1. block.nonModal = "SetCoordinateData" => Chosen(block) \in Systems
  BY ChosenSystem DEF Rejected, BadCommand
<1>2. Target(block) \in Vectors /\ BlockSystem(block) \in Vectors /\ CoordData(block) \in Vectors
      /\ Chosen(block) \in Systems \cup {"none"} /\ Feed(block) \in Nat
  BY <1>1, TargetTypes, SystemTypes, DataTypes, ChosenSystem, FeedTypes
<1>3. AxisWords(block) \in SUBSET Axes /\ Axis(block) \in AxisCommands
  BY DEF AxisWords, Axis, AxisCommand, AxisCommands, Reading
<1>4. \A l \in ValueLetters : block.val[l] \in Int
  BY DEF Reading
<1>5. [a \in Axes |-> Millimetres(block, block.val[a])] \in Vectors
  BY <1>4, LengthTypes DEF Vectors, ValueLetters
<1>6. (IF "S" \in block.words THEN block.val["S"] ELSE gc.speed) \in Int
  BY <1>4 DEF Types, GcStates, ValueLetters
<1>7. block.val["P"] \in Int /\ Byte(block.val["E"]) \in Int
  <2>1. block.val["P"] \in Int /\ block.val["E"] \in Int
    BY <1>4 DEF ValueLetters
  <2>2. Byte(block.val["E"]) \in 0..255
    BY <2>1, WordParts
  <2> QED BY <2>1, <2>2
<1>8. (Byte(block.val["L"]) = 20) \in BOOLEAN
  OBVIOUS
<1>9. (IF block.jog THEN "jog" ELSE "modes") \in {"modes", "motion", "flow", "jog"}
  OBVIOUS
<1> HIDE DEF Millimetres, Target, BlockSystem, CoordData, Chosen, Feed, Axis, AxisWords, Byte
<1>10. Checked(block) \in Executing
  BY <1>2, <1>3, <1>5, <1>6, <1>7, <1>8, <1>9 DEF Checked, Executing, Reading
<1> QED BY <1>1, <1>10

\* The end of a line keeps the types.
LEMMA EndTypes == ASSUME Types, EndOfLine PROVE Types'
<1>1. block \in Reading /\ block.val["F"] >= 0
  BY DEF Types, BlockTypes, EndOfLine, NoLine, Executing
<1>2. PICK fits \in BOOLEAN : block' = IF Rejected(block, fits) THEN NoLine ELSE Checked(block)
  BY DEF EndOfLine
<1>3. Checked(block).nonModal = block.nonModal /\ Checked(block).index = Chosen(block)
  BY DEF Checked
<1>4. BlockTypes'
  BY <1>1, <1>2, <1>3, CheckedTypes DEF BlockTypes
<1> QED BY <1>4 DEF EndOfLine, Types

\* Both transforms give a vector for a vector.
LEMMA TransformTypes ==
  ASSUME NEW k \in Modes, NEW p \in Vectors
  PROVE  CartesianToMotors(k, p) \in Vectors /\ MotorsToCartesian(k, p) \in Vectors
<1>1. \A v \in Vectors : Swapped(v) \in Vectors /\ Belts(v) \in Vectors
  BY SwappedTwice, BeltsUndone
<1>2. ASSUME NEW v \in Vectors PROVE Tool(v) \in Vectors
  <2>1. v.X \in Int /\ v.Y \in Int /\ v.Z \in Int
    BY DEF Vectors, Axes
  <2>2. (v.X - v.Y) \div 2 \in Int /\ (-(v.X + v.Y)) \div 2 \in Int
    BY <2>1
  <2> QED BY <2>1, <2>2 DEF Tool, Vectors, Axes
<1> QED BY <1>1, <1>2 DEF CartesianToMotors, MotorsToCartesian, Modes

\* The modes of a block are modes of the parser.
LEMMA ModesTypes ==
  ASSUME Types, block \in Executing
  PROVE  FirstModes(block) \in GcStates /\ OtherModes(block) \in GcStates
<1>1. Coolant(block) \in BOOLEAN
  BY DEF Coolant, Types, GcStates
<1>2. FirstModes(block) \in GcStates
  BY <1>1 DEF FirstModes, Types, GcStates, Executing
<1>3. Origin \in Vectors
  BY DEF Origin, Vectors
<1>4. block.xyz["Z"] \in Int
  BY DEF Executing, Vectors, Axes
<1> DEFINE g == FirstModes(block)
           toolLength == IF block.axis = "ToolLength" THEN block.toolLength ELSE g.toolLength
           tlo == IF ~(block.axis = "ToolLength") THEN g.tlo
                  ELSE IF block.toolLength = "Cancel" THEN 0 ELSE block.xyz["Z"]
           system == IF block.nonModal = "SetCoordinateData" /\ block.index = block.coord THEN block.data
                     ELSE block.system
           offset == CASE block.nonModal = "SetCoordinateOffset" -> block.xyz
                       [] block.nonModal = "ResetCoordinateOffset" -> Origin
                       [] OTHER -> g.offset
<1>5. OtherModes(block) =
        [g EXCEPT !.plane = block.plane, !.inches = block.inches, !.incremental = block.incremental,
                  !.toolLength = toolLength, !.tlo = tlo, !.coord = block.coord,
                  !.system = system, !.offset = offset]
  BY <1>2 DEF OtherModes, GcStates
<1>6. /\ toolLength \in ToolLengths /\ tlo \in Int /\ system \in Vectors /\ offset \in Vectors
      /\ block.plane \in Planes /\ block.inches \in BOOLEAN /\ block.incremental \in BOOLEAN
      /\ block.coord \in Systems
  BY <1>2, <1>3, <1>4 DEF GcStates, Executing
<1>7. g \in GcStates
  BY <1>2
<1> HIDE DEF g, toolLength, tlo, system, offset
<1>8. OtherModes(block) \in GcStates
  <2>1. [g EXCEPT !.plane = block.plane, !.inches = block.inches,
                  !.incremental = block.incremental] \in GcStates
    BY <1>6, <1>7 DEF GcStates
  <2> DEFINE g1 == [g EXCEPT !.plane = block.plane, !.inches = block.inches,
                             !.incremental = block.incremental]
             g2 == [g1 EXCEPT !.toolLength = toolLength, !.tlo = tlo, !.coord = block.coord]
  <2> HIDE DEF g1
  <2>2. g1 \in GcStates
    BY <2>1 DEF g1
  <2>3. g2 \in GcStates
    BY <1>6, <2>2 DEF GcStates
  <2>4. OtherModes(block) = [g2 EXCEPT !.system = system, !.offset = offset]
    BY <1>5 DEF g1
  <2> HIDE DEF g2
  <2> QED BY <1>6, <2>3, <2>4 DEF GcStates
<1> QED BY <1>2, <1>8

\* What the block stores and switches has its types; only an output with a pin is
\* switched on.
LEMMA OutTypes ==
  ASSUME Types, block \in Executing
  PROVE  Switched(block) \in [spindle : BOOLEAN, coolant : BOOLEAN, pins : SUBSET Pins]
<1>1. out.spindle \in BOOLEAN /\ out.coolant \in BOOLEAN /\ out.pins \in SUBSET Pins
  BY DEF Types
<1>2. Coolant(block) \in BOOLEAN
  BY DEF Coolant, Types, GcStates
<1>3. TurnsOn(block) /\ ~IoFails(block) => block.p \div 100 \in Pins
  BY DEF IoFails, TurnsOn, Digital
<1> HIDE DEF Coolant, IoFails, TurnsOn
<1> QED BY <1>1, <1>2, <1>3 DEF Switched

\* The stored systems stay vectors.
LEMMA CoordsTypes ==
  ASSUME Types, block \in Executing, block.nonModal = "SetCoordinateData" => block.index \in Systems
  PROVE  NewCoords(block) \in [Stored -> Vectors]
BY DEF NewCoords, Types, GcStates, Executing, Stored

\* A block goes from one step of its execution to the next as it is.
LEMMA NextPlace ==
  ASSUME block \in Executing, NEW p \in {"motion", "flow"}
  PROVE  /\ [block EXCEPT !.at = p] \in Executing
         /\ [block EXCEPT !.at = p].at = p
         /\ \A f \in {"axis", "named", "said", "xyz", "data", "index", "system", "motion",
                      "incremental", "nonModal", "twenty", "coord", "flow", "spindle"} :
              [block EXCEPT !.at = p][f] = block[f]
BY DEF Executing

\* The setting of the modes keeps the types.
LEMMA SetModesTypes == ASSUME Types, SetModes PROVE Types'
<1>1. block \in Executing /\ (block.nonModal = "SetCoordinateData" => block.index \in Systems)
  BY DEF Types, BlockTypes, SetModes, NoLine, Reading
<1>2. gc' \in GcStates /\ coords' \in [Stored -> Vectors]
  BY <1>1, ModesTypes, CoordsTypes DEF SetModes, Types
<1>3. out' \in [spindle : BOOLEAN, coolant : BOOLEAN, pins : SUBSET Pins]
  BY <1>1, OutTypes DEF SetModes
<1>4. BlockTypes'
  <2>1. block' = NoLine \/ block' = [block EXCEPT !.at = "motion"]
    BY DEF SetModes
  <2> QED BY <1>1, <2>1, NextPlace DEF BlockTypes
<1>5. restored' \in BOOLEAN
  BY DEF SetModes, Types
<1> QED BY <1>2, <1>3, <1>4, <1>5 DEF SetModes, Types

\* The parser state after a motion.
LEMMA GcMoved ==
  ASSUME NEW g \in GcStates, NEW m \in Motions, NEW p \in Vectors
  PROVE  /\ [g EXCEPT !.motion = m, !.position = p] \in GcStates
         /\ [g EXCEPT !.motion = m, !.position = p].position = p
BY DEF GcStates

\* A motion keeps the types.
LEMMA TravelTypes == ASSUME Types, Travel PROVE Types'
<1>1. block \in Executing /\ (block.nonModal = "SetCoordinateData" => block.index \in Systems)
  BY DEF Types, BlockTypes, Travel, NoLine, Reading
<1> DEFINE moves == Homes(block) \/ Moves(block)
           last == IF Moves(block) THEN block.xyz ELSE block.data
<1>2. last \in Vectors
  BY <1>1 DEF Executing
<1>3. /\ planner' = IF moves THEN Planned(last) ELSE planner
      /\ gc' = [gc EXCEPT !.motion = block.motion, !.position = IF moves THEN last ELSE @]
  BY DEF Travel
<1>4. planner' \in Vectors
  BY <1>2, <1>3, TransformTypes DEF Planned, Types
<1>5. gc' \in GcStates
  <2> DEFINE to == IF moves THEN last ELSE gc.position
  <2>1. to \in Vectors /\ block.motion \in Motions /\ gc \in GcStates
    BY <1>1, <1>2 DEF Types, GcStates, Executing
  <2>2. gc' = [gc EXCEPT !.motion = block.motion, !.position = to]
    BY <1>3, <2>1 DEF GcStates
  <2> HIDE DEF to
  <2> QED BY <2>1, <2>2, GcMoved
<1>6. BlockTypes'
  BY <1>1, NextPlace DEF Travel, BlockTypes
<1> QED BY <1>4, <1>5, <1>6 DEF Travel, Types

\* A probe cycle keeps the types.
LEMMA ProbeTypes == ASSUME Types, ProbeCycle PROVE Types'
<1>1. block \in Executing /\ (block.nonModal = "SetCoordinateData" => block.index \in Systems)
  BY DEF Types, BlockTypes, ProbeCycle, NoLine, Reading
<1> DEFINE end == CartesianToMotors(kin, block.xyz)
<1>2. end \in Vectors /\ block.xyz \in Vectors
  BY <1>1, TransformTypes DEF Executing, Types
<1>3. ASSUME NEW p \in Vectors, gc' = ProbedAt(p) PROVE gc' \in GcStates
  BY <1>1, <1>3, GcMoved DEF ProbedAt, Types, Executing
<1>4. ASSUME NEW m \in Vectors, ProbeStops(m)
      PROVE  gc' \in GcStates /\ machine' \in Vectors /\ planner' \in Vectors
  BY <1>3, <1>4, TransformTypes DEF ProbeStops, Types
<1>5. gc' \in GcStates /\ machine' \in Vectors /\ planner' \in Vectors
      /\ mode' \in {"Idle", "Cycle", "Jog", "Alarm", "CheckMode"}
  <2>0. gc.position \in Vectors /\ machine \in Vectors /\ planner \in Vectors
    BY DEF Types, GcStates
  <2>1. CASE UNCHANGED <<planner, machine, mode>>
             /\ gc' = ProbedAt(IF mode = "CheckMode" THEN block.xyz ELSE gc.position)
    BY <1>2, <1>3, <2>0, <2>1 DEF Types
  <2>2. CASE UNCHANGED <<planner, machine>> /\ mode' = "Alarm" /\ gc' = ProbedAt(gc.position)
    BY <1>3, <2>0, <2>2
  <2>3. CASE (\E m \in {machine, end} : ProbeStops(m)) /\ UNCHANGED mode
    BY <1>2, <1>4, <2>0, <2>3 DEF Types
  <2>4. CASE ProbeStops(end) /\ mode' \in {mode, "Alarm"}
    BY <1>2, <1>4, <2>4 DEF Types
  <2> QED BY <2>1, <2>2, <2>3, <2>4 DEF ProbeCycle
<1>6. BlockTypes'
  BY <1>1, NextPlace DEF ProbeCycle, BlockTypes
<1> QED BY <1>5, <1>6 DEF ProbeCycle, Types

\* The program flow keeps the types.
LEMMA FlowTypes == ASSUME Types, Flow PROVE Types'
<1> DEFINE ends == block.flow = "Completed"
           reloads == ends /\ mode # "CheckMode"
<1>1. /\ gc' = IF ~ends THEN gc
               ELSE [gc EXCEPT !.motion = "Linear", !.plane = {"X", "Y"},
                               !.incremental = FALSE, !.inverseTime = FALSE,
                               !.coord = "G54", !.spindle = "Disable", !.coolant = FALSE,
                               !.system = IF reloads THEN coords["G54"] ELSE @]
      /\ out' = IF reloads /\ ~abort THEN Stopped ELSE out
      /\ restored' = (restored /\ ~reloads)
  BY DEF Flow
<1>2. coords["G54"] \in Vectors
  BY DEF Types, Stored, Systems
<1>3. gc' \in GcStates
  <2> DEFINE to == IF reloads THEN coords["G54"] ELSE gc.system
  <2>1. to \in Vectors /\ gc \in GcStates
    BY <1>2 DEF Types, GcStates
  <2>2. /\ "Linear" \in Motions /\ {"X", "Y"} \in Planes /\ "G54" \in Systems
        /\ "Disable" \in Spindles
    BY DEF Motions, Planes, Axes, Systems, Spindles
  <2>3. gc' = gc \/ gc' = [gc EXCEPT !.motion = "Linear", !.plane = {"X", "Y"},
                                     !.incremental = FALSE, !.inverseTime = FALSE,
                                     !.coord = "G54", !.spindle = "Disable", !.coolant = FALSE,
                                     !.system = to]
    BY <1>1, <2>1 DEF GcStates
  <2> HIDE DEF to
  <2>4. [gc EXCEPT !.motion = "Linear", !.plane = {"X", "Y"}, !.incremental = FALSE,
                   !.inverseTime = FALSE, !.coord = "G54", !.spindle = "Disable",
                   !.coolant = FALSE, !.system = to] \in GcStates
    BY <2>1, <2>2 DEF GcStates
  <2> QED BY <2>1, <2>3, <2>4
<1>4. out' \in [spindle : BOOLEAN, coolant : BOOLEAN, pins : SUBSET Pins]
  BY <1>1 DEF Types, Stopped
<1>5. restored' \in BOOLEAN
  BY <1>1 DEF Types
<1> QED BY <1>3, <1>4, <1>5 DEF Flow, Types, BlockTypes

\* A jog keeps the types.
LEMMA JogTypes == ASSUME Types, Jog PROVE Types'
<1>1. block.xyz \in Vectors
  BY DEF Types, BlockTypes, Jog, NoLine, Reading, Executing
<1>2. gc' \in GcStates
  BY <1>1 DEF Jog, Types, GcStates
<1>3. planner' \in Vectors
  BY <1>1, TransformTypes DEF Jog, Planned, Types
<1>4. mode' \in {"Idle", "Cycle", "Jog", "Alarm", "CheckMode"}
  BY DEF Jog, Types
<1> QED BY <1>2, <1>3, <1>4 DEF Jog, Types, BlockTypes

\* The rest of the system keeps the types.
LEMMA RestTypes ==
  ASSUME Types, CycleStart \/ Arrive \/ JogCancel \/ Reset \/ Restart \/ CheckMode \/ Unlock \/ Restore
  PROVE  Types'
<1>0. Origin \in Vectors
  BY DEF Origin, Vectors
<1>1. CASE CycleStart \/ Arrive \/ CheckMode \/ Unlock
  BY <1>1 DEF CycleStart, Arrive, CheckMode, Unlock, Types, BlockTypes
<1>2. CASE JogCancel
  <2>1. PICK m \in {machine, planner} :
          machine' = m /\ planner' = m /\ gc' = [gc EXCEPT !.position = MotorsToCartesian(kin, m)]
    BY <1>2 DEF JogCancel
  <2>2. m \in Vectors /\ MotorsToCartesian(kin, m) \in Vectors
    BY <2>1, TransformTypes DEF Types
  <2>3. gc' \in GcStates
    BY <2>1, <2>2 DEF Types, GcStates
  <2> QED BY <1>2, <2>1, <2>2, <2>3 DEF JogCancel, Types, BlockTypes
<1>3. CASE Reset
  <2>1. out' \in [spindle : BOOLEAN, coolant : BOOLEAN, pins : SUBSET Pins]
    BY <1>3 DEF Reset, AllOff
  <2>2. machine' \in Vectors /\ mode' \in {"Idle", "Cycle", "Jog", "Alarm", "CheckMode"}
    BY <1>3 DEF Reset, Types
  <2> QED BY <1>3, <2>1, <2>2 DEF Reset, Types, BlockTypes
<1>4. CASE Restart
  <2>1. Here \in Vectors /\ coords["G54"] \in Vectors
    BY TransformTypes DEF Here, Types, Stored, Systems
  <2>2. gc' \in GcStates
    BY <1>0, <1>4, <2>1 DEF Restart, Cleared, GcStates, Motions, Planes, Axes, ToolLengths, Systems, Spindles
  <2>3. out' \in [spindle : BOOLEAN, coolant : BOOLEAN, pins : SUBSET Pins]
    BY <1>4 DEF Restart, Stopped, Types
  <2>4. planner' \in Vectors /\ mode' \in {"Idle", "Cycle", "Jog", "Alarm", "CheckMode"}
    BY <1>4 DEF Restart, Types
  <2> QED BY <1>4, <2>2, <2>3, <2>4 DEF Restart, Types, BlockTypes
<1>5. CASE Restore
  BY <1>0, <1>5 DEF Restore, Types, BlockTypes
<1> QED BY <1>1, <1>2, <1>3, <1>4, <1>5

\* Every step keeps the types.
LEMMA TypesStep == Types /\ [Next]_vars => Types'
<1> SUFFICES ASSUME Types, [Next]_vars PROVE Types'
  OBVIOUS
<1>1. CASE UNCHANGED vars
  BY <1>1 DEF vars, Types, BlockTypes
<1> QED BY <1>1, StartTypes, WordTypes, EndTypes, SetModesTypes, TravelTypes, ProbeTypes, FlowTypes,
           JogTypes, RestTypes DEF Next

\* The parser state keeps its types in every behaviour, whatever the words of the lines:
\* the fields of gc_state and of the block, the stored systems, the positions; an output
\* without a pin is never on (sys_set_digital, gc_execute_line).
THEOREM TypeCorrect == Spec => []TypeOK
<1>1. Types => TypeOK
  <2> SUFFICES ASSUME Types PROVE TypeOK
    OBVIOUS
  <2>1. block.at \in {"none", "parse", "modes", "motion", "flow", "jog"}
    BY DEF Types, BlockTypes, NoLine, Reading, Executing
  <2> QED BY <2>1 DEF Types, GcStates, TypeOK
<1> QED BY <1>1, InitTypes, TypesStep, PTL DEF Spec

-----------------------------------------------------------------------------
\* Setting the modes leaves the position, and takes the spindle and the coolant of the
\* block.
LEMMA ModesSet ==
  ASSUME Types, block \in Executing, NEW g \in {FirstModes(block), OtherModes(block)}
  PROVE  /\ g.position = gc.position /\ g.spindle = block.spindle
         /\ g.coolant = Coolant(block)
<1>1. FirstModes(block) \in GcStates
  BY ModesTypes
<1>2. FirstModes(block).position = gc.position /\ FirstModes(block).spindle = block.spindle
      /\ FirstModes(block).coolant = Coolant(block)
  BY DEF FirstModes, Types, GcStates
<1>3. OtherModes(block).position = FirstModes(block).position
      /\ OtherModes(block).spindle = FirstModes(block).spindle
      /\ OtherModes(block).coolant = FirstModes(block).coolant
  BY <1>1 DEF OtherModes, GcStates
<1> QED BY <1>2, <1>3

\* A position that is planned is where the queue ends.
LEMMA PlannedEnd ==
  ASSUME Types, NEW p \in Vectors, Runs
  PROVE  MotorsToCartesian(kin, Planned(p)) = p
BY TransformUndone DEF Planned, Types

\* Every step keeps the parser and the planner together.
LEMMA PositionStep == Types /\ PositionIsPlanned /\ [Next]_vars => PositionIsPlanned'
<1> SUFFICES ASSUME Types, PositionIsPlanned, [Next]_vars PROVE PositionIsPlanned'
  OBVIOUS
<1>0. gc \in GcStates
  BY DEF Types
<1>1. CASE UNCHANGED vars
  BY <1>1 DEF vars, PositionIsPlanned
<1>2. CASE StartLine \/ EndOfLine \/ CycleStart \/ Arrive \/ Reset \/ CheckMode \/ Unlock \/ Restore
  BY <1>2 DEF StartLine, EndOfLine, CycleStart, Arrive, Reset, CheckMode, Unlock, Restore, PositionIsPlanned
<1>3. CASE Word
  <2>1. gc'.position = gc.position
    <3>1. PICK w \in program : gc' = gc \/ gc' = [gc EXCEPT !.tool = Byte(w[2])]
      BY <1>3 DEF Word
    <3> QED BY <1>0, <3>1 DEF GcStates
  <2> QED BY <1>3, <2>1 DEF Word, PositionIsPlanned
<1>4. CASE SetModes
  <2>1. block \in Executing
    BY <1>4 DEF Types, BlockTypes, SetModes, NoLine, Reading
  <2>2. gc'.position = gc.position
    BY <1>4, <2>1, ModesSet DEF SetModes
  <2> QED BY <1>4, <2>2 DEF SetModes, PositionIsPlanned
<1>5. CASE Travel
  <2>1. block \in Executing
    BY <1>5 DEF Types, BlockTypes, Travel, NoLine, Reading
  <2> DEFINE moves == Homes(block) \/ Moves(block)
             last == IF Moves(block) THEN block.xyz ELSE block.data
  <2>2. last \in Vectors /\ block.motion \in Motions
    BY <2>1 DEF Executing
  <2>3. /\ planner' = IF moves THEN Planned(last) ELSE planner
        /\ gc' = [gc EXCEPT !.motion = block.motion, !.position = IF moves THEN last ELSE @]
    BY <1>5 DEF Travel
  <2>4. gc'.position = IF moves THEN last ELSE gc.position
    BY <1>0, <2>3 DEF GcStates
  <2>5. UNCHANGED <<kin, mode, abort>>
    BY <1>5 DEF Travel
  <2> HIDE DEF moves, last
  <2>6. CASE moves
    BY <2>2, <2>3, <2>4, <2>5, <2>6, PlannedEnd DEF Runs, PositionIsPlanned
  <2>7. CASE ~moves
    BY <2>3, <2>4, <2>5, <2>7 DEF PositionIsPlanned
  <2> QED BY <2>6, <2>7
<1>6. CASE ProbeCycle
  <2>1. block \in Executing
    BY <1>6 DEF Types, BlockTypes, ProbeCycle, NoLine, Reading
  <2>2. \A p : ProbedAt(p).position = p
    BY <1>0 DEF ProbedAt, GcStates
  <2>3. UNCHANGED <<kin, abort>>
    BY <1>6 DEF ProbeCycle
  <2>4. CASE \E m : ProbeStops(m)
    BY <2>2, <2>3, <2>4 DEF ProbeStops, PositionIsPlanned
  <2>5. CASE UNCHANGED planner /\ Runs /\ gc' = ProbedAt(gc.position)
    BY <2>2, <2>3, <2>5 DEF Runs, PositionIsPlanned
  <2>6. CASE (mode = "CheckMode" \/ abort) /\ UNCHANGED mode
    BY <2>3, <2>6 DEF PositionIsPlanned
  <2> QED BY <1>6, <2>4, <2>5, <2>6 DEF ProbeCycle
<1>7. CASE Flow
  <2>1. gc'.position = gc.position
    BY <1>0, <1>7 DEF Flow, GcStates
  <2> QED BY <1>7, <2>1 DEF Flow, PositionIsPlanned
<1>8. CASE Jog
  <2>1. block.xyz \in Vectors
    BY <1>8 DEF Types, BlockTypes, Jog, NoLine, Reading, Executing
  <2>2. UNCHANGED <<kin, abort>>
    BY <1>8 DEF Jog
  <2>3. CASE UNCHANGED <<gc, planner, mode>>
    BY <2>2, <2>3 DEF PositionIsPlanned
  <2>4. CASE /\ ~abort /\ planner' = Planned(block.xyz)
             /\ gc' = [gc EXCEPT !.position = block.xyz]
             /\ mode' = IF mode = "Idle" /\ machine # planner' THEN "Jog" ELSE mode
    <3>1. gc'.position = block.xyz
      BY <1>0, <2>4 DEF GcStates
    <3>2. CASE Runs
      BY <2>1, <2>2, <2>4, <3>1, <3>2, PlannedEnd DEF PositionIsPlanned
    <3>3. CASE ~Runs
      BY <2>2, <2>4, <3>3 DEF Runs, PositionIsPlanned
    <3> QED BY <3>2, <3>3
  <2> QED BY <1>8, <2>3, <2>4 DEF Jog
<1>9. CASE JogCancel
  <2>1. PICK m : planner' = m /\ gc' = [gc EXCEPT !.position = MotorsToCartesian(kin, m)]
    BY <1>9 DEF JogCancel
  <2>2. gc'.position = MotorsToCartesian(kin, planner')
    BY <1>0, <2>1 DEF GcStates
  <2> QED BY <1>9, <2>2 DEF JogCancel, PositionIsPlanned
<1>10. CASE Restart
  BY <1>10 DEF Restart, Cleared, Here, PositionIsPlanned
<1> QED BY <1>1, <1>2, <1>3, <1>4, <1>5, <1>6, <1>7, <1>8, <1>9, <1>10 DEF Next

\* At the start both are at the origin.
LEMMA PositionInit == Init => PositionIsPlanned
<1> SUFFICES ASSUME Init PROVE PositionIsPlanned
  OBVIOUS
<1>1. kin \in Modes
  BY GCodeAssumption DEF Init, GCodeAssumption
<1>2. MotorsToCartesian(kin, Origin) = Origin
  BY <1>1 DEF MotorsToCartesian, Modes, Origin, Axes, Swapped, Belts, Tool
<1>3. gc.position = Origin /\ planner = Origin
  BY DEF Init, Cleared
<1> QED BY <1>2, <1>3 DEF PositionIsPlanned

\* After every step of a line, a jog that is dropped, a probe cycle that stops short and a
\* reset, the parser is where the queue of the planner ends (gc_execute_line,
\* gc_sync_position, plan_sync_position).
THEOREM PositionFollows == Spec => []PositionIsPlanned
BY InitTypes, TypesStep, PositionInit, PositionStep, PTL DEF Spec

-----------------------------------------------------------------------------
\* Every step keeps the spindle and the coolant as the parser thinks.
LEMMA AccessoriesStep == Types /\ AccessoriesAgree /\ [Next]_vars => AccessoriesAgree'
<1> SUFFICES ASSUME Types, AccessoriesAgree, [Next]_vars PROVE AccessoriesAgree'
  OBVIOUS
<1>0. gc \in GcStates
  BY DEF Types
<1>1. CASE UNCHANGED vars
  BY <1>1 DEF vars, AccessoriesAgree
<1>2. CASE StartLine \/ EndOfLine \/ CycleStart \/ Arrive \/ Reset \/ CheckMode \/ Unlock \/ Restore
  BY <1>2 DEF StartLine, EndOfLine, CycleStart, Arrive, Reset, CheckMode, Unlock, Restore, AccessoriesAgree
<1>3. ASSUME gc'.spindle = gc.spindle, gc'.coolant = gc.coolant, UNCHANGED out,
             ~abort' => ~abort, mode' # "CheckMode" => mode # "CheckMode"
      PROVE  AccessoriesAgree'
  BY <1>3 DEF AccessoriesAgree
<1>4. CASE Word
  <2>1. PICK w \in program : gc' = gc \/ gc' = [gc EXCEPT !.tool = Byte(w[2])]
    BY <1>4 DEF Word
  <2> QED BY <1>0, <1>3, <1>4, <2>1 DEF GcStates, Word
<1>5. CASE SetModes
  <2>1. block \in Executing
    BY <1>5 DEF Types, BlockTypes, SetModes, NoLine, Reading
  <2>2. gc'.spindle = block.spindle /\ gc'.coolant = Coolant(block)
    BY <1>5, <2>1, ModesSet DEF SetModes
  <2>3. out' = Switched(block) /\ UNCHANGED <<mode, abort>>
    BY <1>5 DEF SetModes
  <2>4. block.coolant = "None" => Coolant(block) = gc.coolant
    BY DEF Coolant
  <2>5. mode # "CheckMode" /\ ~abort =>
          /\ Switched(block).spindle = IF block.spindle # gc.spindle THEN block.spindle # "Disable"
                                       ELSE out.spindle
          /\ Switched(block).coolant = IF block.coolant # "None" THEN Coolant(block) ELSE out.coolant
    BY DEF Switched
  <2> HIDE DEF Coolant, Switched
  <2>6. mode # "CheckMode" /\ ~abort => out'.spindle = (gc'.spindle # "Disable")
    BY <2>2, <2>3, <2>5, Zenon DEF AccessoriesAgree
  <2>7. mode # "CheckMode" /\ ~abort => out'.coolant = gc'.coolant
    BY <2>2, <2>3, <2>4, <2>5 DEF AccessoriesAgree
  <2> QED BY <2>3, <2>6, <2>7 DEF AccessoriesAgree
<1>6. CASE Travel
  <2>1. gc'.spindle = gc.spindle /\ gc'.coolant = gc.coolant
    BY <1>0, <1>6 DEF Travel, GcStates
  <2> QED BY <1>3, <1>6, <2>1 DEF Travel
<1>7. CASE ProbeCycle
  <2>1. PICK p : gc' = ProbedAt(p)
    BY <1>7 DEF ProbeCycle, ProbeStops
  <2>2. gc'.spindle = gc.spindle /\ gc'.coolant = gc.coolant
    BY <1>0, <2>1 DEF ProbedAt, GcStates
  <2>3. mode' \in {mode, "Alarm"} /\ UNCHANGED <<abort, out>>
        /\ (mode = "CheckMode" => UNCHANGED mode)
    BY <1>7 DEF ProbeCycle, Runs
  <2> QED BY <1>3, <2>2, <2>3
<1>8. CASE Flow
  <2>1. CASE block.flow # "Completed"
    BY <1>3, <1>8, <2>1 DEF Flow
  <2>2. CASE block.flow = "Completed"
    <3>1. gc'.spindle = "Disable" /\ gc'.coolant = FALSE
      BY <1>0, <1>8, <2>2 DEF Flow, GcStates
    <3>2. mode # "CheckMode" /\ ~abort => out' = Stopped
      BY <1>8, <2>2 DEF Flow
    <3>3. Stopped.spindle = FALSE /\ Stopped.coolant = FALSE
      BY DEF Stopped, Types
    <3> QED BY <1>8, <3>1, <3>2, <3>3 DEF Flow, AccessoriesAgree
  <2> QED BY <2>1, <2>2
<1>9. CASE Jog
  <2>1. gc'.spindle = gc.spindle /\ gc'.coolant = gc.coolant
    BY <1>0, <1>9 DEF Jog, GcStates
  <2> QED BY <1>3, <1>9, <2>1 DEF Jog
<1>10. CASE JogCancel
  <2>1. gc'.spindle = gc.spindle /\ gc'.coolant = gc.coolant
    BY <1>0, <1>10 DEF JogCancel, GcStates
  <2> QED BY <1>3, <1>10, <2>1 DEF JogCancel, Realtime
<1>11. CASE Restart
  <2>1. Stopped.spindle = FALSE /\ Stopped.coolant = FALSE
    BY DEF Stopped, Types
  <2>2. gc'.spindle = "Disable" /\ gc'.coolant = FALSE /\ out' = Stopped
    BY <1>11 DEF Restart, Cleared
  <2> QED BY <2>1, <2>2 DEF AccessoriesAgree
<1> QED BY <1>1, <1>2, <1>4, <1>5, <1>6, <1>7, <1>8, <1>9, <1>10, <1>11 DEF Next

\* The spindle and the coolant are as the parser thinks: after a line that failed half way
\* at a user output, at a program end and after a reset (Spindle::sync, coolant_sync).
THEOREM AccessoriesFollow == Spec => []AccessoriesAgree
<1>1. Init => AccessoriesAgree
  <2> SUFFICES ASSUME Init PROVE AccessoriesAgree
    OBVIOUS
  <2>1. gc.spindle = "Disable" /\ gc.coolant = FALSE /\ out.spindle = FALSE /\ out.coolant = FALSE
    BY DEF Init, Cleared, AllOff
  <2> QED BY <2>1 DEF AccessoriesAgree
<1> QED BY <1>1, InitTypes, TypesStep, AccessoriesStep, PTL DEF Spec

-----------------------------------------------------------------------------
\* The numbers of a line that is executed.
LEMMA LineVectors ==
  ASSUME block \in Executing, NEW a \in Axes
  PROVE  /\ block.said[a] \in Int /\ block.xyz[a] \in Int /\ block.data[a] \in Int
         /\ block.system[a] \in Int
BY DEF Executing, Vectors

\* The target that the checks compute is where the line says: what they reject are the
\* arcs without an axis word, whose target would be the origin.
LEMMA CheckedSaid == ASSUME Types, EndOfLine PROVE LinesSaid'
<1>1. block \in Reading
  BY DEF Types, BlockTypes, EndOfLine, NoLine, Executing
<1>2. PICK fits \in BOOLEAN : block' = IF Rejected(block, fits) THEN NoLine ELSE Checked(block)
  BY DEF EndOfLine
<1>3. CASE block' = NoLine
  BY <1>3 DEF NoLine, LinesSaid
<1>4. CASE ~Rejected(block, fits) /\ block' = Checked(block)
  <2>1. /\ block'.at # "motion" /\ block'.axis = Axis(block) /\ block'.motion = block.motion
        /\ block'.nonModal = block.nonModal /\ block'.incremental = block.incremental
        /\ block'.named = AxisWords(block) /\ block'.system = BlockSystem(block)
        /\ block'.xyz = Target(block) /\ block'.data = CoordData(block)
        /\ block'.twenty = (Byte(block.val["L"]) = 20)
        /\ \A a \in Axes : block'.said[a] = Millimetres(block, block.val[a])
    BY <1>4 DEF Checked
  <2>2. gc' = gc
    BY DEF EndOfLine
  <2>3. ASSUME NEW a \in Axes
        PROVE  /\ gc.position[a] \in Int /\ gc.offset[a] \in Int /\ Length(a) \in Int
               /\ BlockSystem(block)[a] \in Int /\ Millimetres(block, block.val[a]) \in Int
    BY <1>1, StateVectors, SystemTypes, LengthTypes DEF Reading, ValueLetters
  <2>4. Length(0)' = Length(0) /\ \A a : Length(a)' = Length(a)
    BY <2>2 DEF Length
  <2>5. EndsWhereSaid(block.system)'
    <3> SUFFICES ASSUME block.motion # "None", Axis(block) = "MotionMode", block.motion \notin Probes,
                        block.nonModal \in {"NoAction", "Dwell", "SetHome0", "SetHome1",
                                            "AbsoluteOverride"},
                        NEW a \in Axes
                 PROVE  Target(block)[a] =
                          IF a \notin AxisWords(block) THEN gc.position[a]
                          ELSE IF block.nonModal = "AbsoluteOverride"
                          THEN Millimetres(block, block.val[a])
                          ELSE IF block.incremental
                          THEN gc.position[a] + Millimetres(block, block.val[a])
                          ELSE Millimetres(block, block.val[a]) + BlockSystem(block)[a]
                               + gc.offset[a] + Length(a)
      BY <2>1, <2>2, <2>4 DEF EndsWhereSaid, Moves
    <3>1. AxisCommand(block) = "MotionMode"
      BY DEF Axis
    <3>2. AxisWords(block) # {}
      <4>1. CASE block.motion \in {"Seek", "Linear"}
        BY <3>1, <4>1 DEF Axis
      <4>2. CASE block.motion \in Arcs
        BY <1>4, <3>1, <4>2 DEF Rejected, BadMotion, BadArc, Arcs
      <4> QED BY <1>1, <4>1, <4>2 DEF Reading, Motions
    <3>3. a \in AxisWords(block) <=> a \in block.words
      BY DEF AxisWords
    <3> HIDE DEF AxisWords, AxisCommand, Axis
    <3> QED BY <3>1, <3>2, <3>3 DEF Target
  <2>6. OffsetsWillSay'
    <3> SUFFICES ASSUME Axis(block) = "NonModal", NEW a \in AxisWords(block)
                 PROVE  /\ block.nonModal = "SetCoordinateOffset" =>
                             Target(block)[a] = gc.position[a] - BlockSystem(block)[a]
                                                - Millimetres(block, block.val[a]) - Length(a)
                        /\ block.nonModal = "SetCoordinateData" /\ Byte(block.val["L"]) = 20 =>
                             CoordData(block)[a] = gc.position[a] - gc.offset[a]
                                                   - Millimetres(block, block.val[a]) - Length(a)
      BY <2>1, <2>2, <2>4 DEF OffsetsWillSay, AxisWords
    <3>1. a \in Axes /\ a \in block.words
      BY DEF AxisWords
    <3>2. ASSUME block.nonModal = "SetCoordinateOffset"
          PROVE  Target(block)[a] = gc.position[a] - BlockSystem(block)[a]
                                    - Millimetres(block, block.val[a]) - Length(a)
      BY <3>1, <3>2 DEF Target, Axis
    <3>3. block.nonModal = "SetCoordinateData" /\ Byte(block.val["L"]) = 20 =>
            CoordData(block)[a] = Zero(a, Millimetres(block, block.val[a]))
      BY <3>1 DEF CoordData
    <3> QED BY <3>2, <3>3 DEF Zero
  <2> QED BY <2>1, <2>5, <2>6 DEF LinesSaid
<1> QED BY <1>2, <1>3, <1>4

\* Setting the modes changes of the offsets only what the block is about.
LEMMA OffsetsSet ==
  ASSUME Types, block \in Executing
  PROVE  LET g == OtherModes(block)
         IN  /\ g.position = gc.position
             /\ block.axis # "ToolLength" => g.tlo = gc.tlo
             /\ g.system = IF block.nonModal = "SetCoordinateData" /\ block.index = block.coord
                           THEN block.data ELSE block.system
             /\ block.nonModal = "SetCoordinateOffset" => g.offset = block.xyz
             /\ block.nonModal \notin {"SetCoordinateOffset", "ResetCoordinateOffset"} =>
                  g.offset = gc.offset
<1>1. FirstModes(block) \in GcStates
  BY ModesTypes
<1>2. FirstModes(block).position = gc.position /\ FirstModes(block).tlo = gc.tlo
      /\ FirstModes(block).offset = gc.offset
  BY DEF FirstModes, Types, GcStates
<1> DEFINE g == OtherModes(block)
           f == FirstModes(block)
<1>3. /\ g.position = f.position
      /\ block.axis # "ToolLength" => g.tlo = f.tlo
      /\ g.system = IF block.nonModal = "SetCoordinateData" /\ block.index = block.coord
                    THEN block.data ELSE block.system
      /\ block.nonModal = "SetCoordinateOffset" => g.offset = block.xyz
      /\ block.nonModal \notin {"SetCoordinateOffset", "ResetCoordinateOffset"} => g.offset = f.offset
  BY <1>1 DEF OtherModes, GcStates
<1> HIDE DEF g, f
<1> QED BY <1>2, <1>3 DEF g, f

\* What a line says holds from its checks to its motion: nothing between them moves the
\* parser but a jog cancel, and that drops the line.
LEMMA SaidStep == Types /\ LinesSaid /\ [Next]_vars => LinesSaid'
<1> SUFFICES ASSUME Types, LinesSaid, [Next]_vars PROVE LinesSaid'
  OBVIOUS
<1>1. CASE UNCHANGED <<gc, block>>
  BY <1>1 DEF LinesSaid, EndsWhereSaid, OffsetsWillSay, Moves, Length
<1>2. CASE UNCHANGED vars \/ CycleStart \/ Arrive \/ Reset \/ CheckMode \/ Unlock \/ Restore
  BY <1>1, <1>2 DEF vars, CycleStart, Arrive, Reset, CheckMode, Unlock, Restore
<1>3. CASE block'.at \notin {"modes", "motion"}
  BY <1>3 DEF LinesSaid
<1>4. CASE Flow \/ Jog \/ JogCancel \/ Restart
  BY <1>3, <1>4 DEF Flow, Jog, JogCancel, Restart, NoLine
<1>5. CASE StartLine
  BY <1>3, <1>5 DEF StartLine
<1>6. CASE Word
  <2>2. block' = NoLine \/ block' \in Reading
    BY <1>6, WordRead
  <2> QED BY <1>3, <2>2 DEF NoLine, Reading
<1>7. CASE EndOfLine
  BY <1>7, CheckedSaid
<1>8. CASE Travel \/ ProbeCycle
  <2>1. block \in Executing
    BY <1>8 DEF Types, BlockTypes, Travel, ProbeCycle, NoLine, Reading
  <2>2. block'.at = "flow"
    BY <1>8, <2>1, NextPlace DEF Travel, ProbeCycle
  <2> QED BY <1>3, <2>2
<1>9. CASE SetModes
  <2>1. block \in Executing /\ block.at = "modes"
    BY <1>9 DEF Types, BlockTypes, SetModes, NoLine, Reading
  <2>2. CASE block' = NoLine
    BY <1>3, <2>2 DEF NoLine
  <2>3. CASE gc' = OtherModes(block) /\ block' = [block EXCEPT !.at = "motion"]
    <3>1. /\ block'.at = "motion" /\ block'.axis = block.axis /\ block'.motion = block.motion
          /\ block'.nonModal = block.nonModal /\ block'.incremental = block.incremental
          /\ block'.named = block.named /\ block'.said = block.said /\ block'.xyz = block.xyz
      BY <2>1, <2>3, NextPlace
    <3>2. ASSUME block.axis = "MotionMode",
                 block.nonModal \in {"NoAction", "Dwell", "SetHome0", "SetHome1", "AbsoluteOverride"}
          PROVE  /\ gc'.position = gc.position /\ gc'.tlo = gc.tlo /\ gc'.offset = gc.offset
                 /\ gc'.system = block.system
      BY <2>1, <2>3, <3>2, OffsetsSet
    <3>3. EndsWhereSaid(block.system)
      BY <2>1 DEF LinesSaid
    <3>4. EndsWhereSaid(gc.system)'
      BY <3>1, <3>2, <3>3 DEF EndsWhereSaid, Moves, Length
    <3> QED BY <3>1, <3>4 DEF LinesSaid
  <2> QED BY <1>9, <2>2, <2>3 DEF SetModes
<1> QED BY <1>2, <1>4, <1>5, <1>6, <1>7, <1>8, <1>9 DEF Next

\* A motion ends where its line says, in the work coordinates in force after the line, in
\* machine coordinates with G53, that far away with G91; an axis the line does not name
\* stays (gc_execute_line, steps 3 and 4).
THEOREM MotionsAsSaid == Spec => TargetAsSaid
<1> DEFINE Said ==
      (/\ block.at = "motion" /\ block'.at = "flow" /\ Moves(block)
       /\ block.motion \notin Probes
       /\ block.nonModal \in {"NoAction", "Dwell", "SetHome0", "SetHome1", "AbsoluteOverride"})
      => \A a \in Axes :
           IF a \notin block.named THEN gc'.position[a] = gc.position[a]
           ELSE IF block.nonModal = "AbsoluteOverride" THEN gc'.position[a] = block.said[a]
           ELSE IF block.incremental THEN gc'.position[a] = gc.position[a] + block.said[a]
           ELSE Work(gc', a) = block.said[a]
<1>1. Types /\ LinesSaid /\ [Next]_vars => [Said]_vars
  <2> SUFFICES ASSUME Types, LinesSaid, Next, block.at = "motion", block'.at = "flow", Moves(block),
                      block.motion \notin Probes,
                      block.nonModal \in {"NoAction", "Dwell", "SetHome0", "SetHome1",
                                          "AbsoluteOverride"},
                      NEW a \in Axes
               PROVE  IF a \notin block.named THEN gc'.position[a] = gc.position[a]
                      ELSE IF block.nonModal = "AbsoluteOverride" THEN gc'.position[a] = block.said[a]
                      ELSE IF block.incremental
                      THEN gc'.position[a] = gc.position[a] + block.said[a]
                      ELSE Work(gc', a) = block.said[a]
    OBVIOUS
  <2>1. block \in Executing
    BY DEF Types, BlockTypes, NoLine, Reading
  <2>2. Travel
    <3>1. ~StartLine /\ ~Word /\ ~EndOfLine /\ ~SetModes /\ ~Flow /\ ~Jog
      BY DEF StartLine, Word, EndOfLine, SetModes, Flow, Jog, NoLine
    <3>2. ~(CycleStart \/ Arrive \/ Reset \/ Restart \/ CheckMode \/ Unlock \/ Restore)
      BY DEF CycleStart, Arrive, Reset, Restart, CheckMode, Unlock, Restore
    <3>3. ~JogCancel /\ ~ProbeCycle
      BY DEF JogCancel, ProbeCycle, NoLine
    <3> QED BY <3>1, <3>2, <3>3 DEF Next
  <2>3. gc' = [gc EXCEPT !.motion = block.motion, !.position = block.xyz]
    BY <2>2 DEF Travel
  <2>4. /\ gc'.position = block.xyz /\ gc'.system = gc.system /\ gc'.offset = gc.offset
        /\ gc'.tlo = gc.tlo
    BY <2>3 DEF Types, GcStates
  <2>5. EndsWhereSaid(gc.system)
    BY DEF LinesSaid
  <2>6. /\ gc.position[a] \in Int /\ gc.offset[a] \in Int /\ gc.system[a] \in Int /\ gc.tlo \in Int
        /\ block.said[a] \in Int
    BY <2>1, LineVectors DEF Types, GcStates, Vectors
  <2>7. block.xyz[a] = IF a \notin block.named THEN gc.position[a]
                       ELSE IF block.nonModal = "AbsoluteOverride" THEN block.said[a]
                       ELSE IF block.incremental THEN gc.position[a] + block.said[a]
                       ELSE block.said[a] + gc.system[a] + gc.offset[a] + Length(a)
    BY <2>5 DEF EndsWhereSaid
  <2>8. block.xyz[a] = block.said[a] + gc.system[a] + gc.offset[a] + Length(a) =>
          Work(gc', a) = block.said[a]
    BY <2>4, <2>6 DEF Work, Length
  <2> QED BY <2>4, <2>7, <2>8
<1>2. Init => LinesSaid
  BY DEF Init, NoLine, LinesSaid
<1> QED BY <1>1, <1>2, InitTypes, TypesStep, SaidStep, PTL DEF Spec, TargetAsSaid

\* G92, and G10 L20 of the selected system, make the work position of the axes that the line
\* names what it says, whatever offsets are in force (gc_execute_line, steps 3 and 4).
THEOREM OffsetsSaid == Spec => OffsetsAsSaid
<1> DEFINE Said ==
      (/\ block.at = "modes" /\ block'.at = "motion" /\ block.axis = "NonModal"
       /\ \/ block.nonModal = "SetCoordinateOffset"
          \/ block.nonModal = "SetCoordinateData" /\ block.twenty /\ block.index = block.coord)
      => \A a \in block.named : Work(gc', a) = block.said[a]
<1>1. Types /\ LinesSaid /\ [Next]_vars => [Said]_vars
  <2> SUFFICES ASSUME Types, LinesSaid, Next, block.at = "modes", block'.at = "motion",
                      block.axis = "NonModal",
                      \/ block.nonModal = "SetCoordinateOffset"
                      \/ /\ block.nonModal = "SetCoordinateData" /\ block.twenty
                         /\ block.index = block.coord,
                      NEW a \in block.named
               PROVE  Work(gc', a) = block.said[a]
    OBVIOUS
  <2>1. block \in Executing
    BY DEF Types, BlockTypes, NoLine, Reading
  <2>2. a \in Axes
    BY <2>1 DEF Executing
  <2>3. SetModes
    <3>1. ~StartLine /\ ~Word /\ ~EndOfLine /\ ~Travel /\ ~ProbeCycle /\ ~Flow /\ ~Jog
      BY DEF StartLine, Word, EndOfLine, Travel, ProbeCycle, Flow, Jog, NoLine
    <3>2. ~(CycleStart \/ Arrive \/ Reset \/ Restart \/ CheckMode \/ Unlock \/ Restore)
      BY DEF CycleStart, Arrive, Reset, Restart, CheckMode, Unlock, Restore
    <3>3. ~JogCancel
      BY DEF JogCancel, NoLine
    <3> QED BY <3>1, <3>2, <3>3 DEF Next
  <2>4. gc' = OtherModes(block)
    BY <2>3 DEF SetModes, NoLine
  <2>5. OffsetsWillSay
    BY DEF LinesSaid
  <2>6. /\ gc.position[a] \in Int /\ gc.offset[a] \in Int /\ gc.tlo \in Int
        /\ block.said[a] \in Int /\ block.xyz[a] \in Int /\ block.data[a] \in Int
        /\ block.system[a] \in Int
    BY <2>1, <2>2, LineVectors DEF Types, GcStates, Vectors
  <2>7. gc'.position = gc.position /\ gc'.tlo = gc.tlo
    BY <2>1, <2>4, OffsetsSet
  <2>8. CASE block.nonModal = "SetCoordinateOffset"
    <3>1. gc'.system = block.system /\ gc'.offset = block.xyz
      BY <2>1, <2>4, <2>8, OffsetsSet
    <3>2. block.xyz[a] = gc.position[a] - block.system[a] - block.said[a] - Length(a)
      BY <2>5, <2>8 DEF OffsetsWillSay
    <3> QED BY <2>6, <2>7, <3>1, <3>2 DEF Work, Length
  <2>9. CASE block.nonModal = "SetCoordinateData" /\ block.twenty /\ block.index = block.coord
    <3>1. gc'.system = block.data /\ gc'.offset = gc.offset
      BY <2>1, <2>4, <2>9, OffsetsSet
    <3>2. block.data[a] = gc.position[a] - gc.offset[a] - block.said[a] - Length(a)
      BY <2>5, <2>9 DEF OffsetsWillSay
    <3> QED BY <2>6, <2>7, <3>1, <3>2 DEF Work, Length
  <2> QED BY <2>8, <2>9
<1>2. Init => LinesSaid
  BY DEF Init, NoLine, LinesSaid
<1> QED BY <1>1, <1>2, InitTypes, TypesStep, SaidStep, PTL DEF Spec, OffsetsAsSaid
===============================================================================
