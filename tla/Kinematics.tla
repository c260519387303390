------------------------------ MODULE Kinematics ------------------------------
(***************************************************************************)
(* The kinematics of the plotter build (Custom/CoreXY.cpp): where the      *)
(* motors have to be for a tool position, and back.  Positions are         *)
(* integers in a small unit of length, on the axes X, Y and Z; the         *)
(* geometry factor is 1 (it is 2 for the midTbot alone).                   *)
(***************************************************************************)
EXTENDS Integers

Axes == {"X", "Y", "Z"}
Modes == {"Cartesian", "CoreXY", "SwapXY"}
Vectors == [Axes -> Int]

Swapped(v) == [X |-> v.Y, Y |-> v.X, Z |-> v.Z]

\* transform_cartesian_to_motors: the Y motor turns the other way round
Belts(p) == [X |-> p.X - p.Y, Y |-> -(p.X + p.Y), Z |-> p.Z]

\* cartesian_to_motors(target, pl_data, position): the target that mc_line gets
CartesianToMotors(kin, p) ==
    CASE kin = "Cartesian" -> p
      [] kin = "CoreXY"    -> Belts(p)
      [] kin = "SwapXY"    -> Swapped(Belts(Swapped(p)))

\* The half of a CoreXY motor position that each tool axis gets
Tool(m) == [X |-> (m.X - m.Y) \div 2, Y |-> (-(m.X + m.Y)) \div 2, Z |-> m.Z]

\* motors_to_cartesian
MotorsToCartesian(kin, m) ==
    CASE kin = "Cartesian" -> m
      [] kin = "CoreXY"    -> Tool(m)
      [] kin = "SwapXY"    -> Swapped(Tool(Swapped(m)))

\* The one-argument cartesian_to_motors that user_defined_homing has of its
\* own: it stores the motors the other way round.
HomingMotors(p) == [X |-> -(p.X + p.Y), Y |-> p.X - p.Y, Z |-> p.Z]
===============================================================================
