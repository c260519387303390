------------------------------- MODULE MCGCode --------------------------------
(***************************************************************************)
(* Words for the lines of a model-checking run of GCode, a program each.   *)
(***************************************************************************)
EXTENDS GCode

G(n) == <<"G", 100 * n>>
M(n) == <<"M", 100 * n>>
Is(letter, n) == <<letter, 100 * n>>

Systems54 == {G(10), Is("L", 20), Is("P", 2), G(55), G(92), Is("X", 1)}
Lengths == {<<"G", 4310>>, G(49), Is("Z", 1), G(92), <<"G", 9210>>, G(91)}
Motions == {G(1), Is("F", 1), Is("X", 1), Is("Y", 1), G(20), G(53)}
Homings == {G(28), <<"G", 2810>>, Is("X", 1), G(0), G(10), Is("L", 2)}
ArcsPlanes == {G(2), G(18), Is("I", 1), Is("R", 1), Is("X", 1), Is("F", 1)}
Probing == {<<"G", 3820>>, <<"G", 3830>>, Is("X", 1), Is("F", 1), G(93), G(80)}
Accessories == {M(3), M(8), M(2), M(0), G(55), Is("S", 1)}
Devices == {M(62), M(64), M(67), Is("P", 0), Is("P", 1), M(103)}
Oddities == {Is("T", 1), Is("T", -1), G(800), Is("T", 256), Is("N", 1), Is("X", 1)}

AllPrograms == {Systems54, Lengths, Motions, Homings, ArcsPlanes, Probing, Accessories,
                Devices, Oddities}
===============================================================================
