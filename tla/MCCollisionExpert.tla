-------------------------- MODULE MCCollisionExpert --------------------------
(***************************************************************************)
(* Instances of CollisionExpert for TLC.                                   *)
(***************************************************************************)
EXTENDS CollisionExpert

Acc(x, y, z) == [a \in Axis |-> CASE a = "x" -> x [] a = "y" -> y [] a = "z" -> z]

(* Two accelerations a robot in the air may show, not tol apart on any     *)
(* axis but far from zero, a shock, and one with nothing on an axis.       *)
SomeSamples == {Acc(5, 6, 8), Acc(8, 5, 6), Acc(5, 6, 12), Acc(0, 6, 8)}
=============================================================================
