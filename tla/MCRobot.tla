------------------------------ MODULE MCRobot ------------------------------
(***************************************************************************)
(* Instances of Robot for TLC.                                             *)
(***************************************************************************)
EXTENDS Robot

(* The hand moves the joint of servo 1; both first counts are among those  *)
(* that come back one lower from the world.                                *)
Hand == [servo1 |-> {5, 2000}, servo3 |-> {9}]

(* Joints that nobody moves. *)
Still == [servo1 |-> {5}, servo3 |-> {9}]

(* An uplink fails before its period begins or after its last frame. *)
AllOrNothing == UplinkFails => sup.frames = <<>>
=============================================================================
