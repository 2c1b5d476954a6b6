--------------------------- MODULE MCPositionLoop ---------------------------
(* PositionLoop for TLC: a proportional and integral controller, whose      *)
(* integral weighs up to five degrees against the error.                    *)
EXTENDS PositionLoop

SomeGains ==
  [kp |-> 1, ki |-> 5, kd |-> 0, int_limit |-> 1, mod_fact |-> 100, max_torque |-> 1]

(* A joint whose controller has been on since power-up and has no reference. *)
Enabled ==
  /\ position \in Starts
  /\ moved = 0
  /\ measured = 0 /\ measured_once = FALSE
  /\ speed = 0
  /\ age = 0
  /\ switch = [enabled |-> TRUE, set |-> FALSE]
  /\ reference = 0
  /\ pid = [integral |-> 0, prev_e |-> 0, output |-> 0]
  /\ drive = 0
  /\ left = Disturbances

EnabledSpec ==
  /\ Enabled /\ [][Next]_vars
  /\ Fairness
=============================================================================
