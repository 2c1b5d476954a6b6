---------------------------- MODULE PositionLoop ----------------------------
(***************************************************************************)
(* One joint under its servo's position controller, closed: the motor      *)
(* moves the joint, the control task measures it, the controller computes  *)
(* an output, and the next SYNC drives the motor.                          *)
(*                                                                         *)
(* A SYNC uses the angle and the output that the control task left behind: *)
(* both are a period old, or older when the task was late and two SYNCs    *)
(* made one notification.  The joint may move by MaxStep degrees between   *)
(* two SYNCs, in the direction of the drive, or in any direction when it   *)
(* is pushed by hand.                                                      *)
(***************************************************************************)
EXTENDS ServoControl

CONSTANTS
  Starts,      (* where the joint may be at power-up                         *)
  Steps,       (* how far the joint moves in one step, in degrees            *)
  MaxStep,     (* how far it moves at most between two SYNCs                 *)
  MaxAge,      (* how many SYNCs one notification may stand for              *)
  References,  (* positions the motherboard asks for, in degrees             *)
  Gains,       (* kp, ki, kd, int_limit, mod_fact and max_torque             *)
  Disturbances (* how many orders and pushes by hand there are               *)

(* The tolerance of the driver covers what the joint moves while a drive   *)
(* and the angle it was decided on are in force.                           *)
ASSUME PaceAssumption ==
  /\ Starts \subseteq 0..converted_CW
  /\ Steps \subseteq Nat
  /\ MaxStep \in Nat
  /\ MaxAge \in Nat \ {0}
  /\ (MaxAge + 1) * MaxStep <= limit_tol + 1
  /\ References \subseteq 0..359
  /\ Gains \in [{"kp", "ki", "kd", "int_limit", "mod_fact", "max_torque"} -> Nat]
  /\ Disturbances \in Nat

VARIABLES
  position,      (* of the joint, in degrees past the CCW limit; the truth     *)
  moved,         (* degrees moved since the last SYNC, there and back          *)
  measured,      (* servo_angle                                                *)
  measured_once, (* prev_angle_set                                             *)
  speed,         (* servo_motor_speed, in degrees per second                   *)
  age,           (* SYNCs since the last measurement                           *)
  switch,        (* pos_pid_enabled and pos_has_been_set                       *)
  reference,     (* pos_ref                                                    *)
  pid,           (* the controller's integral, previous error and output       *)
  drive,         (* what the driver applies                                    *)
  left           (* orders and pushes by hand still to come                    *)

vars == <<position, moved, measured, measured_once, speed, age, switch, reference,
          pid, drive, left>>

InArc == 0..converted_CW

SensorAngle == (position + CCW_angle_limit) % 360

Init ==
  /\ position \in Starts
  /\ moved = 0
  /\ measured = 0 /\ measured_once = FALSE
  /\ speed = 0
  /\ age = 0
  /\ switch = [enabled |-> FALSE, set |-> FALSE]
  /\ reference = 0
  /\ pid = [integral |-> 0, prev_e |-> 0, output |-> 0]
  /\ drive = 0
  /\ left = Disturbances

-----------------------------------------------------------------------------
(* The orders of the motherboard. *)

WriteReference(r) ==
  /\ reference' = r
  /\ switch' = [switch EXCEPT !.set = TRUE]
  /\ UNCHANGED <<position, moved, measured, measured_once, speed, age, pid, drive>>

process_pid_pos_order(on) ==
  /\ switch' = [enabled |-> on, set |-> switch.set /\ on]
  /\ pid' = IF on THEN pid ELSE [pid EXCEPT !.output = 0]
  /\ UNCHANGED <<position, moved, measured, measured_once, speed, age, reference, drive>>

process_sync_order ==
  /\ age < MaxAge
  /\ age' = age + 1
  /\ moved' = 0
  /\ LET u == IF switch.enabled /\ switch.set THEN pid.output ELSE 0
     IN  drive' = PwmUpdate(u, measured, Gains["max_torque"]).drive
  /\ UNCHANGED <<position, measured, measured_once, speed, switch, reference, pid, left>>

-----------------------------------------------------------------------------
(* One round of the control task. *)

SpeedWithoutWrap(angle) == IF measured_once THEN angle - measured ELSE 0

Speed(angle) ==
  IF measured_once THEN cycles * compute_angle_diff(angle, measured).small ELSE 0

pos_pid_controller(angle) ==
  \E e \in {PosError(reference, angle)} :
    \E i \in {NextIntegral(pid.integral, e, Gains["int_limit"]).term} :
      pid' = [integral |-> i, prev_e |-> e, output |-> Command(Gains, e, i, e - pid.prev_e)]

task_main_loop ==
  /\ age > 0
  /\ age' = 0
  /\ \E angle \in {SensorAngle} :
       /\ measured' = angle
       /\ speed' = Speed(angle)
       /\ IF switch.enabled THEN pos_pid_controller(angle) ELSE UNCHANGED pid
  /\ measured_once' = TRUE
  /\ UNCHANGED <<position, moved, switch, reference, drive, left>>

-----------------------------------------------------------------------------
(* The joint. *)

Turn(d) ==
  /\ moved + fabs(d) <= MaxStep
  /\ moved' = moved + fabs(d)
  /\ position' = position + d
  /\ UNCHANGED <<measured, measured_once, speed, age, switch, reference, pid, drive>>

(* A positive drive turns the joint towards the CW limit. *)
Driven ==
  /\ UNCHANGED left
  /\ \E d \in Steps : (drive > 0 /\ Turn(d)) \/ (drive < 0 /\ Turn(-d))

(* A hand does not break the joint. *)
Pushed ==
  /\ left > 0
  /\ left' = left - 1
  /\ \E d \in Steps : \E way \in {d, -d} : position + way \in InArc /\ Turn(way)

Orders ==
  /\ left > 0
  /\ left' = left - 1
  /\ \/ \E r \in References : WriteReference(r)
     \/ \E on \in BOOLEAN : process_pid_pos_order(on)

Next ==
  Orders \/ process_sync_order \/ task_main_loop \/ Driven \/ Pushed

Spec == Init /\ [][Next]_vars

(* The cycle of SYNC and measurement goes on, and a motor that is driven   *)
(* turns.                                                                  *)
Fairness ==
  WF_vars(process_sync_order) /\ WF_vars(task_main_loop) /\ WF_vars(Driven)

FairSpec == Spec /\ Fairness

-----------------------------------------------------------------------------
TypeOK ==
  /\ position \in Int
  /\ moved \in 0..MaxStep
  /\ measured \in 0..359
  /\ measured_once \in BOOLEAN
  /\ speed \in Int
  /\ age \in 0..MaxAge
  /\ switch \in [enabled : BOOLEAN, set : BOOLEAN]
  /\ reference \in 0..359
  /\ pid \in [integral : -cycles * Gains["int_limit"]..cycles * Gains["int_limit"], prev_e : Int,
              output : Int16]
  /\ drive \in Int
  /\ left \in 0..Disturbances

(* The motor never turns the joint out of its arc (pwm.c:84-96), whatever  *)
(* the controller asks for and although the angle the driver looks at is   *)
(* older than the drive: a drive that would is stopped early enough.       *)
JointStaysInArc == position \in InArc

(* The speed is the way the joint made since the last measurement, across  *)
(* the zero of the sensor as well (main.c:598-613), over one cycle_period  *)
(* although more SYNCs may have passed.                                    *)
SpeedTruthful ==
  [][task_main_loop /\ measured_once =>
       speed' = cycles * (position - angle_referential_conversion(measured))]_vars

Tracking == switch.enabled /\ switch.set

(* Where the joint should be: at the reference, short of the tolerance at  *)
(* the two ends, within what it moves before a drive is corrected and what *)
(* the integral, at its limit, weighs against the error.                   *)
NearReference ==
  LET goal == angle_referential_conversion(reference)
      slack == (MaxAge + 1) * MaxStep
                 + (Gains["ki"] * Gains["int_limit"]) \div Gains["kp"]
  IN  \/ goal \notin InArc
      \/ fabs(position - goal) <= slack
      \/ goal <= limit_tol /\ position <= limit_tol + slack
      \/ goal >= converted_CW - limit_tol /\ position >= converted_CW - limit_tol - slack

(* With its controller on and a reference in the arc, once the orders and  *)
(* the pushes are over, the joint comes to the reference and stays there,  *)
(* wherever it starts, by the way that the arc allows; an integral or      *)
(* error left over from before the controller was switched off and on does *)
(* not keep it away.                                                       *)
ComesToReference == <>[]Tracking => <>[]NearReference
=============================================================================
