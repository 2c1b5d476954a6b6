---------------------------- MODULE ServoControl ----------------------------
(***************************************************************************)
(* The arithmetic of the servo board: angles, the position controller's    *)
(* error, the control law and the duty cycle of the motor driver.          *)
(*                                                                         *)
(* Doubles are integers here: angles are whole degrees, speeds are degrees *)
(* per second, and the integral of an error is counted in hundredths of    *)
(* degree-seconds, what an error of one degree adds to it in a cycle of    *)
(* 1/100 second.  Conversions to int16_t wrap modulo 2^16, which is what   *)
(* the board's compiler emits.                                             *)
(***************************************************************************)
EXTENDS Integers

CONSTANTS
  CW_angle_limit,   (* clockwise end of the permitted arc, in degrees         *)
  CCW_angle_limit   (* counter-clockwise end, the zero of the converted frame *)

ASSUME LimitsAssumption ==
  /\ CW_angle_limit \in 0..359
  /\ CCW_angle_limit \in 0..359
  /\ CW_angle_limit # CCW_angle_limit

-----------------------------------------------------------------------------
fabs(x) == IF x < 0 THEN -x ELSE x

(* C's division of integers and conversion to an integer: towards zero. *)
TruncDiv(a, b) == IF a >= 0 THEN a \div b ELSE -((-a) \div b)

Int16 == {x \in Int : -32768 <= x /\ x <= 32767}

ToInt16(x) == ((x + 32768) % 65536) - 32768

-----------------------------------------------------------------------------
(* The two ways round from a2 to a1, the shorter and the longer. *)
compute_angle_diff(a1, a2) ==
  LET diff == a1 - a2
      a    == IF diff < 0 THEN -360 ELSE 360
  IN  IF fabs(diff) > fabs(diff - a)
      THEN [small |-> diff - a, big |-> diff]
      ELSE [small |-> diff, big |-> diff - a]

(* Degrees past the CCW limit; the loop adds whole turns to a negative one. *)
angle_referential_conversion(angle) ==
  LET converted == angle - CCW_angle_limit
  IN  IF converted < 0 THEN converted % 360 ELSE converted

converted_CW == angle_referential_conversion(CW_angle_limit)

OutOfRange(angle) == angle_referential_conversion(angle) > converted_CW

(* The reference the position controller tracks, in the converted frame. *)
EffectiveReference(ref, angle) ==
  LET converted_ref == angle_referential_conversion(ref)
      to_cw  == compute_angle_diff(converted_ref, converted_CW - 5).small
      to_ccw == compute_angle_diff(converted_ref, 5).small
  IN  IF ~OutOfRange(angle) THEN converted_ref
      ELSE IF fabs(to_cw) < fabs(to_ccw) THEN to_cw ELSE to_ccw

(* The shorter path would cross a limit that the angle is inside of. *)
LeavesRange(angle, error) ==
  \/ error < 0 /\ angle + error < 0
  \/ error > 0 /\ angle + error > converted_CW

PosErrorShorter(ref, angle) ==
  compute_angle_diff(EffectiveReference(ref, angle),
                     angle_referential_conversion(angle)).small

PosError(ref, angle) ==
  LET converted == angle_referential_conversion(angle)
      ad        == compute_angle_diff(EffectiveReference(ref, angle), converted)
  IN  IF ~OutOfRange(angle) /\ LeavesRange(converted, ad.small)
      THEN ad.big ELSE ad.small

-----------------------------------------------------------------------------
(* Control cycles in a second: 1 / cycle_period. *)
cycles == 100

NextIntegralUnclamped(integral, e, limit) ==
  [wound |-> fabs(integral + e) > cycles * limit, term |-> integral + e]

(* The integral term after one period and whether it hit its limit. *)
NextIntegral(integral, e, limit) ==
  LET sum == integral + e
      bound == cycles * limit
  IN  [wound |-> fabs(sum) > bound,
       term  |-> IF fabs(sum) <= bound THEN sum
                 ELSE IF sum < 0 THEN -bound ELSE bound]

(* The sum of the three terms as an integer: gains c, error e, integral i  *)
(* and the difference d of two errors a cycle apart.                       *)
Law(c, e, i, d) ==
  TruncDiv(cycles * (c["kp"] * e) + c["ki"] * i + cycles * cycles * (c["kd"] * d), cycles)

(* The modulated command. *)
Command(c, e, i, d) == ToInt16(TruncDiv(ToInt16(Law(c, e, i, d)) * c["mod_fact"], 100))

(* MAX_TORQUE carries a percentage (a byte, so never negative). *)
MaxTorque(percentage) ==
  IF percentage > 100 THEN 512 ELSE (512 * percentage) \div 100

-----------------------------------------------------------------------------
ClampOneSided(u, max_torque) == IF u > max_torque THEN max_torque ELSE u

Clamp(u, max_torque) ==
  IF fabs(u) <= max_torque THEN u
  ELSE IF u < 0 THEN -max_torque ELSE max_torque

limit_tol == 5

AtLimitOnTheLimit(u, converted) ==
  (u < 0 /\ converted <= 0) \/ (u >= 0 /\ converted >= converted_CW)

(* The command would push past the limit that the angle is next to. *)
AtLimit(u, converted) ==
  \/ u < 0  /\ converted <= limit_tol
  \/ u >= 0 /\ converted >= converted_CW - limit_tol

(* pwm_update: the signed drive it programs (the duty less 512) and the    *)
(* flags it raises on the way.                                             *)
PwmUpdate(new_pwm, angle, max_torque) ==
  LET u         == Clamp(new_pwm, max_torque)
      stop      == AtLimit(u, angle_referential_conversion(angle))
  IN  [drive |-> IF stop THEN 0 ELSE u,
       flags |-> (IF fabs(new_pwm) > max_torque THEN {"MAX_TOR_REACHED"} ELSE {})
                 \union (IF stop THEN {"OOR_PID"} ELSE {})]
=============================================================================
