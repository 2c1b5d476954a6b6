------------------------- MODULE ServoControlProofs -------------------------
(***************************************************************************)
(* What the operators of ServoControl return, for every angle limit, angle *)
(* and command: the ranges the firmware's types rely on, and the theorem   *)
(* that the position controller's error follows the permitted arc.         *)
(***************************************************************************)
EXTENDS ServoControl, TLAPS

(* A conversion to int16_t lands in the range of int16_t and leaves the    *)
(* values that fit alone.                                                  *)
LEMMA ToInt16Range ==
  ASSUME NEW x \in Int
  PROVE  ToInt16(x) \in Int16 /\ (x \in Int16 => ToInt16(x) = x)
BY DEF ToInt16, Int16

(* C's division of integers gives an integer. *)
LEMMA TruncDivType ==
  ASSUME NEW a \in Int, NEW b \in Nat \ {0}
  PROVE  TruncDiv(a, b) \in Int
BY DEF TruncDiv

(* A hundredth, truncated, of what is within a hundred times 32767.        *)
LEMMA TruncDivFits ==
  ASSUME NEW a \in Int, -3276700 <= a, a <= 3276700
  PROVE  TruncDiv(a, 100) \in Int16
BY DEF TruncDiv, Int16

(* What is within a hundred times a bound has a hundredth within the bound. *)
LEMMA TruncDivBound ==
  ASSUME NEW a \in Int, NEW K \in Nat, -(100 * K) <= a, a <= 100 * K
  PROVE  TruncDiv(a, 100) \in Int /\ -K <= TruncDiv(a, 100) /\ TruncDiv(a, 100) <= K
BY DEF TruncDiv

(* Both differences are integers; the small one is the plain difference,   *)
(* unless that is more than half a turn and the other way is shorter.      *)
LEMMA AngleDiff ==
  ASSUME NEW a1 \in Int, NEW a2 \in Int
  PROVE  /\ compute_angle_diff(a1, a2).small \in Int
         /\ compute_angle_diff(a1, a2).big \in Int
         /\ (a1 - a2 >= -180 /\ a1 - a2 <= 180) =>
              compute_angle_diff(a1, a2).small = a1 - a2
         /\ (a1 - a2 < -180 /\ a1 - a2 > -360) =>
              /\ compute_angle_diff(a1, a2).small = a1 - a2 + 360
              /\ compute_angle_diff(a1, a2).big = a1 - a2
         /\ (a1 - a2 > 180 /\ a1 - a2 < 360) =>
              /\ compute_angle_diff(a1, a2).small = a1 - a2 - 360
              /\ compute_angle_diff(a1, a2).big = a1 - a2
BY DEF compute_angle_diff, fabs

(* The converted frame of an angle is not negative. *)
LEMMA ConversionType ==
  ASSUME NEW angle \in Int
  PROVE  angle_referential_conversion(angle) \in Nat
BY LimitsAssumption DEF angle_referential_conversion

(* The converted clockwise limit is a proper, positive angle. *)
LEMMA ConvertedLimit ==
  converted_CW \in 1..359
<1> DEFINE d == CW_angle_limit - CCW_angle_limit
<1>1. d \in -359..359 /\ d # 0
  BY LimitsAssumption
<1>2. d < 0 => d % 360 = d + 360
  BY <1>1
<1>3. converted_CW = IF d < 0 THEN d % 360 ELSE d
  BY DEF converted_CW, angle_referential_conversion
<1> HIDE DEF d
<1>. QED  BY <1>1, <1>2, <1>3

(* The position error is an integer whatever the reference and the angle. *)
LEMMA PosErrorType ==
  ASSUME NEW ref \in Int, NEW angle \in Int
  PROVE  PosError(ref, angle) \in Int
<1> DEFINE cw  == converted_CW - 5
           r   == angle_referential_conversion(ref)
           a   == angle_referential_conversion(angle)
           eff == EffectiveReference(ref, angle)
<1>1. r \in Int /\ a \in Int /\ cw \in Int
  BY ConversionType, ConvertedLimit
<1>2. eff = IF ~OutOfRange(angle) THEN r
            ELSE IF fabs(compute_angle_diff(r, cw).small)
                      < fabs(compute_angle_diff(r, 5).small)
                 THEN compute_angle_diff(r, cw).small
                 ELSE compute_angle_diff(r, 5).small
  BY DEF EffectiveReference
<1>3. PosError(ref, angle) \in {compute_angle_diff(eff, a).big,
                                compute_angle_diff(eff, a).small}
  BY DEF PosError
<1> HIDE DEF cw, r, a, eff
<1>4. eff \in Int
  BY <1>1, <1>2, AngleDiff
<1>. QED  BY <1>1, <1>3, <1>4, AngleDiff

(* Between two angles of the permitted arc, the error the position         *)
(* controller acts on is the way along the arc, never the shorter way      *)
(* through the forbidden sector: servo_angle + error never leaves          *)
(* [CCW limit, CW limit], whatever the limits are.                         *)
THEOREM ErrorFollowsArc ==
  ASSUME NEW ref \in Int, NEW angle \in Int, ~OutOfRange(ref), ~OutOfRange(angle)
  PROVE  PosError(ref, angle)
           = angle_referential_conversion(ref) - angle_referential_conversion(angle)
<1> DEFINE r == angle_referential_conversion(ref)
           a == angle_referential_conversion(angle)
           ad == compute_angle_diff(r, a)
<1>1. r \in Nat /\ a \in Nat /\ converted_CW \in 1..359
  BY ConversionType, ConvertedLimit
<1>2. r >= 0 /\ a >= 0 /\ r <= converted_CW /\ a <= converted_CW /\ converted_CW <= 359
  BY <1>1 DEF OutOfRange
<1>3. PosError(ref, angle) = IF LeavesRange(a, ad.small) THEN ad.big ELSE ad.small
  BY DEF PosError, EffectiveReference
<1> HIDE DEF r, a
<1>4. r - a > -360 /\ r - a < 360
  BY <1>1, <1>2
<1>5. CASE r - a >= -180 /\ r - a <= 180
  <2>1. ad.small = r - a
    BY <1>1, <1>5, AngleDiff
  <2>2. ~LeavesRange(a, ad.small)
    BY <1>1, <1>2, <2>1 DEF LeavesRange
  <2>. QED  BY <1>3, <2>1, <2>2 DEF r, a
<1>6. CASE r - a < -180
  <2>1. ad.small = r - a + 360 /\ ad.big = r - a
    BY <1>1, <1>4, <1>6, AngleDiff
  <2>2. LeavesRange(a, ad.small)
    BY <1>1, <1>2, <1>6, <2>1 DEF LeavesRange
  <2>. QED  BY <1>3, <2>1, <2>2 DEF r, a
<1>7. CASE r - a > 180
  <2>1. ad.small = r - a - 360 /\ ad.big = r - a
    BY <1>1, <1>4, <1>7, AngleDiff
  <2>2. LeavesRange(a, ad.small)
    BY <1>1, <1>2, <1>7, <2>1 DEF LeavesRange
  <2>. QED  BY <1>3, <2>1, <2>2 DEF r, a
<1>. QED  BY <1>1, <1>5, <1>6, <1>7

(* Anti-windup bounds the integral by its limit, in hundredths. *)
LEMMA IntegralBound ==
  ASSUME NEW integral \in Int, NEW e \in Int, NEW limit \in Int
  PROVE  /\ NextIntegral(integral, e, limit).term \in Int
         /\ NextIntegral(integral, e, limit).wound \in BOOLEAN
         /\ limit >= 0 => fabs(NextIntegral(integral, e, limit).term) <= 100 * limit
BY DEF NextIntegral, fabs, cycles

(* The modulated command is an int16_t, whatever the gains.                *)
LEMMA CommandType ==
  ASSUME NEW c, NEW e \in Int, NEW i \in Int, NEW d \in Int,
         c["kp"] \in Int, c["ki"] \in Int, c["kd"] \in Int, c["mod_fact"] \in Int
  PROVE  Command(c, e, i, d) \in Int16
<1> DEFINE law == Law(c, e, i, d)
           u   == ToInt16(law)
<1>1. law \in Int
  <2> DEFINE sum == cycles * (c["kp"] * e) + c["ki"] * i + cycles * cycles * (c["kd"] * d)
  <2>1. sum \in Int
    BY DEF cycles
  <2>2. law = TruncDiv(sum, 100)
    BY DEF Law, cycles
  <2> HIDE DEF sum, law
  <2>. QED  BY <2>1, <2>2, TruncDivType
<1> HIDE DEF law
<1>2. u \in Int
  BY <1>1, ToInt16Range DEF Int16
<1> HIDE DEF u
<1>3. u * c["mod_fact"] \in Int
  BY <1>2
<1>4. TruncDiv(u * c["mod_fact"], 100) \in Int
  BY <1>3, TruncDivType
<1>. QED  BY <1>4, ToInt16Range DEF Command, u, law

(* A percentage gives a bound between 0 and half of the timer's period. *)
LEMMA MaxTorqueRange ==
  ASSUME NEW percentage \in Nat
  PROVE  MaxTorque(percentage) \in 0..512
BY DEF MaxTorque

(* The programmed drive never exceeds the maximum torque, and a command of *)
(* nothing drives nothing.                                                 *)
LEMMA PwmDrive ==
  ASSUME NEW u \in Int, NEW angle \in Int, NEW max_torque \in Nat
  PROVE  /\ PwmUpdate(u, angle, max_torque).drive \in -max_torque..max_torque
         /\ u = 0 => PwmUpdate(u, angle, max_torque).drive = 0
         /\ PwmUpdate(u, angle, max_torque).flags \subseteq {"MAX_TOR_REACHED", "OOR_PID"}
<1> DEFINE c == Clamp(u, max_torque)
<1>1. c \in -max_torque..max_torque /\ (u = 0 => c = 0)
  BY DEF Clamp, fabs
<1> HIDE DEF c
<1>2. PwmUpdate(u, angle, max_torque).drive \in {0, c}
  BY DEF PwmUpdate, c
<1>3. PwmUpdate(u, angle, max_torque).flags \subseteq {"MAX_TOR_REACHED", "OOR_PID"}
  BY DEF PwmUpdate
<1>. QED  BY <1>1, <1>2, <1>3

-----------------------------------------------------------------------------
(* The shorter of the two ways round is at most half a turn, and the       *)
(* longer one at most a whole turn between two angles of one turn.         *)
LEMMA ShorterWay ==
  ASSUME NEW a1 \in Int, NEW a2 \in Int, a1 - a2 >= -540, a1 - a2 <= 540
  PROVE  /\ compute_angle_diff(a1, a2).small \in Int
         /\ compute_angle_diff(a1, a2).big \in Int
         /\ compute_angle_diff(a1, a2).small >= -180
         /\ compute_angle_diff(a1, a2).small <= 180
         /\ (a1 - a2 > -360 /\ a1 - a2 < 360) =>
              /\ compute_angle_diff(a1, a2).big >= -360
              /\ compute_angle_diff(a1, a2).big <= 360
BY DEF compute_angle_diff, fabs

(* The converted frame of an angle of one turn is an angle of one turn. *)
LEMMA ConvertedTurn ==
  ASSUME NEW angle \in Nat, angle <= 359
  PROVE  angle_referential_conversion(angle) \in Nat
         /\ angle_referential_conversion(angle) <= 359
<1> DEFINE d == angle - CCW_angle_limit
<1>1. d \in Int /\ d >= -359 /\ d <= 359
  BY LimitsAssumption
<1>2. d < 0 => d % 360 = d + 360
  BY <1>1
<1>3. angle_referential_conversion(angle) = IF d < 0 THEN d % 360 ELSE d
  BY DEF angle_referential_conversion
<1> HIDE DEF d
<1>. QED  BY <1>1, <1>2, <1>3

(* The position error never exceeds a turn, inside of the arc and outside. *)
LEMMA PosErrorBound ==
  ASSUME NEW ref \in Nat, ref <= 359, NEW angle \in Nat, angle <= 359
  PROVE  /\ PosError(ref, angle) \in Int
         /\ PosError(ref, angle) >= -360 /\ PosError(ref, angle) <= 360
<1> DEFINE cw  == converted_CW - 5
           ccw == 5
           r   == angle_referential_conversion(ref)
           a   == angle_referential_conversion(angle)
           eff == EffectiveReference(ref, angle)
<1>1. /\ r \in Nat /\ r <= 359 /\ a \in Nat /\ a <= 359
      /\ cw \in Int /\ cw >= -4 /\ cw <= 354 /\ ccw \in Int /\ ccw = 5
  <2>1. converted_CW \in Int /\ converted_CW >= 1 /\ converted_CW <= 359
    BY ConvertedLimit
  <2>. QED  BY <2>1, ConvertedTurn
<1>2. eff = IF ~OutOfRange(angle) THEN r
            ELSE IF fabs(compute_angle_diff(r, cw).small)
                      < fabs(compute_angle_diff(r, ccw).small)
                 THEN compute_angle_diff(r, cw).small
                 ELSE compute_angle_diff(r, ccw).small
  BY DEF EffectiveReference
<1>3. PosError(ref, angle) =
        IF ~OutOfRange(angle) /\ LeavesRange(a, compute_angle_diff(eff, a).small)
        THEN compute_angle_diff(eff, a).big ELSE compute_angle_diff(eff, a).small
  BY DEF PosError
<1> HIDE DEF cw, ccw, r, a, eff
<1>4. CASE ~OutOfRange(angle)
  <2>1. eff = r /\ r - a > -360 /\ r - a < 360
    BY <1>1, <1>2, <1>4
  <2>2. /\ compute_angle_diff(r, a).small \in Int
        /\ compute_angle_diff(r, a).small >= -180
        /\ compute_angle_diff(r, a).small <= 180
        /\ compute_angle_diff(r, a).big \in Int
        /\ compute_angle_diff(r, a).big >= -360
        /\ compute_angle_diff(r, a).big <= 360
    <3>1. r - a >= -540 /\ r - a <= 540
      BY <1>1
    <3>. QED  BY <1>1, <2>1, <3>1, ShorterWay
  <2>. QED  BY <1>3, <2>1, <2>2
<1>5. CASE OutOfRange(angle)
  <2>1. eff \in Int /\ eff >= -180 /\ eff <= 180
    <3>1. r - cw >= -540 /\ r - cw <= 540 /\ r - ccw >= -540 /\ r - ccw <= 540
      BY <1>1
    <3>2. /\ compute_angle_diff(r, cw).small \in Int
          /\ compute_angle_diff(r, cw).small >= -180
          /\ compute_angle_diff(r, cw).small <= 180
      BY <1>1, <3>1, ShorterWay
    <3>3. /\ compute_angle_diff(r, ccw).small \in Int
          /\ compute_angle_diff(r, ccw).small >= -180
          /\ compute_angle_diff(r, ccw).small <= 180
      BY <1>1, <3>1, ShorterWay
    <3>. QED  BY <1>2, <1>5, <3>2, <3>3
  <2>2. eff - a >= -540 /\ eff - a <= 540
    BY <1>1, <2>1
  <2>3. /\ compute_angle_diff(eff, a).small \in Int
        /\ compute_angle_diff(eff, a).small >= -180
        /\ compute_angle_diff(eff, a).small <= 180
    BY <1>1, <2>1, <2>2, ShorterWay
  <2>. QED  BY <1>3, <1>5, <2>3
<1>. QED  BY <1>4, <1>5

(* A gain times an error is bounded by the bounds of both. *)
LEMMA ProductBound ==
  ASSUME NEW K \in Nat, NEW k \in Nat, k <= K,
         NEW E \in Nat, NEW x \in Int, -E <= x, x <= E
  PROVE  k * x \in Int /\ k * x <= K * E /\ k * x >= -(K * E)
<1>1. PICK d \in Nat : K = k + d
  <2>. K - k \in Nat /\ K = k + (K - k)
    OBVIOUS
  <2>. QED  OBVIOUS
<1>2. k \in Nat /\ d * E \in Nat /\ K * E = k * E + d * E
  BY <1>1
<1>3. E - x \in Nat /\ E + x \in Nat
  OBVIOUS
<1>4. k * (E - x) \in Nat /\ k * (E + x) \in Nat
  BY <1>2, <1>3
<1>5. k * (E - x) = k * E - k * x /\ k * (E + x) = k * E + k * x
  BY <1>2
<1>6. k * E \in Int /\ k * x \in Int
  BY <1>2
<1>. QED  BY <1>2, <1>4, <1>5, <1>6

(* The same for an error of one turn, and for a change of error of two.    *)
LEMMA TurnProduct ==
  ASSUME NEW K \in Nat, NEW k \in Nat, k <= K, NEW x \in Int, -360 <= x, x <= 360
  PROVE  k * x \in Int /\ k * x <= K * 360 /\ -(K * 360) <= k * x
<1> DEFINE E == 360
<1>1. E \in Nat /\ -E <= x /\ x <= E
  OBVIOUS
<1> HIDE DEF E
<1>2. k * x \in Int /\ k * x <= K * E /\ k * x >= -(K * E)
  BY <1>1, ProductBound
<1>. QED  BY <1>2 DEF E

(* A gain times a change of error of at most two turns. *)
LEMMA TurnsProduct ==
  ASSUME NEW K \in Nat, NEW k \in Nat, k <= K, NEW x \in Int, -720 <= x, x <= 720
  PROVE  k * x \in Int /\ k * x <= K * 720 /\ -(K * 720) <= k * x
<1> DEFINE E == 720
<1>1. E \in Nat /\ -E <= x /\ x <= E
  OBVIOUS
<1> HIDE DEF E
<1>2. k * x \in Int /\ k * x <= K * E /\ k * x >= -(K * E)
  BY <1>1, ProductBound
<1>. QED  BY <1>2 DEF E
===============================================================================
