------------------------- MODULE PositionLoopProofs -------------------------
(***************************************************************************)
(* The motor never turns the joint out of its arc, and the speed is the    *)
(* way the joint made: for all limits, gains, references and starting      *)
(* positions, any number of orders and pushes, and every pace of the joint *)
(* that PaceAssumption allows.                                             *)
(***************************************************************************)
EXTENDS PositionLoop, ServoControlProofs

-----------------------------------------------------------------------------
(* Multiples of MaxStep, the only products in the invariant. *)

(* One more step of the largest size. *)
LEMMA OneMoreStep ==
  ASSUME NEW n \in Nat
  PROVE  /\ n * MaxStep \in Nat
         /\ (n + 1) * MaxStep = n * MaxStep + MaxStep
BY PaceAssumption

(* More steps of the largest size go at least as far. *)
LEMMA Monotone ==
  ASSUME NEW n \in Nat, NEW m \in Nat, n <= m
  PROVE  n * MaxStep <= m * MaxStep
<1>1. PICK k \in Nat : m = n + k
  <2>. m - n \in Nat /\ m = n + (m - n)
    OBVIOUS
  <2>. QED  OBVIOUS
<1>2. (n + k) * MaxStep = n * MaxStep + k * MaxStep /\ k * MaxStep \in Nat /\ n * MaxStep \in Nat
  BY PaceAssumption
<1>. QED  BY <1>1, <1>2

(* What the joint moves in MaxAge + 1 periods is less than the tolerance   *)
(* and one degree.                                                         *)
LEMMA Pace ==
  /\ MaxStep \in Nat /\ MaxAge \in Nat \ {0} /\ Disturbances \in Nat
  /\ MaxAge * MaxStep \in Nat
  /\ MaxAge * MaxStep + MaxStep <= 6
BY PaceAssumption, OneMoreStep DEF limit_tol

(* The sensor reads a position of the arc as an angle that converts back.  *)
LEMMA SensorReadsPosition ==
  ASSUME NEW p \in InArc
  PROVE  /\ (p + CCW_angle_limit) % 360 \in 0..359
         /\ angle_referential_conversion((p + CCW_angle_limit) % 360) = p
<1>1. p \in 0..359 /\ CCW_angle_limit \in 0..359
  BY ConvertedLimit, LimitsAssumption DEF InArc
<1>2. CASE p + CCW_angle_limit < 360
  <2>1. (p + CCW_angle_limit) % 360 = p + CCW_angle_limit
    BY <1>1, <1>2
  <2>. QED  BY <1>1, <1>2, <2>1 DEF angle_referential_conversion
<1>3. CASE p + CCW_angle_limit >= 360
  <2>1. (p + CCW_angle_limit) % 360 = p + CCW_angle_limit - 360
    BY <1>1, <1>3
  <2>2. (p - 360) % 360 = p
    BY <1>1
  <2>. QED  BY <1>1, <1>3, <2>1, <2>2 DEF angle_referential_conversion
<1>. QED  BY <1>1, <1>2, <1>3

(* The driver programs a drive only in the direction of the command and    *)
(* away from the limit that lies that way.                                 *)
LEMMA DriveKeepsClear ==
  ASSUME NEW u \in Int, NEW angle \in Int, NEW max \in Nat
  PROVE  LET d == PwmUpdate(u, angle, max).drive
             c == angle_referential_conversion(angle)
         IN  /\ d \in Int
             /\ u = 0 => d = 0
             /\ d > 0 => c <= converted_CW - 6
             /\ d < 0 => c >= 6
<1> DEFINE c == angle_referential_conversion(angle)
           v == Clamp(u, max)
<1>1. c \in Int /\ converted_CW \in Int
  BY ConversionType, ConvertedLimit
<1>2. v \in Int /\ (u = 0 => v = 0)
  BY DEF Clamp, fabs
<1>3. PwmUpdate(u, angle, max).drive = IF AtLimit(v, c) THEN 0 ELSE v
  BY DEF PwmUpdate
<1> HIDE DEF c, v
<1>4. /\ v < 0 /\ ~AtLimit(v, c) => c >= 6
      /\ v >= 0 /\ ~AtLimit(v, c) => c <= converted_CW - 6
  BY <1>1, <1>2 DEF AtLimit, limit_tol
<1>. QED  BY <1>1, <1>2, <1>3, <1>4 DEF c

-----------------------------------------------------------------------------
(* The inductive invariant.  The angle that the driver looks at is behind  *)
(* the joint by at most what the joint moved since, so a drive is only in  *)
(* force where the joint has room for the rest of the period.              *)

MeasuredNearby ==
  measured_once =>
    LET c == angle_referential_conversion(measured)
    IN  /\ position - c <= age * MaxStep + moved
        /\ c - position <= age * MaxStep + moved

IdleBeforeMeasurement == ~measured_once => pid.output = 0 /\ drive = 0

RoomToDrive ==
  /\ drive > 0 => position <= converted_CW - 6 + MaxAge * MaxStep + moved
  /\ drive < 0 => position >= 6 - MaxAge * MaxStep - moved

IInv ==
  /\ TypeOK
  /\ JointStaysInArc
  /\ MeasuredNearby
  /\ IdleBeforeMeasurement
  /\ RoomToDrive

(* The gains and limits of the loop are naturals. *)
LEMMA GainTypes ==
  \A g \in {"kp", "ki", "kd", "int_limit", "mod_fact", "max_torque"} : Gains[g] \in Nat
BY PaceAssumption

(* The loop starts within the bounds of the invariant. *)
LEMMA InitInv == Init => IInv
<1> SUFFICES ASSUME Init PROVE IInv
  OBVIOUS
<1>1. 0 \in Int16
  BY DEF Int16
<1>2. Gains["int_limit"] \in Nat
  BY GainTypes
<1>3. TypeOK
  <2>1. position \in Int
    BY PaceAssumption, ConvertedLimit DEF Init
  <2>2. pid \in [integral : -cycles * Gains["int_limit"]..cycles * Gains["int_limit"],
                prev_e : Int, output : Int16]
    BY <1>1, <1>2 DEF Init, cycles
  <2>3. moved \in 0..MaxStep /\ age \in 0..MaxAge /\ left \in 0..Disturbances
    BY Pace DEF Init
  <2>4. switch \in [enabled : BOOLEAN, set : BOOLEAN] /\ measured_once \in BOOLEAN
    BY DEF Init
  <2>5. measured \in 0..359 /\ reference \in 0..359 /\ speed \in Int /\ drive \in Int
    BY DEF Init
  <2>. QED  BY <2>1, <2>2, <2>3, <2>4, <2>5 DEF TypeOK
<1>4. JointStaysInArc
  BY PaceAssumption DEF Init, JointStaysInArc, InArc
<1>. QED
  BY <1>3, <1>4 DEF Init, IInv, MeasuredNearby, IdleBeforeMeasurement, RoomToDrive

(* The facts of the current state that the steps use. *)
LEMMA Facts ==
  ASSUME IInv
  PROVE  /\ position \in Int /\ 0 <= position /\ position <= converted_CW
         /\ converted_CW \in 1..359
         /\ moved \in Nat /\ moved <= MaxStep
         /\ age \in Nat /\ age <= MaxAge
         /\ age * MaxStep \in Nat /\ age * MaxStep <= MaxAge * MaxStep
         /\ (age + 1) * MaxStep = age * MaxStep + MaxStep
         /\ drive \in Int
         /\ measured \in 0..359
         /\ angle_referential_conversion(measured) \in Nat
<1>1. age \in 0..MaxAge /\ MaxAge \in Nat /\ moved \in 0..MaxStep /\ MaxStep \in Nat
  BY Pace DEF IInv, TypeOK
<1>2. /\ age * MaxStep \in Nat
      /\ age * MaxStep <= MaxAge * MaxStep
      /\ (age + 1) * MaxStep = age * MaxStep + MaxStep
  BY <1>1, OneMoreStep, Monotone
<1>3. angle_referential_conversion(measured) \in Nat
  BY ConversionType DEF IInv, TypeOK
<1>. QED
  BY <1>1, <1>2, <1>3, ConvertedLimit DEF IInv, TypeOK, JointStaysInArc, InArc

(* A step of the joint, in the direction of its drive or staying in the    *)
(* arc, keeps the invariant.                                               *)
LEMMA TurnInv ==
  ASSUME IInv, NEW d \in Int, Turn(d), left' \in 0..Disturbances,
         \/ position + d \in InArc
         \/ d >= 0 /\ drive > 0
         \/ d <= 0 /\ drive < 0
  PROVE  IInv'
<1> USE Facts, Pace
<1>1. /\ fabs(d) \in Nat /\ d <= fabs(d) /\ -d <= fabs(d)
      /\ moved' = moved + fabs(d) /\ moved + fabs(d) <= MaxStep
      /\ position' = position + d
  BY DEF Turn, fabs
<1>2. UNCHANGED <<measured, measured_once, speed, age, switch, reference, pid, drive>>
  BY DEF Turn
<1> DEFINE a == age * MaxStep
           b == MaxAge * MaxStep
           c == angle_referential_conversion(measured)
<1>3. a \in Nat /\ b \in Nat /\ c \in Nat
  OBVIOUS
<1>4. TypeOK'
  BY <1>1, <1>2 DEF IInv, TypeOK
<1>5. JointStaysInArc'
  <2>1. CASE position + d \in InArc
    BY <2>1, <1>1 DEF JointStaysInArc
  <2>2. CASE d >= 0 /\ drive > 0
    <3>1. position <= converted_CW - 6 + b + moved
      BY <2>2 DEF IInv, RoomToDrive
    <3>2. fabs(d) = d
      BY <2>2 DEF fabs
    <3> HIDE DEF b
    <3>3. b + MaxStep <= 6
      BY DEF b
    <3>. QED  BY <1>1, <1>3, <2>2, <3>1, <3>2, <3>3 DEF JointStaysInArc, InArc
  <2>3. CASE d <= 0 /\ drive < 0
    <3>1. position >= 6 - b - moved
      BY <2>3 DEF IInv, RoomToDrive
    <3>2. fabs(d) = -d
      BY <2>3 DEF fabs
    <3> HIDE DEF b
    <3>3. b + MaxStep <= 6
      BY DEF b
    <3>. QED  BY <1>1, <1>3, <2>3, <3>1, <3>2, <3>3 DEF JointStaysInArc, InArc
  <2>. QED  BY <2>1, <2>2, <2>3
<1>6. MeasuredNearby'
  <2>1. measured_once => position - c <= a + moved /\ c - position <= a + moved
    BY DEF IInv, MeasuredNearby
  <2>2. SUFFICES ASSUME measured_once
                 PROVE  position' - c <= a + moved' /\ c - position' <= a + moved'
    BY <1>2 DEF MeasuredNearby
  <2> HIDE DEF a, c
  <2>. QED  BY <1>1, <1>3, <2>1, <2>2
<1>7. IdleBeforeMeasurement'
  BY <1>2 DEF IInv, IdleBeforeMeasurement
<1>8. RoomToDrive'
  <2>1. /\ drive > 0 => position <= converted_CW - 6 + b + moved
        /\ drive < 0 => position >= 6 - b - moved
    BY DEF IInv, RoomToDrive
  <2>2. RoomToDrive' = /\ drive > 0 => position' <= converted_CW - 6 + b + moved'
                       /\ drive < 0 => position' >= 6 - b - moved'
    BY <1>2 DEF RoomToDrive
  <2> HIDE DEF b
  <2>. QED  BY <1>1, <1>3, <2>1, <2>2
<1>. QED  BY <1>4, <1>5, <1>6, <1>7, <1>8 DEF IInv

(* The driver stops a drive for which the joint would have no room. *)
LEMMA SyncInv ==
  ASSUME IInv, process_sync_order
  PROVE  IInv'
<1> USE Facts, Pace
<1> DEFINE u == IF switch.enabled /\ switch.set THEN pid.output ELSE 0
           c == angle_referential_conversion(measured)
           a == age * MaxStep
           b == MaxAge * MaxStep
<1>1. /\ age < MaxAge /\ age' = age + 1 /\ moved' = 0
      /\ drive' = PwmUpdate(u, measured, Gains["max_torque"]).drive
      /\ UNCHANGED <<position, measured, measured_once, speed, switch, reference, pid, left>>
  BY DEF process_sync_order
<1>2. u \in Int /\ (~measured_once => u = 0)
  BY DEF IInv, TypeOK, Int16, IdleBeforeMeasurement
<1>3. Gains["max_torque"] \in Nat
  BY GainTypes
<1>4. /\ drive' \in Int
      /\ u = 0 => drive' = 0
      /\ drive' > 0 => c <= converted_CW - 6
      /\ drive' < 0 => c >= 6
  <2>1. measured \in Int
    OBVIOUS
  <2> HIDE DEF u
  <2>2. LET d == PwmUpdate(u, measured, Gains["max_torque"]).drive
        IN  /\ d \in Int
            /\ u = 0 => d = 0
            /\ d > 0 => c <= converted_CW - 6
            /\ d < 0 => c >= 6
    BY ONLY <1>2, <1>3, <2>1, DriveKeepsClear
  <2>. QED  BY <1>1, <2>2
<1>5. a \in Nat /\ b \in Nat /\ c \in Nat /\ a + MaxStep <= b
  <2>1. (age + 1) * MaxStep <= MaxAge * MaxStep
    BY <1>1, Monotone
  <2>. QED  BY <2>1
<1>6. measured_once => position - c <= a + moved /\ c - position <= a + moved
  BY DEF IInv, MeasuredNearby
<1>7. TypeOK'
  BY <1>1, <1>4 DEF IInv, TypeOK
<1>8. JointStaysInArc'
  BY <1>1 DEF IInv, JointStaysInArc
<1>9. MeasuredNearby'
  <2>1. SUFFICES ASSUME measured_once
                 PROVE  /\ position - c <= (age + 1) * MaxStep + 0
                        /\ c - position <= (age + 1) * MaxStep + 0
    BY <1>1 DEF MeasuredNearby
  <2>2. (age + 1) * MaxStep = a + MaxStep
    OBVIOUS
  <2> HIDE DEF a, c
  <2>. QED  BY <1>5, <1>6, <2>1, <2>2
<1>10. IdleBeforeMeasurement'
  BY <1>1, <1>2, <1>4 DEF IInv, IdleBeforeMeasurement
<1>11. RoomToDrive'
  <2>1. RoomToDrive' = /\ drive' > 0 => position <= converted_CW - 6 + b + 0
                       /\ drive' < 0 => position >= 6 - b - 0
    BY <1>1 DEF RoomToDrive
  <2>2. drive' # 0 => measured_once
    BY <1>2, <1>4
  <2> HIDE DEF a, b, c, u
  <2>. QED  BY <1>4, <1>5, <1>6, <2>1, <2>2
<1>. QED  BY <1>7, <1>8, <1>9, <1>10, <1>11 DEF IInv

(* A measurement brings the angle back to the joint. *)
LEMMA LoopInv ==
  ASSUME IInv, task_main_loop
  PROVE  IInv'
<1> USE Facts, Pace
<1>1. /\ age' = 0 /\ measured' = SensorAngle /\ measured_once' = TRUE
      /\ speed' = Speed(SensorAngle)
      /\ IF switch.enabled THEN pos_pid_controller(SensorAngle) ELSE UNCHANGED pid
      /\ UNCHANGED <<position, moved, switch, reference, drive, left>>
  BY DEF task_main_loop
<1>2. /\ SensorAngle \in 0..359
      /\ angle_referential_conversion(SensorAngle) = position
  <2>1. position \in InArc
    BY DEF IInv, JointStaysInArc
  <2>. QED  BY <2>1, SensorReadsPosition DEF SensorAngle
<1>3. speed' \in Int
  <2>1. measured \in Int /\ SensorAngle \in Int
    BY <1>2
  <2>2. compute_angle_diff(SensorAngle, measured).small \in Int
    BY <2>1, AngleDiff
  <2>. QED  BY <1>1, <2>2 DEF Speed, cycles
<1>4. pid' \in [integral : -cycles * Gains["int_limit"]..cycles * Gains["int_limit"],
               prev_e : Int, output : Int16]
  <2>1. CASE ~switch.enabled
    BY <1>1, <2>1 DEF IInv, TypeOK
  <2>2. CASE switch.enabled
    <3> DEFINE e == PosError(reference, SensorAngle)
               i == NextIntegral(pid.integral, e, Gains["int_limit"]).term
    <3>1. pid' = [integral |-> i, prev_e |-> e,
                  output |-> Command(Gains, e, i, e - pid.prev_e)]
      BY <1>1, <2>2 DEF pos_pid_controller
    <3>2. e \in Int
      <4>1. reference \in Int /\ SensorAngle \in Int
        BY <1>2 DEF IInv, TypeOK
      <4>. QED  BY <4>1, PosErrorType
    <3> HIDE DEF e
    <3>3. Gains["int_limit"] \in Nat
      BY GainTypes
    <3>4. pid.integral \in Int /\ pid.prev_e \in Int
      BY <3>3 DEF IInv, TypeOK, cycles
    <3>5. i \in Int /\ fabs(i) <= 100 * Gains["int_limit"]
      <4>1. Gains["int_limit"] \in Int /\ Gains["int_limit"] >= 0
        BY <3>3
      <4>. QED  BY ONLY <3>2, <3>4, <4>1, IntegralBound
    <3> HIDE DEF i
    <3>6. i \in -cycles * Gains["int_limit"]..cycles * Gains["int_limit"]
      BY <3>3, <3>5 DEF fabs, cycles
    <3>7. Command(Gains, e, i, e - pid.prev_e) \in Int16
      BY <3>2, <3>4, <3>5, GainTypes, CommandType
    <3>. QED  BY <3>1, <3>2, <3>6, <3>7
  <2>. QED  BY <2>1, <2>2
<1>5. TypeOK'
  BY <1>1, <1>2, <1>3, <1>4 DEF IInv, TypeOK
<1>6. JointStaysInArc'
  BY <1>1 DEF IInv, JointStaysInArc
<1>7. MeasuredNearby'
  BY <1>1, <1>2 DEF MeasuredNearby
<1>8. IdleBeforeMeasurement'
  BY <1>1 DEF IdleBeforeMeasurement
<1>9. RoomToDrive'
  BY <1>1 DEF IInv, RoomToDrive
<1>. QED  BY <1>5, <1>6, <1>7, <1>8, <1>9 DEF IInv

(* Every step of the loop and of the joint keeps the invariant. *)
LEMMA StepInv == IInv /\ [Next]_vars => IInv'
<1> SUFFICES ASSUME IInv, [Next]_vars PROVE IInv'
  OBVIOUS
<1>0. left > 0 /\ left' = left - 1 => left' \in 0..Disturbances
  BY Pace DEF IInv, TypeOK
<1>1. ASSUME NEW r \in References, left > 0, left' = left - 1, WriteReference(r)
      PROVE IInv'
  <2>1. UNCHANGED <<position, moved, measured, measured_once, speed, age, pid, drive>>
    BY <1>1 DEF WriteReference
  <2>2. r \in 0..359 /\ left' \in 0..Disturbances
    BY <1>0, <1>1, PaceAssumption
  <2>3. TypeOK'
    BY <1>1, <2>1, <2>2 DEF WriteReference, IInv, TypeOK
  <2>. QED
    BY <2>1, <2>3 DEF IInv, JointStaysInArc, MeasuredNearby, IdleBeforeMeasurement, RoomToDrive
<1>2. ASSUME NEW on \in BOOLEAN, left > 0, left' = left - 1, process_pid_pos_order(on)
      PROVE IInv'
  <2>1. /\ UNCHANGED <<position, moved, measured, measured_once, speed, age, reference, drive>>
        /\ switch' \in [enabled : BOOLEAN, set : BOOLEAN]
        /\ pid' \in {pid, [pid EXCEPT !.output = 0]}
    BY <1>2 DEF process_pid_pos_order, IInv, TypeOK
  <2>2. 0 \in Int16
    BY DEF Int16
  <2>3. TypeOK' /\ (pid.output = 0 => pid'.output = 0)
    BY <1>0, <1>2, <2>1, <2>2 DEF IInv, TypeOK
  <2>. QED
    BY <2>1, <2>3 DEF IInv, JointStaysInArc, MeasuredNearby, IdleBeforeMeasurement, RoomToDrive
<1>3. CASE process_sync_order
  BY <1>3, SyncInv
<1>4. CASE task_main_loop
  BY <1>4, LoopInv
<1>5. CASE Driven
  <2>1. left' \in 0..Disturbances
    BY <1>5 DEF Driven, IInv, TypeOK
  <2>2. PICK d \in Steps : (drive > 0 /\ Turn(d)) \/ (drive < 0 /\ Turn(-d))
    BY <1>5 DEF Driven
  <2>3. d \in Nat
    BY PaceAssumption
  <2>. QED  BY <2>1, <2>2, <2>3, TurnInv
<1>6. CASE Pushed
  <2>1. left' \in 0..Disturbances
    BY <1>0, <1>6 DEF Pushed
  <2>2. PICK d \in Steps : \E way \in {d, -d} : position + way \in InArc /\ Turn(way)
    BY <1>6 DEF Pushed
  <2>3. PICK way \in {d, -d} : position + way \in InArc /\ Turn(way)
    BY <2>2
  <2>4. way \in Int
    BY PaceAssumption
  <2>. QED  BY <2>1, <2>3, <2>4, TurnInv
<1>7. CASE UNCHANGED vars
  BY <1>7 DEF vars, IInv, TypeOK, JointStaysInArc, MeasuredNearby, IdleBeforeMeasurement,
              RoomToDrive
<1>. QED  BY <1>1, <1>2, <1>3, <1>4, <1>5, <1>6, <1>7 DEF Next, Orders

(* The invariant holds throughout. *)
LEMMA Invariance == Spec => []IInv
BY InitInv, StepInv, PTL DEF Spec

(* The joint stays in its arc, whatever the limits, gains, references and  *)
(* orders, although every drive is decided on an angle that is up to       *)
(* MaxAge periods old (main.c:121-152, pwm.c:71-96).                       *)
THEOREM StaysInArc == Spec => []JointStaysInArc
<1>1. IInv => JointStaysInArc
  BY DEF IInv
<1>. QED  BY <1>1, Invariance, PTL

(* Every variable keeps its type; the integral keeps its limit. *)
THEOREM TypeCorrect == Spec => []TypeOK
<1>1. IInv => TypeOK
  BY DEF IInv
<1>. QED  BY <1>1, Invariance, PTL

-----------------------------------------------------------------------------
(* The speed of two readings of the arc is the way between them, whether   *)
(* or not the zero of the sensor lies there, as long as it is less than    *)
(* half a turn.                                                            *)
LEMMA SpeedAcrossZero ==
  ASSUME NEW p \in 0..359, NEW m \in 0..359,
         p - angle_referential_conversion(m) < 180,
         angle_referential_conversion(m) - p < 180
  PROVE  compute_angle_diff((p + CCW_angle_limit) % 360, m).small
           = p - angle_referential_conversion(m)
<1> DEFINE c == angle_referential_conversion(m)
           s == (p + CCW_angle_limit) % 360
<1>1. CCW_angle_limit \in 0..359
  BY LimitsAssumption
<1>2. s \in {p + CCW_angle_limit, p + CCW_angle_limit - 360} /\ s \in 0..359
  <2>1. CASE p + CCW_angle_limit < 360
    <3>1. (p + CCW_angle_limit) % 360 = p + CCW_angle_limit
      BY <1>1, <2>1
    <3>. QED  BY <1>1, <2>1, <3>1
  <2>2. CASE p + CCW_angle_limit >= 360
    <3>1. (p + CCW_angle_limit) % 360 = p + CCW_angle_limit - 360
      BY <1>1, <2>2
    <3>. QED  BY <1>1, <2>2, <3>1
  <2>. QED  BY <1>1, <2>1, <2>2
<1>3. c \in {m - CCW_angle_limit, m - CCW_angle_limit + 360} /\ c \in Nat
  <2>1. CASE m >= CCW_angle_limit
    BY <1>1, <2>1 DEF angle_referential_conversion
  <2>2. CASE m < CCW_angle_limit
    <3>1. (m - CCW_angle_limit) % 360 = m - CCW_angle_limit + 360
      BY <1>1, <2>2
    <3>. QED  BY <1>1, <2>2, <3>1 DEF angle_referential_conversion
  <2>. QED  BY <1>1, <2>1, <2>2
<1>4. p - c < 180 /\ c - p < 180
  OBVIOUS
<1> HIDE DEF c, s
<1>5. s - m \in {p - c, p - c + 360, p - c - 360} /\ s - m > -360 /\ s - m < 360
  BY <1>1, <1>2, <1>3
<1>6. p - c \in -179..179
  BY <1>3, <1>4
<1>7. s - m = p - c => compute_angle_diff(s, m).small = p - c
  BY <1>2, <1>6 DEF compute_angle_diff, fabs
<1>8. s - m = p - c + 360 => compute_angle_diff(s, m).small = p - c
  BY <1>2, <1>5, <1>6 DEF compute_angle_diff, fabs
<1>9. s - m = p - c - 360 => compute_angle_diff(s, m).small = p - c
  BY <1>2, <1>5, <1>6 DEF compute_angle_diff, fabs
<1>. QED
  BY <1>5, <1>7, <1>8, <1>9 DEF c, s

(* The speed is the way the joint made since the last measurement, across  *)
(* the zero of the sensor and over merged SYNCs as well (main.c:598-613).  *)
THEOREM SpeedIsTheWay == Spec => SpeedTruthful
<1>1. ASSUME IInv, task_main_loop, measured_once
      PROVE  speed' = cycles * (position - angle_referential_conversion(measured))
  <2> DEFINE c == angle_referential_conversion(measured)
  <2>1. speed' = cycles * compute_angle_diff(SensorAngle, measured).small
    BY <1>1 DEF task_main_loop, Speed
  <2>2. position \in 0..359 /\ measured \in 0..359 /\ c \in Nat
    BY <1>1, Facts
  <2>3. position - c < 180 /\ c - position < 180
    <3>1. position - c <= age * MaxStep + moved /\ c - position <= age * MaxStep + moved
      BY <1>1 DEF IInv, MeasuredNearby
    <3>2. age * MaxStep + moved \in Nat /\ age * MaxStep + moved <= 6
      BY <1>1, Facts, Pace
    <3> HIDE DEF c
    <3>. QED  BY <2>2, <3>1, <3>2
  <2>. QED  BY <2>1, <2>2, <2>3, SpeedAcrossZero DEF SensorAngle
<1>2. IInv /\ [Next]_vars =>
        [task_main_loop /\ measured_once =>
           speed' = cycles * (position - angle_referential_conversion(measured))]_vars
  BY <1>1
<1>. QED  BY <1>2, Invariance, PTL DEF Spec, SpeedTruthful
=============================================================================
