----------------------------- MODULE Telemetry -----------------------------
(***************************************************************************)
(* What the motherboard hears of a servo's sensors: the control task reads *)
(* them one after the other, in transactions that the sensors do not wait  *)
(* for; the order task answers a GET in between, with what the control     *)
(* task has stored so far; the motherboard converts the answer back.       *)
(*                                                                         *)
(* Angles and accelerations are counts of their sensors, currents are      *)
(* counts of the ADC, speeds are hundredths of a degree per second.  The   *)
(* three axes and the angular rates are read by the same function: one     *)
(* acceleration stands for all.  `truth' and `sent' are what the sensors   *)
(* had to say, for the properties only.                                    *)
(***************************************************************************)
EXTENDS FixedPoint, ServoControl, FiniteSets

CONSTANTS
  Samples,     (* accelerations                                              *)
  Angles,      (* 12-bit angles                                              *)
  Statuses,    (* OCF, COF, LIN, INC and DEC of the magnetic sensor, 5 bits  *)
  Flips,       (* masks of the bits that the line may flip, one at a time    *)
  Currents,    (* conversions of the ADC                                     *)
  NB_SAMPLES   (* conversions per reading of the current                     *)

(* Unsigned numbers of 8 and of 12 bits. *)
Byte == {n \in Nat : n <= 255}

Count12 == {n \in Nat : n <= 4095}

ASSUME SensorAssumption ==
  /\ Samples \subseteq Int16
  /\ Angles \subseteq Count12
  /\ Statuses \subseteq 0..31
  /\ Flips \subseteq Nat \ {0}
  /\ Currents \subseteq Count12
  /\ NB_SAMPLES \in Nat \ {0}

VARIABLES
  pc,          (* where the control task is                                  *)
  imu,         (* the acceleration, now                                      *)
  sent,        (* the word of the magnetic sensor, and whether a bit flipped *)
  flag,        (* MAGN_SENSOR_FLAG                                           *)
  reading,     (* what read_mag_sensor returned, until it is stored          *)
  angle,       (* servo_angle and servo_motor_speed                          *)
  low,         (* the low byte of an acceleration, until the high one        *)
  acc,         (* servo_linear_acc_x, with the truth at its high byte        *)
  adc,         (* the converter of the current                               *)
  mean,        (* the loop of read_curr_sensor, counting what is fresh       *)
  current,     (* the current                                                *)
  heard        (* the answer the motherboard is taking in                    *)

vars == <<pc, imu, sent, flag, reading, angle, low, acc, adc, mean, current, heard>>

NotRead == -1

Nothing == [info |-> "none"]

NoLoop == [count |-> 0, sum |-> 0, stale |-> 0, fresh |-> 0]

Init ==
  /\ pc = "notified"
  /\ imu \in Samples
  /\ sent = [word |-> 0, flipped |-> FALSE]
  /\ flag = FALSE
  /\ reading = NotRead
  /\ angle = [servo |-> NotRead, speed |-> 0]
  /\ low = 0
  /\ acc = [count |-> 0, truth |-> 0]
  /\ adc = [busy |-> FALSE, eoc |-> FALSE, data |-> 0, fresh |-> FALSE]
  /\ mean = NoLoop
  /\ current = 0
  /\ heard = Nothing

-----------------------------------------------------------------------------
(* The magnetic sensor: 12 bits of angle, 5 of status and one of parity. *)

OCF == 32
COF == 16
LIN == 8

Bit(v, mask) == (v \div mask) % 2

Parity(v) == Cardinality({i \in 0..17 : Bit(v, 2^i) = 1}) % 2

Word(a, status) == LET v == a * 32 + status IN v * 2 + Parity(v)

Flip(v, mask) == IF Bit(v, mask) = 1 THEN v - mask ELSE v + mask

SuspiciousParityLess(v) == Bit(v, COF) = 1 \/ Bit(v, LIN) = 1

(* "!status >> 5" is 0 or 1, shifted out: the first test never holds,      *)
(* whatever OCF is.                                                        *)
Suspicious(v) ==
  \/ Bit(IF v % 64 = 0 THEN 1 ELSE 0, OCF) = 1
  \/ Bit(v, COF) = 1
  \/ Bit(v, LIN) = 1
  \/ Parity(v \div 2) # v % 2

clear_all_flags ==
  /\ pc = "notified"
  /\ pc' = "mag"
  /\ flag' = FALSE
  /\ UNCHANGED <<imu, sent, reading, angle, low, acc, adc, mean, current>>

read_mag_sensor ==
  /\ pc = "mag"
  /\ pc' = "angle"
  /\ \E a \in Angles, s \in Statuses :
       \E v \in {Word(a, s)} \union {Flip(Word(a, s), mask) : mask \in Flips} :
         /\ sent' = [word |-> Word(a, s), flipped |-> v # Word(a, s)]
         /\ flag' = (flag \/ Suspicious(v))
         /\ reading' = (v \div 64) % 4096
  /\ UNCHANGED <<imu, angle, low, acc, adc, mean, current>>

(* Hundredths of a degree per second between two counts of the sensor. *)
Speed(a1, a2) ==
  LET diff == 879 * (a1 - a2)
      a    == IF diff < 0 THEN -(360 * 10000) ELSE 360 * 10000
  IN  IF fabs(diff) > fabs(diff - a) THEN diff - a ELSE diff

store_angle ==
  /\ pc = "angle"
  /\ pc' = "acc_low"
  /\ angle' = [servo |-> reading,
               speed |-> IF angle.servo = NotRead THEN 0 ELSE Speed(reading, angle.servo)]
  /\ reading' = NotRead
  /\ UNCHANGED <<imu, sent, flag, low, acc, adc, mean, current>>

-----------------------------------------------------------------------------
(* The inertial sensor: two transactions of a byte each. *)

LowByte(v) == v % 256

HighByte(v) == (v % 65536) \div 256

AssembleUnwrapped(l, h) == l + h * 256

AssembleSigned(l, h) == ToInt16((IF l > 127 THEN l - 256 ELSE l) + h * 256)

Assemble(l, h) == ToInt16(l + h * 256)

read_low ==
  /\ pc = "acc_low"
  /\ pc' = "acc_high"
  /\ low' = LowByte(imu)
  /\ UNCHANGED <<imu, sent, flag, reading, angle, acc, adc, mean, current>>

read_high ==
  /\ pc = "acc_high"
  /\ pc' = "current"
  /\ acc' = [count |-> Assemble(low, HighByte(imu)), truth |-> imu]
  /\ low' = 0
  /\ UNCHANGED <<imu, sent, flag, reading, angle, adc, mean, current>>

ImuSamples ==
  /\ imu' \in Samples \ {imu}
  /\ UNCHANGED <<pc, sent, flag, reading, angle, low, acc, adc, mean, current>>

-----------------------------------------------------------------------------
(* The current: a loop of conversions, each started when the one before    *)
(* has been read, the first before the loop; so one more than is read.     *)

adc_start_conversion_regular(converter) == [converter EXCEPT !.busy = TRUE]

read_curr_sensor ==
  /\ pc = "current"
  /\ pc' = "converting"
  /\ adc' = [adc_start_conversion_regular(adc) EXCEPT !.fresh = FALSE]
  /\ mean' = NoLoop
  /\ UNCHANGED <<imu, sent, flag, reading, angle, low, acc, current>>

(* A conversion that ends before the last one was read is lost. *)
AdcConverts ==
  /\ adc.busy
  /\ \E c \in Currents :
       adc' = IF adc.eoc THEN [adc EXCEPT !.busy = FALSE]
              ELSE [busy |-> FALSE, eoc |-> TRUE, data |-> c, fresh |-> TRUE]
  /\ UNCHANGED <<pc, imu, sent, flag, reading, angle, low, acc, mean, current>>

Take(loop, converter) ==
  [count |-> loop.count + 1,
   sum   |-> loop.sum + converter.data,
   stale |-> loop.stale + IF converter.fresh THEN 0 ELSE 1,
   fresh |-> loop.fresh + IF converter.fresh THEN converter.data ELSE 0]

take_conversion_unasked ==
  /\ pc = "converting" /\ mean.count < NB_SAMPLES
  /\ adc.eoc
  /\ mean' = Take(mean, adc)
  /\ adc' = [adc EXCEPT !.eoc = FALSE]
  /\ UNCHANGED <<pc, imu, sent, flag, reading, angle, low, acc, current>>

take_conversion_unwaited ==
  /\ pc = "converting" /\ mean.count < NB_SAMPLES
  /\ mean' = Take(mean, adc)
  /\ adc' = adc_start_conversion_regular([adc EXCEPT !.eoc = FALSE])
  /\ UNCHANGED <<pc, imu, sent, flag, reading, angle, low, acc, current>>

take_conversion ==
  /\ pc = "converting" /\ mean.count < NB_SAMPLES
  /\ adc.eoc
  /\ mean' = Take(mean, adc)
  /\ adc' = adc_start_conversion_regular([adc EXCEPT !.eoc = FALSE])
  /\ UNCHANGED <<pc, imu, sent, flag, reading, angle, low, acc, current>>

store_current ==
  /\ pc = "converting" /\ mean.count = NB_SAMPLES
  /\ pc' = "notified"
  /\ current' = mean.sum \div NB_SAMPLES
  /\ mean' = NoLoop
  /\ UNCHANGED <<imu, sent, flag, reading, angle, low, acc, adc>>

task_main_loop ==
  /\ \/ clear_all_flags \/ read_mag_sensor \/ store_angle \/ read_low \/ read_high
     \/ read_curr_sensor \/ take_conversion \/ store_current
  /\ heard' = Nothing

-----------------------------------------------------------------------------
(* The order task answers a GET between two steps of the control task, and *)
(* the motherboard takes the answer in.                                    *)

(* Through single precision and back, a count may lose one towards zero. *)
CountSent(count) ==
  {count} \union {IF count > 0 THEN count - 1 ELSE IF count < 0 THEN count + 1 ELSE 0}

Answer ==
  {[info |-> "MOTOR_POSITION", value |-> IF angle.servo = NotRead THEN 0 ELSE angle.servo]}
  \union {[info |-> "LINEAR_ACC", value |-> v] : v \in CountSent(acc.count)}
  \union {[info |-> "TORQUE", value |-> current]}
  \union {[info |-> "MOTOR_SPEED", value |-> n] : n \in format_16_16(angle.speed)}

process_get_order ==
  /\ heard' \in Answer
  /\ UNCHANGED <<pc, imu, sent, flag, reading, angle, low, acc, adc, mean, current>>

Next ==
  \/ task_main_loop
  \/ process_get_order
  \/ ImuSamples /\ heard' = Nothing
  \/ AdcConverts /\ heard' = Nothing

Spec == Init /\ [][Next]_vars

(* The control task is notified in every period and runs; conversions end. *)
FairSpec == Spec /\ WF_vars(task_main_loop) /\ WF_vars(AdcConverts /\ heard' = Nothing)

-----------------------------------------------------------------------------
TypeOK ==
  /\ pc \in {"notified", "mag", "angle", "acc_low", "acc_high", "current", "converting"}
  /\ imu \in Samples
  /\ flag \in BOOLEAN
  /\ reading \in {NotRead} \union Count12
  /\ angle.servo \in {NotRead} \union Count12
  /\ angle.speed \in Int /\ fabs(angle.speed) <= 180 * 10000
  /\ low \in Byte
  /\ acc.count \in Int16
  /\ mean.count \in 0..NB_SAMPLES
  /\ current \in Count12

(* The acceleration that the motherboard hears is no further than 256 from *)
(* what the sensor had when its high byte was read, although the two bytes *)
(* may be of two samples (imu_sensor.c:106-135): torn readings stay far    *)
(* below the 4 m/s2 (6684 counts) of a collision.                          *)
AccelerationWithin ==
  heard.info = "LINEAR_ACC" =>
    /\ heard.value - acc.truth <= 256
    /\ acc.truth - heard.value <= 256

(* From its reading on, an angle is flagged if the sensor said of it that  *)
(* it overflowed or is not linear, or if the line flipped a bit of it; it  *)
(* is flagged for no other reason but an unfinished offset compensation;   *)
(* unflagged it is what the sensor sent (mag_sensor.c:99-139).             *)
AlarmsFlagged ==
  pc \notin {"notified", "mag"} =>
    LET alarm == sent.flipped \/ Bit(sent.word, COF) = 1 \/ Bit(sent.word, LIN) = 1
    IN  /\ alarm => flag
        /\ flag => alarm \/ Bit(sent.word, OCF) = 0
        /\ ~flag => (IF pc = "angle" THEN reading ELSE angle.servo) = sent.word \div 64

(* From its reading on, an angle that was measured before the sensor ended *)
(* its offset compensation is flagged, as the branch of mag_sensor.c:104   *)
(* says it does ("Error: the Offset Compensation Algorithm is not yet      *)
(* finished").  The code never takes that branch.                          *)
OffsetFlagged ==
  pc \notin {"notified", "mag"} => (Bit(sent.word, OCF) = 0 => flag)

(* A speed that is not negative is heard as it was measured, to half a     *)
(* digit (fixed_point_format.c:17-33).                                     *)
SpeedReadsBack ==
  heard.info = "MOTOR_SPEED" /\ angle.speed >= 0 => ReadsAs(angle.speed, heard.value)

(* The current is the mean of NB_SAMPLES conversions, of which all but one *)
(* were made since it was asked for: the conversion that the loop before   *)
(* started and did not read is the first (curr_sensor.c:77-106).           *)
CurrentFresh ==
  [][store_current =>
       /\ mean.stale <= 1
       /\ current' * NB_SAMPLES <= mean.fresh + 4095
       /\ mean.fresh - current' * NB_SAMPLES < NB_SAMPLES]_vars

(* No wait for a conversion lasts for ever: every period comes to its end. *)
PeriodsEnd == []<>(pc = "notified")
=============================================================================
