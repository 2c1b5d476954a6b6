-------------------------- MODULE TelemetryProofs --------------------------
(***************************************************************************)
(* What the motherboard hears is what the sensors said, within the bounds  *)
(* of the transactions and the conversions: for every set of samples,      *)
(* angles and conversions, and any number of conversions per reading.      *)
(***************************************************************************)
EXTENDS Telemetry, TLAPS, FiniteSetTheorems

-----------------------------------------------------------------------------
(* The two bytes of a 16-bit number of two's complement, of two samples    *)
(* even, give a number that is within a byte of the later sample.          *)
LEMMA TornBytes ==
  ASSUME NEW old \in Int, NEW new \in Int16, NEW l \in Nat, l <= 255
  PROVE  LET v == Assemble(l, HighByte(new))
         IN  v \in Int16 /\ v - new <= 255 /\ new - v <= 255
<1> DEFINE m == new % 65536
           h == m \div 256
           x == l + h * 256
<1>1. /\ m \in Nat /\ m <= 65535 /\ new \in Int
      /\ new >= 0 => m = new /\ m <= 32767
      /\ new < 0  => m = new + 65536 /\ m >= 32768
  BY DEF Int16
<1> HIDE DEF m
<1>2. h \in Nat /\ h <= 255 /\ h * 256 <= m /\ m - h * 256 <= 255
  BY <1>1
<1> HIDE DEF h
<1>3. x \in Nat /\ x <= 65535 /\ x - m <= 255 /\ m - x <= 255
  BY <1>1, <1>2, SMT
<1>4. m <= 32767 => x <= 32767
  <2>1. m <= 32767 => h <= 127
    BY <1>1, <1>2, SMT
  <2>. QED  BY <1>1, <1>2, <2>1, SMT
<1>5. m >= 32768 => x >= 32768
  <2>1. m >= 32768 => h >= 128
    BY <1>1, <1>2, SMT
  <2>. QED  BY <1>1, <1>2, <2>1, SMT
<1> HIDE DEF x
<1>6. /\ x <= 32767 => ToInt16(x) = x
      /\ x >= 32768 => ToInt16(x) = x - 65536
  BY <1>3, SMT DEF ToInt16
<1>7. Assemble(l, HighByte(new)) = ToInt16(x)
  BY DEF Assemble, HighByte, x, h, m
<1>. QED  BY <1>1, <1>3, <1>4, <1>5, <1>6, <1>7, SMT DEF Int16

(* The digit of a fraction fits 16 bits and is the fraction to half a digit. *)
LEMMA DigitRounds ==
  ASSUME NEW f \in Nat, f <= 99
  PROVE  /\ Digit(f) \in Nat /\ Digit(f) <= 65535
         /\ -50 <= Digit(f) * 100 - f * 65536
         /\ Digit(f) * 100 - f * 65536 <= 50
<1> DEFINE x == f * 65536 + 50
           d == x \div 100
<1>1. Digit(f) = d
  <2>1. 100 \div 2 = 50
    BY SMT
  <2>. QED  BY <2>1, SMT DEF Digit, Hundred
<1>2. x \in Nat /\ x <= 99 * 65536 + 50
  BY SMT
<1>3. d \in Nat /\ 100 * d <= x /\ x < 100 * d + 100
  <2> HIDE DEF x
  <2>. QED  BY <1>2, SMT
<1> HIDE DEF d
<1>. QED  BY <1>1, <1>2, <1>3, SMT

(* A value below 2^16 that is not negative reads back to half a digit.     *)
LEMMA NonNegativeReadsBack ==
  ASSUME NEW v \in Nat, v \div 100 <= 65535, NEW n \in format_16_16(v)
  PROVE  ReadsAs(v, n)
<1>1. v \div 100 \in Nat /\ v % 100 \in Nat /\ v % 100 <= 99
  BY SMT
<1>2. (v \div 100) % 65536 = v \div 100
  <2> DEFINE q == v \div 100
  <2>1. q \in Nat /\ q <= 65535
    BY <1>1
  <2> HIDE DEF q
  <2>2. q % 65536 = q
    BY <2>1, SMT
  <2>. QED  BY <2>2 DEF q
<1>3. n = [unit |-> v \div 100, digit |-> Digit(v % 100)]
  BY <1>2 DEF format_16_16, Hundred
<1>4. Hundred = 100 /\ Hundred \div 2 = 50
  BY SMT DEF Hundred
<1> DEFINE f == v % 100
<1>5. /\ -50 <= Digit(f) * 100 - f * 65536
      /\ Digit(f) * 100 - f * 65536 <= 50
  BY <1>1, DigitRounds
<1>. QED  BY <1>3, <1>4, <1>5 DEF ReadsAs

(* The shorter way round between two counts is no more than half a turn. *)
LEMMA SpeedRange ==
  ASSUME NEW a1 \in Count12, NEW a2 \in Count12
  PROVE  Speed(a1, a2) \in Int /\ fabs(Speed(a1, a2)) <= 180 * 10000
<1> DEFINE diff == 879 * (a1 - a2)
<1>1. diff \in Int /\ diff <= 360 * 10000 /\ -diff <= 360 * 10000
  BY SMT DEF Count12
<1>2. Speed(a1, a2) =
        LET a == IF diff < 0 THEN -(360 * 10000) ELSE 360 * 10000
        IN  IF fabs(diff) > fabs(diff - a) THEN diff - a ELSE diff
  BY DEF Speed
<1> HIDE DEF diff
<1>. QED  BY <1>1, <1>2, SMT DEF fabs

(* An integer quotient times its divisor falls short of the number by less *)
(* than the divisor.                                                       *)
LEMMA Quotient ==
  ASSUME NEW n \in Nat \ {0}, NEW s \in Nat
  PROVE  /\ s \div n \in Nat
         /\ (s \div n) * n <= s
         /\ s - (s \div n) * n < n
OBVIOUS

(* The mean of a sum that one stale conversion may have raised. *)
LEMMA MeanBounds ==
  ASSUME NEW n \in Nat \ {0}
  PROVE  \A s, f \in Nat : f <= s /\ s <= f + 4095 =>
           (s \div n) * n <= f + 4095 /\ f - (s \div n) * n < n
<1> TAKE s, f \in Nat
<1> HAVE f <= s /\ s <= f + 4095
<1> DEFINE p == (s \div n) * n
<1>1. p \in Int /\ p <= s /\ s - p < n
  BY Quotient
<1> HIDE DEF p
<1>2. p <= f + 4095 /\ f - p < n
  BY <1>1
<1>. QED  BY <1>2 DEF p

(* A mean of 12-bit samples has 12 bits. *)
LEMMA QuotientBound ==
  ASSUME NEW n \in Nat \ {0}, NEW s \in Nat, s <= 4095 * n
  PROVE  s \div n \in Count12
<1> DEFINE q == s \div n
<1>1. q \in Nat /\ q * n <= s
  BY Quotient
<1> HIDE DEF q
<1>2. SUFFICES ASSUME q >= 4096 PROVE FALSE
  BY <1>1 DEF q, Count12
<1>3. PICK k \in Nat : q = 4096 + k
  <2>. q - 4096 \in Nat /\ q = 4096 + (q - 4096)
    BY <1>1, <1>2
  <2>. QED  OBVIOUS
<1>4. (4096 + k) * n = 4096 * n + k * n /\ k * n \in Nat
  OBVIOUS
<1>. QED  BY <1>1, <1>3, <1>4

-----------------------------------------------------------------------------
(* The inductive invariant. *)

(* The acceleration is within a byte of the sample of its high byte. *)
TornByAByte ==
  /\ acc.truth \in Int16
  /\ acc.count - acc.truth <= 255 /\ acc.truth - acc.count <= 255

(* One conversion of the loop at most was made before the loop; while the  *)
(* converter still holds such a one, none has been taken.                  *)
OneStale ==
  /\ adc \in [busy : BOOLEAN, eoc : BOOLEAN, data : Count12, fresh : BOOLEAN]
  /\ mean \in [count : Nat, sum : Nat, stale : {0, 1}, fresh : Nat]
  /\ mean.sum <= 4095 * mean.count
  /\ mean.fresh <= mean.sum
  /\ mean.stale = 0 => mean.sum = mean.fresh
  /\ mean.stale = 1 => mean.sum <= mean.fresh + 4095
  /\ mean.stale = 1 /\ adc.eoc => adc.fresh

IInv ==
  /\ TypeOK
  /\ TornByAByte
  /\ OneStale
  /\ AccelerationWithin
  /\ SpeedReadsBack

(* What the constants are, and the ranges of what they hold. *)
LEMMA Constants ==
  /\ NB_SAMPLES \in Nat \ {0}
  /\ \A v \in Samples : v \in Int16
  /\ 0 \in Int16 /\ 0 \in Count12 /\ 0 \in Byte
  /\ \A v \in Count12 : v \in Nat
BY SensorAssumption DEF Int16, Count12, Byte

(* Power-up satisfies the invariant. *)
LEMMA InitInv == Init => IInv
<1> SUFFICES ASSUME Init PROVE IInv
  OBVIOUS
<1> USE Constants
<1>1. TypeOK
  <2>1. mean.count \in 0..NB_SAMPLES
    BY DEF Init, NoLoop
  <2>2. angle.speed \in Int /\ fabs(angle.speed) <= 180 * 10000
    BY DEF Init, fabs
  <2>3. /\ pc = "notified" /\ imu \in Samples /\ flag \in BOOLEAN
        /\ reading = NotRead /\ angle.servo = NotRead
        /\ low = 0 /\ acc.count = 0 /\ current = 0
    BY DEF Init
  <2>. QED  BY <2>1, <2>2, <2>3 DEF TypeOK
<1>2. TornByAByte
  BY DEF Init, TornByAByte
<1>3. OneStale
  BY DEF Init, OneStale, NoLoop
<1>. QED
  BY <1>1, <1>2, <1>3 DEF Init, IInv, AccelerationWithin, SpeedReadsBack, Nothing

(* Nothing is heard during a step of the control task or of a sensor. *)
LEMMA Silence ==
  heard' = Nothing => AccelerationWithin' /\ SpeedReadsBack'
BY DEF Nothing, AccelerationWithin, SpeedReadsBack

(* Clearing the flags touches no measure. *)
LEMMA ClearFlagsInv ==
  ASSUME IInv, clear_all_flags PROVE TypeOK' /\ TornByAByte' /\ OneStale'
<1>1. /\ pc' = "mag" /\ flag' = FALSE
      /\ UNCHANGED <<imu, sent, reading, angle, low, acc, adc, mean, current>>
  BY DEF clear_all_flags
<1>2. flag' \in BOOLEAN
  BY <1>1
<1>3. TypeOK'
  BY <1>1, <1>2 DEF IInv, TypeOK
<1>. QED  BY <1>1, <1>3 DEF IInv, TornByAByte, OneStale

(* What is read of the word, right or flipped, has 12 bits. *)
LEMMA ReadMagInv ==
  ASSUME IInv, read_mag_sensor
  PROVE  TypeOK' /\ TornByAByte' /\ OneStale' /\ reading' \in Count12
<1>1. PICK a \in Angles, s \in Statuses :
        \E v \in {Word(a, s)} \union {Flip(Word(a, s), mask) : mask \in Flips} :
          flag' = (flag \/ Suspicious(v)) /\ reading' = (v \div 64) % 4096
  BY DEF read_mag_sensor
<1>2. PICK v \in {Word(a, s)} \union {Flip(Word(a, s), mask) : mask \in Flips} :
        flag' = (flag \/ Suspicious(v)) /\ reading' = (v \div 64) % 4096
  BY <1>1
<1>3. Word(a, s) \in Int
  <2> DEFINE u == a * 32 + s
             Ones == {i \in 0..17 : Bit(u, 2^i) = 1}
  <2>1. u \in Int
    BY SensorAssumption DEF Count12
  <2>2. Cardinality(Ones) \in Nat
    <3>1. IsFiniteSet(0..17)
      <4>1. 0 \in Int /\ 17 \in Int
        OBVIOUS
      <4>. QED  BY <4>1, FS_Interval, Zenon
    <3>2. IsFiniteSet(Ones)
      BY <3>1, FS_Subset
    <3>. QED  BY <3>2, FS_CardinalityType
  <2>3. Word(a, s) = u * 2 + (Cardinality(Ones) % 2)
    BY DEF Word, Parity
  <2> HIDE DEF u, Ones
  <2>. QED  BY <2>1, <2>2, <2>3
<1>4. v \in Int
  BY <1>3, SensorAssumption DEF Flip
<1>5. reading' \in Count12
  BY <1>2, <1>4 DEF Count12
<1>6. flag' \in BOOLEAN
  BY <1>2 DEF IInv, TypeOK
<1>7. /\ pc' = "angle"
      /\ UNCHANGED <<imu, angle, low, acc, adc, mean, current>>
  BY DEF read_mag_sensor
<1>8. TypeOK'
  BY <1>5, <1>6, <1>7 DEF IInv, TypeOK
<1>. QED  BY <1>5, <1>7, <1>8 DEF IInv, TornByAByte, OneStale

(* The angle is replaced in one piece. *)
LEMMA StoreAngleInv ==
  ASSUME IInv, store_angle, reading \in Count12 PROVE TypeOK' /\ TornByAByte' /\ OneStale'
<1>1. /\ pc' = "acc_low" /\ reading' = NotRead
      /\ angle'.servo = reading
      /\ angle'.speed = IF angle.servo = NotRead THEN 0 ELSE Speed(reading, angle.servo)
      /\ UNCHANGED <<imu, sent, flag, low, acc, adc, mean, current>>
  BY DEF store_angle
<1>2. angle'.speed \in Int /\ fabs(angle'.speed) <= 180 * 10000
  <2>1. CASE angle.servo = NotRead
    BY <1>1, <2>1 DEF fabs
  <2>2. CASE angle.servo # NotRead
    <3>1. angle.servo \in Count12
      BY <2>2 DEF IInv, TypeOK
    <3>. QED  BY <1>1, <2>2, <3>1, SpeedRange
  <2>. QED  BY <2>1, <2>2
<1>3. TypeOK'
  BY <1>1, <1>2 DEF IInv, TypeOK
<1>. QED  BY <1>1, <1>3 DEF IInv, TornByAByte, OneStale

(* The low byte of a channel is read before the high one. *)
LEMMA ReadLowInv ==
  ASSUME IInv, read_low PROVE TypeOK' /\ TornByAByte' /\ OneStale'
<1>1. /\ pc' = "acc_high" /\ low' = LowByte(imu)
      /\ UNCHANGED <<imu, sent, flag, reading, angle, acc, adc, mean, current>>
  BY DEF read_low
<1>2. low' \in Byte
  <2>1. imu \in Int
    BY Constants DEF IInv, TypeOK, Int16
  <2>. QED  BY <1>1, <2>1 DEF LowByte, Byte
<1>3. TypeOK'
  BY <1>1, <1>2 DEF IInv, TypeOK
<1>. QED  BY <1>1, <1>3 DEF IInv, TornByAByte, OneStale

(* The high byte completes the channel. *)
LEMMA ReadHighInv ==
  ASSUME IInv, read_high PROVE TypeOK' /\ TornByAByte' /\ OneStale'
<1>1. /\ pc' = "current" /\ low' = 0
      /\ acc'.count = Assemble(low, HighByte(imu)) /\ acc'.truth = imu
      /\ UNCHANGED <<imu, sent, flag, reading, angle, adc, mean, current>>
  BY DEF read_high
<1>2. imu \in Int16 /\ low \in Nat /\ low <= 255
  BY Constants DEF IInv, TypeOK, Byte
<1>3. acc'.count \in Int16 /\ TornByAByte'
  BY <1>1, <1>2, TornBytes DEF TornByAByte
<1>4. TypeOK'
  BY <1>1, <1>3, Constants DEF IInv, TypeOK
<1>. QED  BY <1>1, <1>3, <1>4 DEF IInv, OneStale

(* A new sample replaces what the sensor holds, not what was read of it. *)
LEMMA ImuInv ==
  ASSUME IInv, ImuSamples PROVE TypeOK' /\ TornByAByte' /\ OneStale'
<1>1. /\ imu' \in Samples
      /\ UNCHANGED <<pc, sent, flag, reading, angle, low, acc, adc, mean, current>>
  BY DEF ImuSamples
<1>2. TypeOK'
  BY <1>1 DEF IInv, TypeOK
<1>. QED  BY <1>1, <1>2 DEF IInv, TornByAByte, OneStale

(* Starting the conversions marks what the converter holds as stale. *)
LEMMA ReadCurrentInv ==
  ASSUME IInv, read_curr_sensor PROVE TypeOK' /\ TornByAByte' /\ OneStale'
<1>1. /\ pc' = "converting"
      /\ adc' = [adc EXCEPT !.busy = TRUE, !.fresh = FALSE]
      /\ mean' = [count |-> 0, sum |-> 0, stale |-> 0, fresh |-> 0]
      /\ UNCHANGED <<imu, sent, flag, reading, angle, low, acc, current>>
  BY DEF read_curr_sensor, adc_start_conversion_regular, NoLoop
<1>2. OneStale'
  <2>1. adc \in [busy : BOOLEAN, eoc : BOOLEAN, data : Count12, fresh : BOOLEAN]
    BY DEF IInv, OneStale
  <2>2. adc' = [busy |-> TRUE, eoc |-> adc.eoc, data |-> adc.data, fresh |-> FALSE]
    BY <1>1, <2>1
  <2>3. adc' \in [busy : BOOLEAN, eoc : BOOLEAN, data : Count12, fresh : BOOLEAN]
    BY <2>1, <2>2
  <2>. QED  BY <1>1, <2>3 DEF OneStale
<1>3. mean'.count \in 0..NB_SAMPLES
  BY <1>1, Constants
<1>4. TypeOK'
  BY <1>1, <1>3 DEF IInv, TypeOK
<1>. QED  BY <1>1, <1>2, <1>4 DEF IInv, TornByAByte

(* A conversion that ends is fresh, or is lost. *)
LEMMA ConvertsInv ==
  ASSUME IInv, AdcConverts PROVE TypeOK' /\ TornByAByte' /\ OneStale'
<1>1. PICK c \in Currents :
        adc' = IF adc.eoc THEN [adc EXCEPT !.busy = FALSE]
               ELSE [busy |-> FALSE, eoc |-> TRUE, data |-> c, fresh |-> TRUE]
  BY DEF AdcConverts
<1>2. UNCHANGED <<pc, imu, sent, flag, reading, angle, low, acc, mean, current>>
  BY DEF AdcConverts
<1>3. c \in Count12
  BY SensorAssumption
<1>4. OneStale'
  <2>0. adc \in [busy : BOOLEAN, eoc : BOOLEAN, data : Count12, fresh : BOOLEAN]
    BY DEF IInv, OneStale
  <2>1. CASE adc.eoc
    <3>1. adc' = [busy |-> FALSE, eoc |-> adc.eoc, data |-> adc.data, fresh |-> adc.fresh]
      BY <1>1, <2>0, <2>1
    <3>2. /\ adc' \in [busy : BOOLEAN, eoc : BOOLEAN, data : Count12, fresh : BOOLEAN]
          /\ adc'.fresh = adc.fresh
      BY <2>0, <3>1
    <3>. QED  BY <1>2, <2>1, <3>2 DEF IInv, OneStale
  <2>2. CASE ~adc.eoc
    <3>1. adc' = [busy |-> FALSE, eoc |-> TRUE, data |-> c, fresh |-> TRUE]
      BY <1>1, <2>2
    <3>2. /\ adc' \in [busy : BOOLEAN, eoc : BOOLEAN, data : Count12, fresh : BOOLEAN]
          /\ adc'.fresh
      BY <1>3, <3>1
    <3>. QED  BY <1>2, <3>2 DEF IInv, OneStale
  <2>. QED  BY <2>1, <2>2
<1>5. TypeOK'
  BY <1>2 DEF IInv, TypeOK
<1>. QED  BY <1>2, <1>4, <1>5 DEF IInv, TornByAByte

(* One conversion is added to the sum, the first one perhaps stale. *)
LEMMA TakeInv ==
  ASSUME IInv, take_conversion PROVE TypeOK' /\ TornByAByte' /\ OneStale'
<1>1. /\ adc.eoc /\ mean.count < NB_SAMPLES
      /\ mean' = Take(mean, adc)
      /\ adc' = [adc EXCEPT !.eoc = FALSE, !.busy = TRUE]
      /\ UNCHANGED <<pc, imu, sent, flag, reading, angle, low, acc, current>>
  BY DEF take_conversion, adc_start_conversion_regular
<1>2. /\ adc \in [busy : BOOLEAN, eoc : BOOLEAN, data : Count12, fresh : BOOLEAN]
      /\ mean \in [count : Nat, sum : Nat, stale : {0, 1}, fresh : Nat]
      /\ adc.data \in Nat /\ adc.data <= 4095
  BY DEF IInv, OneStale, Count12
<1>3. /\ mean'.count = mean.count + 1
      /\ mean'.sum = mean.sum + adc.data
      /\ mean'.stale = mean.stale + IF adc.fresh THEN 0 ELSE 1
      /\ mean'.fresh = mean.fresh + IF adc.fresh THEN adc.data ELSE 0
  BY <1>1 DEF Take
<1>4. adc.fresh \/ mean.stale = 0
  BY <1>1, <1>2 DEF IInv, OneStale
<1>5. mean' \in [count : Nat, sum : Nat, stale : {0, 1}, fresh : Nat]
  BY <1>1, <1>2, <1>4 DEF Take
<1>6. adc' \in [busy : BOOLEAN, eoc : BOOLEAN, data : Count12, fresh : BOOLEAN] /\ ~adc'.eoc
  <2>1. adc' = [busy |-> TRUE, eoc |-> FALSE, data |-> adc.data, fresh |-> adc.fresh]
    <3>1. adc' = [adc EXCEPT !.eoc = FALSE, !.busy = TRUE]
      BY <1>1
    <3>2. adc = [busy |-> adc.busy, eoc |-> adc.eoc, data |-> adc.data, fresh |-> adc.fresh]
      BY <1>2
    <3>. QED  BY ONLY <3>1, <3>2
  <2>. QED  BY <1>2, <2>1
<1>7. OneStale'
  <2>1. /\ mean.sum <= 4095 * mean.count
        /\ mean.fresh <= mean.sum
        /\ mean.stale = 0 => mean.sum = mean.fresh
        /\ mean.stale = 1 => mean.sum <= mean.fresh + 4095
    BY DEF IInv, OneStale
  <2>2. /\ mean'.sum <= 4095 * mean'.count
        /\ mean'.fresh <= mean'.sum
        /\ mean'.stale = 0 => mean'.sum = mean'.fresh
        /\ mean'.stale = 1 => mean'.sum <= mean'.fresh + 4095
    <3>1. CASE adc.fresh
      BY <1>2, <1>3, <2>1, <3>1
    <3>2. CASE ~adc.fresh
      BY <1>2, <1>3, <1>4, <2>1, <3>2
    <3>. QED  BY <3>1, <3>2
  <2>. QED  BY <1>5, <1>6, <2>2 DEF OneStale
<1>8. mean'.count \in 0..NB_SAMPLES
  BY <1>1, <1>2, <1>3, Constants
<1>9. TypeOK'
  BY <1>1, <1>8 DEF IInv, TypeOK
<1>. QED  BY <1>1, <1>7, <1>9 DEF IInv, TornByAByte

(* The mean of 12-bit conversions has 12 bits. *)
LEMMA StoreCurrentInv ==
  ASSUME IInv, store_current PROVE TypeOK' /\ TornByAByte' /\ OneStale'
<1>1. /\ pc' = "notified" /\ mean.count = NB_SAMPLES
      /\ current' = mean.sum \div NB_SAMPLES
      /\ mean' = [count |-> 0, sum |-> 0, stale |-> 0, fresh |-> 0]
      /\ UNCHANGED <<imu, sent, flag, reading, angle, low, acc, adc>>
  BY DEF store_current, NoLoop
<1>2. current' \in Count12
  <2>1. mean.sum \in Nat /\ mean.sum <= 4095 * NB_SAMPLES
    BY <1>1 DEF IInv, OneStale
  <2>2. NB_SAMPLES \in Nat \ {0}
    BY Constants
  <2>3. mean.sum \div NB_SAMPLES \in Count12
    BY ONLY <2>1, <2>2, QuotientBound
  <2>. QED  BY <1>1, <2>3
<1>3. OneStale'
  BY <1>1 DEF IInv, OneStale
<1>4. mean'.count \in 0..NB_SAMPLES
  BY <1>1, Constants
<1>5. TypeOK'
  BY <1>1, <1>2, <1>4 DEF IInv, TypeOK
<1>. QED  BY <1>1, <1>3, <1>5 DEF IInv, TornByAByte

-----------------------------------------------------------------------------
(* Between the reading of the angle and its storage the task holds one. *)
ReadingHeld == pc = "angle" => reading \in Count12

FullInv == IInv /\ ReadingHeld

(* Every step of the task keeps the invariant. *)
LEMMA TaskInv ==
  ASSUME FullInv, task_main_loop PROVE FullInv'
<1> USE DEF FullInv
<1>1. heard' = Nothing
  BY DEF task_main_loop
<1>2. AccelerationWithin' /\ SpeedReadsBack'
  BY <1>1, Silence
<1>3. CASE clear_all_flags
  <2>1. pc' = "mag"
    BY <1>3 DEF clear_all_flags
  <2>. QED  BY <1>2, <1>3, <2>1, ClearFlagsInv DEF IInv, ReadingHeld
<1>4. CASE read_mag_sensor
  <2>1. TypeOK' /\ TornByAByte' /\ OneStale' /\ reading' \in Count12
    BY <1>4, ReadMagInv
  <2>. QED  BY <1>2, <2>1 DEF IInv, ReadingHeld
<1>5. CASE store_angle
  <2>1. pc' = "acc_low" /\ reading \in Count12
    BY <1>5 DEF store_angle, ReadingHeld
  <2>. QED  BY <1>2, <1>5, <2>1, StoreAngleInv DEF IInv, ReadingHeld
<1>6. CASE read_low
  <2>1. pc' = "acc_high"
    BY <1>6 DEF read_low
  <2>. QED  BY <1>2, <1>6, <2>1, ReadLowInv DEF IInv, ReadingHeld
<1>7. CASE read_high
  <2>1. pc' = "current"
    BY <1>7 DEF read_high
  <2>. QED  BY <1>2, <1>7, <2>1, ReadHighInv DEF IInv, ReadingHeld
<1>8. CASE read_curr_sensor
  <2>1. pc' = "converting"
    BY <1>8 DEF read_curr_sensor
  <2>. QED  BY <1>2, <1>8, <2>1, ReadCurrentInv DEF IInv, ReadingHeld
<1>9. CASE take_conversion
  <2>1. pc' = "converting"
    BY <1>9 DEF take_conversion
  <2>. QED  BY <1>2, <1>9, <2>1, TakeInv DEF IInv, ReadingHeld
<1>10. CASE store_current
  <2>1. pc' = "notified"
    BY <1>10 DEF store_current
  <2>. QED  BY <1>2, <1>10, <2>1, StoreCurrentInv DEF IInv, ReadingHeld
<1>. QED
  BY <1>3, <1>4, <1>5, <1>6, <1>7, <1>8, <1>9, <1>10 DEF task_main_loop

(* An answer is made of what the task has stored; a count may lose one     *)
(* towards zero on the way, a speed is rounded to its digit.               *)
LEMMA GetInv ==
  ASSUME FullInv, process_get_order PROVE FullInv'
<1>1. /\ heard' \in Answer
      /\ UNCHANGED <<pc, imu, sent, flag, reading, angle, low, acc, adc, mean, current>>
  BY DEF process_get_order
<1>2. TypeOK' /\ TornByAByte' /\ OneStale' /\ ReadingHeld'
  <2>1. TypeOK'
    BY <1>1 DEF FullInv, IInv, TypeOK
  <2>2. OneStale'
    BY <1>1 DEF FullInv, IInv, OneStale
  <2>. QED  BY <1>1, <2>1, <2>2 DEF FullInv, IInv, TornByAByte, ReadingHeld
<1>3. AccelerationWithin'
  <2>1. SUFFICES ASSUME heard'.info = "LINEAR_ACC"
                 PROVE  heard'.value - acc.truth <= 256 /\ acc.truth - heard'.value <= 256
    BY <1>1 DEF AccelerationWithin
  <2>2. heard'.value \in CountSent(acc.count)
    BY <1>1, <2>1 DEF Answer
  <2>3. /\ acc.count \in Int /\ acc.truth \in Int
        /\ acc.count - acc.truth <= 255 /\ acc.truth - acc.count <= 255
    BY DEF FullInv, IInv, TypeOK, TornByAByte, Int16
  <2>4. heard'.value \in {acc.count, acc.count - 1, acc.count + 1}
    BY <2>2, <2>3 DEF CountSent
  <2>. QED  BY <2>3, <2>4
<1>4. SpeedReadsBack'
  <2>1. SUFFICES ASSUME heard'.info = "MOTOR_SPEED", angle.speed >= 0
                 PROVE  ReadsAs(angle.speed, heard'.value)
    BY <1>1 DEF SpeedReadsBack
  <2>2. heard'.value \in format_16_16(angle.speed)
    BY <1>1, <2>1 DEF Answer
  <2>3. angle.speed \in Nat /\ angle.speed <= 180 * 10000
    BY <2>1 DEF FullInv, IInv, TypeOK, fabs
  <2>4. angle.speed \div 100 <= 65535
    BY ONLY <2>3, SMT
  <2>. QED  BY <2>2, <2>3, <2>4, NonNegativeReadsBack
<1>. QED  BY <1>2, <1>3, <1>4 DEF FullInv, IInv

(* Every step keeps the invariant. *)
LEMMA StepInv == FullInv /\ [Next]_vars => FullInv'
<1> SUFFICES ASSUME FullInv, [Next]_vars PROVE FullInv'
  OBVIOUS
<1>1. CASE task_main_loop
  BY <1>1, TaskInv
<1>2. CASE process_get_order
  BY <1>2, GetInv
<1>3. CASE ImuSamples /\ heard' = Nothing
  <2>1. UNCHANGED <<pc, reading>>
    BY <1>3 DEF ImuSamples
  <2>. QED  BY <1>3, <2>1, ImuInv, Silence DEF FullInv, IInv, ReadingHeld
<1>4. CASE AdcConverts /\ heard' = Nothing
  <2>1. UNCHANGED <<pc, reading>>
    BY <1>4 DEF AdcConverts
  <2>. QED  BY <1>4, <2>1, ConvertsInv, Silence DEF FullInv, IInv, ReadingHeld
<1>5. CASE UNCHANGED vars
  <2>1. TypeOK' /\ TornByAByte' /\ ReadingHeld'
    BY <1>5 DEF vars, FullInv, IInv, TypeOK, TornByAByte, ReadingHeld
  <2>2. OneStale'
    BY <1>5 DEF vars, FullInv, IInv, OneStale
  <2>3. AccelerationWithin' /\ SpeedReadsBack'
    BY <1>5 DEF vars, FullInv, IInv, AccelerationWithin, SpeedReadsBack
  <2>. QED  BY <2>1, <2>2, <2>3 DEF FullInv, IInv
<1>. QED  BY <1>1, <1>2, <1>3, <1>4, <1>5 DEF Next

(* The invariant holds throughout. *)
LEMMA Invariance == Spec => []FullInv
<1>1. Init => FullInv
  BY InitInv DEF FullInv, Init, ReadingHeld
<1>. QED  BY <1>1, StepInv, PTL DEF Spec

(* Every stored measurement keeps the width of its type. *)
THEOREM TypeCorrect == Spec => []TypeOK
<1>1. FullInv => TypeOK
  BY DEF FullInv, IInv
<1>. QED  BY <1>1, Invariance, PTL

(* An acceleration is heard within 256 of the sample in force when its     *)
(* high byte was read, whatever the samples and whenever they change       *)
(* (imu_sensor.c:79-135, main.c:189-199, operations.c:81-88).              *)
THEOREM AccelerationHeard == Spec => []AccelerationWithin
<1>1. FullInv => AccelerationWithin
  BY DEF FullInv, IInv
<1>. QED  BY <1>1, Invariance, PTL

(* A speed that is not negative is heard to half a digit, for all angles   *)
(* (fixed_point_format.c:17-33, main.c:601-613).                           *)
THEOREM SpeedHeard == Spec => []SpeedReadsBack
<1>1. FullInv => SpeedReadsBack
  BY DEF FullInv, IInv
<1>. QED  BY <1>1, Invariance, PTL

(* Of the NB_SAMPLES conversions in a mean, one at most was made before it *)
(* was asked for, for every NB_SAMPLES (curr_sensor.c:77-106).             *)
THEOREM CurrentIsFresh == Spec => CurrentFresh
<1>1. ASSUME FullInv, store_current
      PROVE  /\ mean.stale <= 1
             /\ current' * NB_SAMPLES <= mean.fresh + 4095
             /\ mean.fresh - current' * NB_SAMPLES < NB_SAMPLES
  <2>1. /\ mean.stale \in {0, 1} /\ mean.sum \in Nat /\ mean.fresh \in Nat
        /\ mean.fresh <= mean.sum /\ mean.sum <= mean.fresh + 4095
    BY <1>1 DEF FullInv, IInv, OneStale
  <2>2. current' = mean.sum \div NB_SAMPLES
    BY <1>1 DEF store_current
  <2>3. NB_SAMPLES \in Nat \ {0}
    BY Constants
  <2>4. /\ (mean.sum \div NB_SAMPLES) * NB_SAMPLES <= mean.fresh + 4095
        /\ mean.fresh - (mean.sum \div NB_SAMPLES) * NB_SAMPLES < NB_SAMPLES
    <3>1. \A s, f \in Nat : f <= s /\ s <= f + 4095 =>
            /\ (s \div NB_SAMPLES) * NB_SAMPLES <= f + 4095
            /\ f - (s \div NB_SAMPLES) * NB_SAMPLES < NB_SAMPLES
      BY ONLY <2>3, MeanBounds
    <3>2. PICK s \in Nat, f \in Nat : s = mean.sum /\ f = mean.fresh
      BY <2>1
    <3>3. f <= s /\ s <= f + 4095
      BY <2>1, <3>2
    <3>. QED  BY <3>1, <3>2, <3>3
  <2>. QED  BY <2>1, <2>2, <2>4
<1>2. FullInv /\ [Next]_vars =>
        [store_current =>
           /\ mean.stale <= 1
           /\ current' * NB_SAMPLES <= mean.fresh + 4095
           /\ mean.fresh - current' * NB_SAMPLES < NB_SAMPLES]_vars
  BY <1>1
<1>. QED  BY <1>2, Invariance, PTL DEF Spec, CurrentFresh

-----------------------------------------------------------------------------
(* Bits and parity.                                                        *)

(* A number between two consecutive multiples has the lower as quotient.   *)
LEMMA QuotientIs ==
  ASSUME NEW d \in Nat \ {0}, NEW q \in Nat, NEW r \in Nat, r < d
  PROVE  (d * q + r) \div d = q
<1> DEFINE s == d * q + r
           x == s \div d
<1>1. s \in Nat /\ d * q \in Nat
  OBVIOUS
<1>2. x \in Nat /\ x * d <= s /\ s - x * d < d
  <2> HIDE DEF s
  <2>. QED  BY <1>1, Quotient
<1>3. s = d * q + r
  OBVIOUS
<1> HIDE DEF s, x
<1>4. ASSUME x > q PROVE FALSE
  <2>1. PICK k \in Nat : x = q + 1 + k
    <3>. x - q - 1 \in Nat /\ x = q + 1 + (x - q - 1)
      BY <1>2, <1>4
    <3>. QED  OBVIOUS
  <2>2. x * d = d * q + d + k * d /\ k * d \in Nat /\ d * q \in Nat
    BY <2>1
  <2>. QED  BY <1>2, <1>3, <2>2
<1>5. ASSUME x < q PROVE FALSE
  <2>1. PICK k \in Nat : q = x + 1 + k
    <3>. q - x - 1 \in Nat /\ q = x + 1 + (q - x - 1)
      BY <1>2, <1>5
    <3>. QED  OBVIOUS
  <2>2. d * q = x * d + d + k * d /\ k * d \in Nat /\ x * d \in Nat
    BY <1>2, <2>1
  <2>. QED  BY <1>2, <1>3, <2>2
<1>6. x = q
  BY <1>2, <1>4, <1>5
<1>. QED  BY <1>6 DEF x, s

(* Every number is quotient times divisor plus a remainder below it. *)
LEMMA Division ==
  ASSUME NEW d \in Nat \ {0}, NEW u \in Nat
  PROVE  \E r \in Nat : r < d /\ u = d * (u \div d) + r
<1> DEFINE q == u \div d
<1>1. q \in Nat /\ q * d <= u /\ u - q * d < d
  BY Quotient
<1> HIDE DEF q
<1>2. q * d \in Nat /\ q * d = d * q
  BY <1>1
<1>3. u - d * q \in Nat /\ u - d * q < d /\ u = d * q + (u - d * q)
  BY <1>1, <1>2
<1>4. \E r \in Nat : r < d /\ u = d * q + r
  BY <1>3
<1>. QED  BY <1>4 DEF q

(* Adding m raises the bit of m when it is clear. *)
LEMMA BitRaised ==
  ASSUME NEW m \in Nat \ {0}, NEW u \in Nat
  PROVE  (u + m) \div m = (u \div m) + 1
<1> DEFINE q == u \div m
<1>1. q \in Nat
  BY Quotient
<1>2. PICK r \in Nat : r < m /\ u = m * q + r
  BY Division
<1> HIDE DEF q
<1>3. u + m = m * (q + 1) + r
  BY <1>1, <1>2
<1>4. (m * (q + 1) + r) \div m = q + 1
  BY <1>1, <1>2, QuotientIs
<1>. QED  BY <1>3, <1>4 DEF q

(* It keeps the bits of the weights below ... *)
LEMMA BitsBelowKept ==
  ASSUME NEW w \in Nat \ {0}, NEW k \in Nat, NEW u \in Nat
  PROVE  Bit(u + w * (2 * k), w) = Bit(u, w)
<1> DEFINE q == u \div w
<1>1. q \in Nat
  BY Quotient
<1>2. PICK r \in Nat : r < w /\ u = w * q + r
  BY Division
<1> HIDE DEF q
<1>3. u + w * (2 * k) = w * (q + 2 * k) + r
  BY <1>1, <1>2
<1>4. (w * (q + 2 * k) + r) \div w = q + 2 * k
  BY <1>1, <1>2, QuotientIs
<1>5. (q + 2 * k) % 2 = q % 2
  BY <1>1
<1>. QED  BY <1>3, <1>4, <1>5 DEF Bit, q

(* ... and, as no carry leaves a clear bit, of the weights above.          *)
LEMMA BitsAboveKept ==
  ASSUME NEW m \in Nat \ {0}, NEW k \in Nat \ {0}, NEW u \in Nat, Bit(u, m) = 0
  PROVE  Bit(u + m, m * (2 * k)) = Bit(u, m * (2 * k))
<1> DEFINE w == m * (2 * k)
           q == u \div w
<1>1. w \in Nat \ {0}
  OBVIOUS
<1>2. q \in Nat
  BY <1>1, Quotient
<1>3. PICK r \in Nat : r < w /\ u = w * q + r
  BY <1>1, Division
<1> DEFINE e == r \div m
<1>4. e \in Nat
  BY Quotient
<1>5. PICK t \in Nat : t < m /\ r = m * e + t
  BY Division
<1> HIDE DEF q, e
<1>6. u \div m = (2 * k) * q + e
  <2>1. u = m * ((2 * k) * q + e) + t
    BY <1>2, <1>3, <1>4, <1>5 DEF w
  <2>2. (2 * k) * q + e \in Nat
    BY <1>2, <1>4
  <2>. QED  BY <1>5, <2>1, <2>2, QuotientIs
<1>7. e % 2 = 0
  <2>1. ((2 * k) * q + e) % 2 = e % 2
    <3>1. PICK x \in Nat : x = k * q
      BY <1>2
    <3>2. (2 * k) * q = 2 * x
      BY <1>2, <3>1
    <3>3. (2 * x + e) % 2 = e % 2
      BY <1>4
    <3>. QED  BY <3>2, <3>3
  <2>. QED  BY <1>6, <2>1 DEF Bit
<1>8. e < 2 * k
  <2>1. SUFFICES ASSUME e >= 2 * k PROVE FALSE
    BY <1>4
  <2>2. PICK x \in Nat : e = 2 * k + x
    <3>. e - 2 * k \in Nat /\ e = 2 * k + (e - 2 * k)
      BY <1>4, <2>1
    <3>. QED  OBVIOUS
  <2>3. m * e = m * (2 * k) + m * x /\ m * x \in Nat /\ m * (2 * k) \in Nat
    BY <2>2
  <2>. QED  BY <1>3, <1>5, <2>3 DEF w
<1>9. e + 2 <= 2 * k
  BY <1>4, <1>7, <1>8
<1>10. r + m < w
  <2>1. PICK x \in Nat : 2 * k = e + 2 + x
    <3>. 2 * k - e - 2 \in Nat /\ 2 * k = e + 2 + (2 * k - e - 2)
      BY <1>4, <1>9
    <3>. QED  OBVIOUS
  <2>2. w = m * e + m + m + m * x /\ m * x \in Nat /\ m * e \in Nat
    BY <1>4, <2>1 DEF w
  <2>. QED  BY <1>5, <2>2
<1>11. u + m = w * q + (r + m)
  <2>1. w * q \in Nat
    BY <1>1, <1>2
  <2> HIDE DEF w
  <2>. QED  BY <1>3, <2>1
<1>12. (w * q + (r + m)) \div w = q
  <2> HIDE DEF w
  <2>. QED  BY <1>1, <1>2, <1>3, <1>10, QuotientIs
<1>. QED  BY <1>11, <1>12 DEF Bit, q

(* The eighteen weights of the sensor's word. *)
LEMMA Powers ==
  ASSUME NEW i \in Int
  PROVE  /\ i = 0 => 2^i = 1
         /\ i = 1 => 2^i = 2
         /\ i = 2 => 2^i = 4
         /\ i = 3 => 2^i = 8
         /\ i = 4 => 2^i = 16
         /\ i = 5 => 2^i = 32
         /\ i = 6 => 2^i = 64
         /\ i = 7 => 2^i = 128
         /\ i = 8 => 2^i = 256
         /\ i = 9 => 2^i = 512
         /\ i = 10 => 2^i = 1024
         /\ i = 11 => 2^i = 2048
         /\ i = 12 => 2^i = 4096
         /\ i = 13 => 2^i = 8192
         /\ i = 14 => 2^i = 16384
         /\ i = 15 => 2^i = 32768
         /\ i = 16 => 2^i = 65536
         /\ i = 17 => 2^i = 131072
<1>0. i = 0 => 2^i = 1
  BY SMT
<1>1. i = 1 => 2^i = 2
  BY SMT
<1>2. i = 2 => 2^i = 4
  BY SMT
<1>3. i = 3 => 2^i = 8
  BY SMT
<1>4. i = 4 => 2^i = 16
  BY SMT
<1>5. i = 5 => 2^i = 32
  BY SMT
<1>6. i = 6 => 2^i = 64
  BY SMT
<1>7. i = 7 => 2^i = 128
  BY SMT
<1>8. i = 8 => 2^i = 256
  BY SMT
<1>9. i = 9 => 2^i = 512
  BY SMT
<1>10. i = 10 => 2^i = 1024
  BY SMT
<1>11. i = 11 => 2^i = 2048
  BY SMT
<1>12. i = 12 => 2^i = 4096
  BY SMT
<1>13. i = 13 => 2^i = 8192
  BY SMT
<1>14. i = 14 => 2^i = 16384
  BY SMT
<1>15. i = 15 => 2^i = 32768
  BY SMT
<1>16. i = 16 => 2^i = 65536
  BY SMT
<1>17. i = 17 => 2^i = 131072
  BY SMT
<1>. QED
  BY <1>0, <1>1, <1>2, <1>3, <1>4, <1>5, <1>6, <1>7, <1>8, <1>9,
     <1>10, <1>11, <1>12, <1>13, <1>14, <1>15, <1>16, <1>17

Weights == {1, 2, 4, 8, 16, 32, 64, 128, 256, 512, 1024, 2048, 4096, 8192, 16384,
            32768, 65536, 131072}

(* The bits are numbered; the provers take them one by one. *)
LEMMA OneOfEighteen ==
  ASSUME NEW i \in 0..17
  PROVE  \/ i = 0 \/ i = 1 \/ i = 2 \/ i = 3 \/ i = 4 \/ i = 5 \/ i = 6 \/ i = 7
         \/ i = 8 \/ i = 9 \/ i = 10 \/ i = 11 \/ i = 12 \/ i = 13 \/ i = 14 \/ i = 15
         \/ i = 16 \/ i = 17
OBVIOUS

(* Each power of two is a weight. *)
LEMMA WeightOfBit ==
  ASSUME NEW i \in 0..17
  PROVE  2^i \in Weights
BY OneOfEighteen, Powers, SMT DEF Weights

(* A weight is twice the one before. *)
LEMMA WeightDoubles ==
  ASSUME NEW i \in 0..17, i # 0
  PROVE  i - 1 \in 0..17 /\ 2^i = 2 * 2^(i - 1)
<1>1. i - 1 \in Int
  OBVIOUS
<1>. QED  BY <1>1, OneOfEighteen, Powers, SMT

(* Another bit has another weight. *)
LEMMA WeightsDiffer ==
  ASSUME NEW i \in 0..17, NEW j \in 0..17, i # j
  PROVE  2^i # 2^j
BY OneOfEighteen, Powers, SMT

(* A larger weight is an even multiple of a smaller one. *)
LEMMA WeightsDivide ==
  ASSUME NEW w \in Weights, NEW m \in Weights, w < m
  PROVE  \E k \in Nat \ {0} : m = w * (2 * k)
<1> DEFINE k == m \div (2 * w)
<1>1. m = w * (2 * k) /\ k \in Nat \ {0}
  BY SMTT(30) DEF Weights
<1>. QED  BY <1>1

-----------------------------------------------------------------------------
(* The bits that Parity counts. *)
Ones(v) == {i \in 0..17 : Bit(v, 2^i) = 1}

(* They are finitely many. *)
LEMMA OnesFinite ==
  ASSUME NEW v
  PROVE  IsFiniteSet(Ones(v)) /\ Cardinality(Ones(v)) \in Nat
<1>1. IsFiniteSet(0..17)
  <2>1. 0 \in Int /\ 17 \in Int
    OBVIOUS
  <2>. QED  BY <2>1, FS_Interval, Zenon
<1>2. IsFiniteSet(Ones(v))
  BY <1>1, FS_Subset DEF Ones
<1>. QED  BY <1>2, FS_CardinalityType

(* Adding the weight of a clear bit sets it and no other. *)
LEMMA OneMoreOne ==
  ASSUME NEW u \in Nat, NEW n \in 0..17, Bit(u, 2^n) = 0
  PROVE  Parity(u + 2^n) # Parity(u)
<1> DEFINE m == 2^n
<1>1. m \in Weights
  BY WeightOfBit
<1>2. \A w \in Weights : w \in Nat \ {0}
  BY DEF Weights
<1>3. ASSUME NEW j \in 0..17, j # n PROVE Bit(u + m, 2^j) = Bit(u, 2^j)
  <2> DEFINE w == 2^j
  <2>1. w \in Weights /\ w # m
    BY <1>3, WeightOfBit, WeightsDiffer
  <2> HIDE DEF m, w
  <2>2. CASE w < m
    <3>1. PICK k \in Nat \ {0} : m = w * (2 * k)
      BY <1>1, <2>1, <2>2, WeightsDivide
    <3>. QED  BY <1>2, <2>1, <3>1, BitsBelowKept DEF w
  <2>3. CASE m < w
    <3>1. PICK k \in Nat \ {0} : w = m * (2 * k)
      BY <1>1, <2>1, <2>3, WeightsDivide
    <3>2. Bit(u, m) = 0
      BY DEF m
    <3>3. Bit(u + m, w) = Bit(u, w)
      BY <1>1, <1>2, <3>1, <3>2, BitsAboveKept
    <3>. QED  BY <3>3 DEF w
  <2>. QED  BY <1>1, <1>2, <2>1, <2>2, <2>3
<1>4. Bit(u + m, m) = 1
  <2>1. (u + m) \div m = (u \div m) + 1 /\ u \div m \in Nat
    BY <1>1, <1>2, BitRaised, Quotient
  <2>2. (u \div m) % 2 = 0
    BY DEF Bit
  <2> HIDE DEF m
  <2>. QED  BY <2>1, <2>2 DEF Bit
<1>5. Ones(u + m) = Ones(u) \union {n} /\ n \notin Ones(u)
  <2>1. Bit(u + m, 2^n) = 1 /\ Bit(u, 2^n) # 1
    BY <1>4
  <2> HIDE DEF m
  <2>2. \A j \in 0..17 : j # n => Bit(u + m, 2^j) = Bit(u, 2^j)
    BY <1>3
  <2> DEFINE Before(j) == Bit(u, 2^j) = 1
             After(j)  == Bit(u + m, 2^j) = 1
  <2>3. \A j \in 0..17 : After(j) <=> Before(j) \/ j = n
    BY <2>1, <2>2
  <2>4. ~Before(n)
    BY <2>1
  <2>5. Ones(u + m) = {j \in 0..17 : After(j)} /\ Ones(u) = {j \in 0..17 : Before(j)}
    BY DEF Ones
  <2> HIDE DEF Before, After
  <2>. QED  BY <2>3, <2>4, <2>5, Zenon
<1> HIDE DEF m
<1>6. Cardinality(Ones(u + m)) = Cardinality(Ones(u)) + 1
  BY <1>5, OnesFinite, FS_AddElement
<1>7. \A c \in Nat : (c + 1) % 2 # c % 2
  OBVIOUS
<1>8. Parity(u + m) # Parity(u)
  BY <1>6, <1>7, OnesFinite DEF Parity, Ones
<1>. QED  BY <1>8 DEF m

(* A flipped bit changes the parity. *)
LEMMA FlipChangesParity ==
  ASSUME NEW u \in Nat, NEW n \in 0..17
  PROVE  Flip(u, 2^n) \in Nat /\ Parity(Flip(u, 2^n)) # Parity(u)
<1> DEFINE m == 2^n
<1>1. m \in Nat \ {0}
  <2>1. m \in Weights
    BY WeightOfBit
  <2> HIDE DEF m
  <2>. QED  BY <2>1 DEF Weights
<1>2. u \div m \in Nat /\ (u \div m) * m <= u
  BY <1>1, Quotient
<1>3. Bit(u, m) = 0 \/ Bit(u, m) = 1
  BY <1>2 DEF Bit
<1>4. CASE Bit(u, m) = 0
  <2>1. Flip(u, m) = u + m
    BY <1>4 DEF Flip
  <2>2. Parity(u + m) # Parity(u)
    BY <1>4, OneMoreOne
  <2>. QED  BY <1>1, <2>1, <2>2
<1>5. CASE Bit(u, m) = 1
  <2> DEFINE v == u - m
  <2>1. Flip(u, m) = v
    BY <1>5 DEF Flip
  <2>2. u >= m
    <3> DEFINE q == u \div m
    <3>1. q \in Nat /\ q % 2 = 1 /\ q * m <= u
      BY <1>2, <1>5 DEF Bit
    <3> HIDE DEF q, m
    <3>2. PICK k \in Nat : q = 1 + k
      <4>. q - 1 \in Nat /\ q = 1 + (q - 1)
        BY <3>1
      <4>. QED  OBVIOUS
    <3>3. q * m = m + k * m /\ k * m \in Nat
      BY <1>1, <3>2
    <3>. QED  BY <1>1, <3>1, <3>3
  <2>3. v \in Nat /\ u = v + m
    <3> HIDE DEF m
    <3>. QED  BY <1>1, <2>2
  <2>4. Bit(v, m) = 0
    <3> HIDE DEF m, v
    <3>1. u \div m = (v \div m) + 1 /\ v \div m \in Nat
      BY <1>1, <2>3, BitRaised, Quotient
    <3>. QED  BY <1>5, <3>1 DEF Bit
  <2>5. Parity(v + m) # Parity(v)
    BY <2>3, <2>4, OneMoreOne
  <2>. QED  BY <2>1, <2>3, <2>5
<1>. QED  BY <1>3, <1>4, <1>5

-----------------------------------------------------------------------------
(* The word of the sensor: its angle, its status and the parity of both.   *)
LEMMA WordParts ==
  ASSUME NEW a \in Count12, NEW s \in 0..31
  PROVE  /\ Word(a, s) \in Nat
         /\ Word(a, s) \div 2 \in Nat
         /\ Word(a, s) % 2 = Parity(Word(a, s) \div 2)
         /\ (Word(a, s) \div 64) % 4096 = a
         /\ Word(a, s) \div 64 = a
<1> DEFINE u == a * 32 + s
           p == Parity(u)
<1>1. p = 0 \/ p = 1
  <2>1. Cardinality(Ones(u)) \in Nat
    BY OnesFinite
  <2> HIDE DEF u
  <2>. QED  BY <2>1 DEF Parity, Ones
<1>2. Word(a, s) = u * 2 + p
  BY DEF Word
<1>3. a \in Nat /\ a <= 4095 /\ s \in Nat /\ s <= 31
  BY DEF Count12
<1>4. u \in Nat /\ u = a * 32 + s
  BY <1>3
<1> HIDE DEF u, p
<1>5. (u * 2 + p) \div 2 = u /\ (u * 2 + p) % 2 = p /\ u * 2 + p \in Nat
  BY <1>1, <1>4
<1>6. (u * 2 + p) \div 64 = a
  BY <1>1, <1>3, <1>4
<1>7. a % 4096 = a
  BY <1>3
<1>. QED  BY <1>2, <1>4, <1>5, <1>6, <1>7 DEF p

(* The first test of the status never holds. *)
LEMMA SuspiciousIs ==
  ASSUME NEW v \in Nat
  PROVE  Suspicious(v) <=>
           \/ Bit(v, COF) = 1 \/ Bit(v, LIN) = 1
           \/ Parity(v \div 2) # v % 2
<1>1. Bit(IF v % 64 = 0 THEN 1 ELSE 0, OCF) = 0
  BY DEF Bit, OCF
<1>. QED  BY <1>1 DEF Suspicious

(* A number without its last bit has the quotient of the number by twice   *)
(* the divisor.                                                            *)
LEMMA HalfQuotient ==
  ASSUME NEW w \in Nat, NEW k \in Nat \ {0}
  PROVE  w \div (2 * k) = (w \div 2) \div k
<1> DEFINE u == w \div 2
           q == u \div k
<1>1. u \in Nat /\ (w = 2 * u \/ w = 2 * u + 1)
  OBVIOUS
<1> HIDE DEF u
<1>2. q \in Nat
  BY <1>1, Quotient
<1>3. PICK r \in Nat : r < k /\ u = k * q + r
  BY <1>1, Division
<1> HIDE DEF q
<1>4. PICK t \in Nat : t < 2 * k /\ w = (2 * k) * q + t
  <2>1. (2 * k) * q = 2 * (k * q) /\ k * q \in Nat
    BY <1>2
  <2>2. CASE w = 2 * u
    <3>1. w = (2 * k) * q + 2 * r
      BY <1>3, <2>1, <2>2
    <3>2. 2 * r \in Nat /\ 2 * r < 2 * k
      BY <1>3
    <3>. QED  BY <3>1, <3>2
  <2>3. CASE w = 2 * u + 1
    <3>1. w = (2 * k) * q + (2 * r + 1)
      BY <1>3, <2>1, <2>3
    <3>2. 2 * r + 1 \in Nat /\ 2 * r + 1 < 2 * k
      BY <1>3
    <3>. QED  BY <3>1, <3>2
  <2>. QED  BY <1>1, <2>2, <2>3
<1>5. 2 * k \in Nat \ {0}
  OBVIOUS
<1>6. ((2 * k) * q + t) \div (2 * k) = q
  <2> DEFINE d == 2 * k
  <2> HIDE DEF d
  <2>1. d \in Nat \ {0} /\ t < d
    BY <1>4, <1>5 DEF d
  <2>2. (d * q + t) \div d = q
    BY <1>2, <2>1, QuotientIs
  <2>. QED  BY <2>2 DEF d
<1>. QED  BY <1>4, <1>6 DEF q, u

(* A word whose parity is right has a wrong one when a bit is flipped, be  *)
(* it the parity bit itself or one of those that it counts.                *)
LEMMA FlipSeen ==
  ASSUME NEW w \in Nat, w % 2 = Parity(w \div 2), NEW n \in 0..17
  PROVE  /\ Flip(w, 2^n) \in Nat /\ Flip(w, 2^n) # w
         /\ Parity(Flip(w, 2^n) \div 2) # Flip(w, 2^n) % 2
<1> DEFINE u == w \div 2
           p == w % 2
<1>1. u \in Nat /\ p \in {0, 1} /\ w = 2 * u + p
  OBVIOUS
<1>2. p = Parity(u)
  OBVIOUS
<1> HIDE DEF u, p
<1>3. CASE n = 0
  <2>1. 2^n = 1
    BY <1>3, SMT
  <2>2. w \div 1 = w
    OBVIOUS
  <2>3. Bit(w, 1) = p
    BY <2>2 DEF Bit, p
  <2>4. Flip(w, 1) = 2 * u + (1 - p)
    BY <1>1, <2>3 DEF Flip
  <2>5. /\ (2 * u + (1 - p)) \div 2 = u /\ (2 * u + (1 - p)) % 2 = 1 - p
        /\ 2 * u + (1 - p) \in Nat /\ 2 * u + (1 - p) # w /\ 1 - p # p
    BY <1>1
  <2>. QED  BY <1>2, <2>1, <2>4, <2>5
<1>4. CASE n # 0
  <2> DEFINE i == n - 1
             k == 2^i
             x == Flip(u, k)
  <2>1. i \in 0..17 /\ 2^n = 2 * k
    BY <1>4, WeightDoubles
  <2> HIDE DEF i
  <2>2. k \in Nat \ {0}
    <3>1. k \in Weights
      BY <2>1, WeightOfBit
    <3> HIDE DEF k
    <3>. QED  BY <3>1 DEF Weights
  <2>3. x \in Nat /\ Parity(x) # Parity(u)
    BY <1>1, <2>1, FlipChangesParity
  <2> HIDE DEF k
  <2>4. Bit(w, 2 * k) = Bit(u, k)
    BY <2>2, HalfQuotient DEF Bit, u
  <2>5. x = IF Bit(u, k) = 1 THEN u - k ELSE u + k
    BY DEF Flip
  <2>6. Flip(w, 2 * k) = IF Bit(u, k) = 1 THEN w - 2 * k ELSE w + 2 * k
    BY <2>4 DEF Flip
  <2> HIDE DEF x
  <2>7. Flip(w, 2 * k) = 2 * x + p /\ Flip(w, 2 * k) # w
    BY <1>1, <2>2, <2>5, <2>6
  <2>8. (2 * x + p) \div 2 = x /\ (2 * x + p) % 2 = p /\ 2 * x + p \in Nat
    BY <1>1, <2>3
  <2>. QED  BY <1>2, <2>1, <2>3, <2>7, <2>8
<1>. QED  BY <1>3, <1>4

-----------------------------------------------------------------------------
(* The line flips one bit of a word at most. *)
OneBitFlips == Flips \subseteq {2^i : i \in 0..17}

(* What the code finds doubtful of a reading. *)
Doubtful == sent.flipped \/ Bit(sent.word, COF) = 1 \/ Bit(sent.word, LIN) = 1

(* The flag is clear when the angle is read, and from then on it tells of  *)
(* that angle until the next period clears it.                             *)
FlagInv ==
  /\ pc = "mag" => flag = FALSE
  /\ AlarmsFlagged

(* At power-up no angle has been read. *)
LEMMA FlagInit == Init => FlagInv
BY DEF Init, FlagInv, AlarmsFlagged

(* The reading of a word, flipped or not, raises the flag exactly when the *)
(* status of the word or the flip is a reason to.                          *)
LEMMA ReadFlags ==
  ASSUME OneBitFlips, pc = "mag" => flag = FALSE, read_mag_sensor
  PROVE  /\ flag' <=> Doubtful'
         /\ ~flag' => reading' = sent'.word \div 64
<1>1. PICK a \in Angles, s \in Statuses :
        \E v \in {Word(a, s)} \union {Flip(Word(a, s), mask) : mask \in Flips} :
          /\ sent' = [word |-> Word(a, s), flipped |-> v # Word(a, s)]
          /\ flag' = (flag \/ Suspicious(v))
          /\ reading' = (v \div 64) % 4096
  BY DEF read_mag_sensor
<1> DEFINE w == Word(a, s)
<1>2. PICK v \in {w} \union {Flip(w, mask) : mask \in Flips} :
        /\ sent' = [word |-> w, flipped |-> v # w]
        /\ flag' = (flag \/ Suspicious(v))
        /\ reading' = (v \div 64) % 4096
  BY <1>1
<1>3. a \in Count12 /\ s \in 0..31
  BY SensorAssumption
<1>4. /\ w \in Nat /\ w % 2 = Parity(w \div 2)
      /\ (w \div 64) % 4096 = w \div 64
  BY <1>3, WordParts
<1> HIDE DEF w
<1>5. flag' <=> Suspicious(v)
  <2>1. flag = FALSE
    BY DEF read_mag_sensor
  <2>. QED  BY <1>2, <2>1
<1>6. /\ sent'.word = w
      /\ sent'.flipped <=> v # w
  BY <1>2
<1>7. CASE v = w
  <2>1. Suspicious(w) <=> Bit(w, COF) = 1 \/ Bit(w, LIN) = 1
    <3>1. \A x \in Nat : Suspicious(x) <=>
            (Bit(x, COF) = 1 \/ Bit(x, LIN) = 1 \/ Parity(x \div 2) # x % 2)
      BY SuspiciousIs
    <3>2. w \in Nat
      BY <1>4
    <3>3. Parity(w \div 2) = w % 2
      BY <1>4
    <3>4. Suspicious(w) <=>
            (Bit(w, COF) = 1 \/ Bit(w, LIN) = 1 \/ Parity(w \div 2) # w % 2)
      BY ONLY <3>2, <3>1
    <3>. QED  BY ONLY <3>4, <3>3
  <2>. QED  BY <1>2, <1>4, <1>5, <1>6, <1>7, <2>1 DEF Doubtful
<1>8. CASE v # w
  <2>1. PICK n \in 0..17 : v = Flip(w, 2^n)
    BY <1>2, <1>8 DEF OneBitFlips
  <2>2. v \in Nat /\ Parity(v \div 2) # v % 2
    <3>1. \A x \in Nat, i \in 0..17 : x % 2 = Parity(x \div 2) =>
            /\ Flip(x, 2^i) \in Nat
            /\ Parity(Flip(x, 2^i) \div 2) # Flip(x, 2^i) % 2
      BY FlipSeen
    <3>2. w \in Nat
      BY <1>4
    <3>3. w % 2 = Parity(w \div 2)
      BY <1>4
    <3>4. /\ Flip(w, 2^n) \in Nat
          /\ Parity(Flip(w, 2^n) \div 2) # Flip(w, 2^n) % 2
      BY ONLY <3>1, <3>2, <3>3, n \in 0..17
    <3>. QED  BY ONLY <2>1, <3>4
  <2>3. Suspicious(v)
    BY <2>2, SuspiciousIs
  <2>. QED  BY <1>5, <1>6, <1>8, <2>3 DEF Doubtful
<1>. QED  BY <1>7, <1>8

(* Only the reading of the angle and the start of a period set the flag. *)
LEMMA FlagStep ==
  ASSUME OneBitFlips PROVE FlagInv /\ [Next]_vars => FlagInv'
<1> SUFFICES ASSUME FlagInv, [Next]_vars PROVE FlagInv'
  OBVIOUS
<1>1. CASE read_mag_sensor
  <2>1. pc' = "angle"
    BY <1>1 DEF read_mag_sensor
  <2>2. /\ flag' <=> Doubtful'
        /\ ~flag' => reading' = sent'.word \div 64
    BY <1>1, ReadFlags DEF FlagInv
  <2>. QED  BY <2>1, <2>2 DEF FlagInv, AlarmsFlagged, Doubtful
<1>2. CASE clear_all_flags
  BY <1>2 DEF clear_all_flags, FlagInv, AlarmsFlagged
<1>3. CASE store_angle
  <2>1. /\ pc = "angle" /\ pc' = "acc_low" /\ angle'.servo = reading
        /\ UNCHANGED <<flag, sent>>
    BY <1>3 DEF store_angle
  <2>. QED  BY <2>1 DEF FlagInv, AlarmsFlagged
<1>4. CASE read_low \/ read_high \/ read_curr_sensor \/ take_conversion
  <2>1. /\ pc \notin {"notified", "mag", "angle"} /\ pc' \notin {"notified", "mag", "angle"}
        /\ UNCHANGED <<flag, sent, angle>>
    BY <1>4 DEF read_low, read_high, read_curr_sensor, take_conversion
  <2>. QED  BY <2>1 DEF FlagInv, AlarmsFlagged
<1>5. CASE store_current
  BY <1>5 DEF store_current, FlagInv, AlarmsFlagged
<1>6. CASE process_get_order \/ ImuSamples \/ AdcConverts \/ UNCHANGED vars
  <2>1. UNCHANGED <<pc, flag, sent, reading, angle>>
    BY <1>6 DEF process_get_order, ImuSamples, AdcConverts, vars
  <2>. QED  BY <2>1 DEF FlagInv, AlarmsFlagged
<1>. QED  BY <1>1, <1>2, <1>3, <1>4, <1>5, <1>6 DEF Next, task_main_loop

(* For all angles and statuses, and whichever single bit the line flips,   *)
(* the flag tells of the angle whether it overflowed, was not linear or    *)
(* was garbled: parity, which the sensor computes and the board counts     *)
(* again, misses no flipped bit, and what it did not flag is the angle     *)
(* that the sensor sent (mag_sensor.c:99-139).  Of an unfinished offset    *)
(* compensation, whose test never holds (OffsetFlagged), nothing is said.  *)
THEOREM AlarmsAreFlagged ==
  ASSUME OneBitFlips PROVE Spec => []AlarmsFlagged
<1>1. FlagInv => AlarmsFlagged
  BY DEF FlagInv
<1>. QED  BY <1>1, FlagInit, FlagStep, PTL DEF Spec
=============================================================================
