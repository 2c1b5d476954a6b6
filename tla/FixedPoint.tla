----------------------------- MODULE FixedPoint -----------------------------
(***************************************************************************)
(* The 16.16 fixed-point numbers in which speeds and gains travel between  *)
(* the boards: a pair of 16-bit numbers.  A value is an integer here, in   *)
(* hundredths: the unit of a speed, whose control period is a hundredth of *)
(* a second.                                                               *)
(***************************************************************************)
EXTENDS Integers

Hundred == 100

DigitTruncated(fraction) == (fraction * 65536) \div Hundred

(* round of a fraction, in 65536ths; no hundredth rounds up to a whole. *)
Digit(fraction) == (fraction * 65536 + Hundred \div 2) \div Hundred

(* The numbers format_16_16 may give.  A negative double has no conversion *)
(* to uint16_t: the board's library gives 0, or what is left of an int;    *)
(* the digit, taken from the difference with that, comes out as 0.         *)
format_16_16(value) ==
  LET floor == value \div Hundred
  IN  IF value >= 0 THEN {[unit |-> floor % 65536, digit |-> Digit(value % Hundred)]}
      ELSE {[unit |-> u, digit |-> 0] : u \in {0, floor % 65536}}

(* The number is read as unsigned, and is the value to half a digit. *)
ReadsAs(value, number) ==
  LET excess == number.digit * Hundred - (value % Hundred) * 65536
  IN  /\ number.unit = value \div Hundred
      /\ -(Hundred \div 2) <= excess /\ excess <= Hundred \div 2
=============================================================================
