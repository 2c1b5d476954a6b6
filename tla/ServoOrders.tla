---------------------------- MODULE ServoOrders ----------------------------
(***************************************************************************)
(* The orders a servo board receives over CAN and the registers they name. *)
(*                                                                         *)
(* A frame is the order byte, the information ID (split here into the      *)
(* parameter it names and the controller it belongs to), the payload and   *)
(* the number of bytes.  A PID_* order carries its switch where the other  *)
(* orders carry the information ID: byte 1 is "off" when it is zero.       *)
(***************************************************************************)
EXTENDS ServoControl

Pids == {"pos", "spe", "tor"}

Params == {"ref", "kp", "ki", "kd", "int_limit", "mod_fact"}

Measures == {"position", "speed", "torque", "channel", "flags"}

Infos == Params \union Measures \union {"max_torque", "on", "off", "unknown"}

PidOrder == [pos |-> "PID_POS", spe |-> "PID_SPE", tor |-> "PID_TOR"]

WriteOrder == <<"WRITE_0", "WRITE_1">>

WriteOrders == {"WRITE_0", "WRITE_1"}

Orders == {"SYNC", "DEBUG", "GET", "PID_POS", "PID_SPE", "PID_TOR", "unknown"}
            \union WriteOrders

Frame == [order : Orders, par : Infos, pid : Pids \union {"none"},
          val : Int, len : Nat]

-----------------------------------------------------------------------------
(* The write order that carries polarity bit b. *)
Accepts(polarity, order) == order = WriteOrder[polarity + 1]

Writable(par, pid) == (par \in Params /\ pid \in Pids) \/ par = "max_torque"

(* The payload as the handler reads it: percentages and limits are bytes,  *)
(* a torque is signed, and all else is unsigned, a speed included.         *)
Payload(par, pid, val) ==
  CASE par \in {"int_limit", "mod_fact", "max_torque"} -> val % 256
    [] par = "ref" /\ pid = "tor" -> ToInt16(val)
    [] OTHER -> val % 65536

(* What the handler may write back for a register that holds v: a negative *)
(* torque is a double when it is converted to uint16_t, which is undefined *)
(* (0 where the conversion saturates, v's 16 bits where it wraps).         *)
WrittenBack(par, pid, v) ==
  IF par = "ref" /\ pid = "tor" /\ v < 0 THEN {0, v % 65536} ELSE {v}

NewRegOfPos(reg, par, pid, v) ==
  IF par \in Params THEN [reg EXCEPT !["pos"][par] = v] ELSE reg

NewReg(reg, par, pid, v) ==
  IF par \in Params THEN [reg EXCEPT ![pid][par] = v] ELSE reg

NewHasBeenSet(has_been_set, par, pid) ==
  IF par = "ref" THEN [has_been_set EXCEPT ![pid] = TRUE] ELSE has_been_set

NewMaxTorque(max_torque, par, v) ==
  IF par = "max_torque" THEN MaxTorque(v) ELSE max_torque

(* init_pid, and the references, which start as zeroed globals. *)
InitReg == [p \in Pids |-> [x \in Params |-> IF x = "mod_fact" THEN 100 ELSE 0]]
=============================================================================
