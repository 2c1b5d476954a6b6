------------------------------ MODULE MCServo ------------------------------
(***************************************************************************)
(* Instances of Servo for TLC: the frames each run lets the bus deliver.   *)
(***************************************************************************)
EXTENDS Servo

SimpleFrame(order, par, len) ==
  [order |-> order, par |-> par, pid |-> "none", val |-> 0, len |-> len]

Sync == SimpleFrame("SYNC", "unknown", 1)

Switches(p) == {SimpleFrame(PidOrder[p], sw, 2) : sw \in {"on", "off"}}

Gets(pars) == {SimpleFrame("GET", par, 2) : par \in pars}

Writes(par, pid, vals) ==
  {[order |-> w, par |-> par, pid |-> pid, val |-> v, len |-> 4] :
      w \in WriteOrders, v \in vals}

(* Registers of two controllers and of the drive, an unknown register, and  *)
(* the orders that run the control task meanwhile.  Some writes exist with  *)
(* one polarity only, so that one applied out of turn is not taken for its  *)
(* twin of the other polarity.  A reference may be negative, a limit too   *)
(* large for its byte.                                                     *)
RegisterFrames ==
  {Sync, SimpleFrame("DEBUG", "unknown", 5)} \union Switches("pos") \union Gets({"flags"})
    \union Writes("unknown", "none", {1})
    \union {f \in Writes("ref", "spe", {-100}) : f.order = "WRITE_0"}
    \union {f \in Writes("ref", "tor", {-5}) : f.order = "WRITE_1"}
    \union {f \in Writes("int_limit", "pos", {257}) : f.order = "WRITE_0"}
    \union {f \in Writes("max_torque", "none", {5}) : f.order = "WRITE_1"}

(* Orders that change what the motor is asked to do. *)
ControlFrames ==
  {Sync} \union Switches("pos") \union Writes("ref", "pos", {75})

(* A board after the WRITE orders of gains that leave the law just within   *)
(* int16_t when the integral has wound up or the error has jumped.          *)
Gains ==
  [InitReg["pos"] EXCEPT !["kp"] = 10, !["ki"] = 9000, !["kd"] = 1, !["int_limit"] = 1]

Configured ==
  /\ started = TRUE
  /\ rx = NoFrame
  /\ notified = [t \in {"orders", "main"} |-> FALSE]
  /\ o = OrdersIdle
  /\ m = MainIdle
  /\ polarity = 0
  /\ reg = [InitReg EXCEPT !["pos"] = Gains]
  /\ enabled = [p \in Pids |-> FALSE]
  /\ has_been_set = [p \in Pids |-> FALSE]
  /\ output = [p \in Pids |-> 0]
  /\ integral_term = [p \in Pids |-> 0]
  /\ prev_e = [p \in Pids |-> 0]
  /\ max_torque = 512
  /\ meas = [angle |-> 0, speed |-> 0, torque |-> 0, channel |-> 0]
  /\ prev_angle_set = FALSE
  /\ flags = {}
  /\ drive = 0
  /\ driver_on = TRUE
  /\ reply = NoMessage

ConfiguredSpec == Configured /\ [][Next]_vars

(* Orders that switch a controller on and off. *)
ReleaseFrames ==
  {Sync} \union Switches("spe") \union Writes("ref", "spe", {1})
    \union {[order |-> "WRITE_0", par |-> "kp", pid |-> "spe", val |-> 3, len |-> 6],
            [order |-> "WRITE_0", par |-> "max_torque", pid |-> "none", val |-> 1, len |-> 3]}
=============================================================================
