--------------------------- MODULE ServoRegisters ---------------------------
(***************************************************************************)
(* What the servo board promises to whoever configures it: every order     *)
(* takes effect in one piece.  A WRITE of the expected polarity stores the *)
(* value of its frame in the register its frame names and flips the        *)
(* polarity, a PID order switches one controller, and switching a          *)
(* controller off forgets that its reference was set.                      *)
(***************************************************************************)
EXTENDS ServoOrders

CONSTANT Frames     (* the frames the bus may carry *)

VARIABLES polarity, reg, enabled, has_been_set, max_torque

vars == <<polarity, reg, enabled, has_been_set, max_torque>>

Init ==
  /\ polarity = 0
  /\ reg = InitReg
  /\ enabled = [p \in Pids |-> FALSE]
  /\ has_been_set = [p \in Pids |-> FALSE]
  /\ max_torque = 0

(* A write to an unknown register stores nothing and still counts. *)
Write(f) ==
  /\ Accepts(polarity, f.order)
  /\ polarity' = 1 - polarity
  /\ LET v == Payload(f.par, f.pid, f.val)
     IN  IF Writable(f.par, f.pid)
         THEN /\ reg' = NewReg(reg, f.par, f.pid, v)
              /\ has_been_set' = NewHasBeenSet(has_been_set, f.par, f.pid)
              /\ max_torque' = NewMaxTorque(max_torque, f.par, v)
         ELSE UNCHANGED <<reg, has_been_set, max_torque>>
  /\ UNCHANGED enabled

Switch(f) ==
  \E p \in Pids :
    /\ f.order = PidOrder[p]
    /\ enabled' = [enabled EXCEPT ![p] = f.par # "off"]
    /\ has_been_set' = [has_been_set EXCEPT ![p] = @ /\ f.par # "off"]
    /\ UNCHANGED <<polarity, reg, max_torque>>

Next == \E f \in Frames : Write(f) \/ Switch(f)

Spec == Init /\ [][Next]_vars
=============================================================================
