-------------------------------- MODULE Robot --------------------------------
(***************************************************************************)
(* The whole robot: the motherboard of HoldReflex, the servo boards as     *)
(* ServoRegisters specifies them (ServosAreBoards shows that they do what  *)
(* it allows, ServoImplementsRegisters that the firmware does), and        *)
(* between them the MF board, which forwards the orders of a downlink in   *)
(* order and returns the answers of a period in the next uplink.  A fault  *)
(* is a wait of the reflex that ends without a signal, or an uplink that   *)
(* fails.                                                                  *)
(***************************************************************************)
EXTENDS HoldReflex

CONSTANTS
  Counts,     (* per servo, the counts its magnetic sensor may read           *)
  MaxFaults   (* bound: faults in a behaviour                                 *)

ASSUME CountsAssumption == Counts \in [Servos -> SUBSET {n \in Nat : n <= 4095}]

ASSUME FaultsAssumption == MaxFaults \in Nat

VARIABLES
  bus,        (* orders the MF board has still to transmit                    *)
  answers,    (* answers it has collected for the next uplink                 *)
  servo,      (* per servo: polarity, registers, switches, max_torque         *)
  reported,   (* history: the positions each servo has answered with          *)
  faults,     (* the faults that have happened                                *)
  missed      (* history: the registers whose last answer to a WRITE was lost *)

boards == <<bus, answers, servo, reported>>

vars == <<board, boards, faults, missed>>

Init ==
  /\ InitBoard
  /\ bus = <<>>
  /\ answers = <<>>
  /\ servo = [i \in Servos |-> [polarity |-> 0, reg |-> InitReg, max_torque |-> 0,
                                enabled |-> FALSE, has_been_set |-> FALSE]]
  /\ reported = [i \in Servos |-> {}]
  /\ faults = 0
  /\ missed = {}

-----------------------------------------------------------------------------
(* The MF board's cycle ends when its orders have been transmitted. *)
Uplink ==
  /\ bus = <<>>
  /\ op_new_period(answers)
  /\ answers' = <<>>
  /\ UNCHANGED <<bus, servo, reported, faults, missed>>

Downlink ==
  /\ com_downlink
  /\ bus' = bus \o queue
  /\ UNCHANGED <<answers, servo, reported, faults, missed>>

(* The registers that the answers to WRITE orders among some frames name. *)
Named(frames) ==
  {<<frames[k].servo, frames[k].pid, frames[k].par>> :
     k \in {n \in DOMAIN frames : frames[n].order \in WriteOrders}}

(* The uplink fails: the answers it was to bring are lost, all of them or  *)
(* those that have not been handled yet.                                   *)
UplinkFails ==
  /\ faults < MaxFaults
  /\ UplinkError
  /\ \/ /\ sup.pc = "uplink" /\ bus = <<>>
        /\ answers' = <<>>
        /\ missed' = missed \union Named(answers)
     \/ /\ sup.pc = "frames"
        /\ missed' = missed \union Named(sup.frames)
        /\ UNCHANGED answers
  /\ faults' = faults + 1
  /\ UNCHANGED <<bus, servo, reported>>

Written(s, ord) ==
  IF ~Accepts(s.polarity, ord.order) THEN s
  ELSE LET v == Payload(ord.par, ord.pid, ord.val)
       IN  [s EXCEPT !.polarity = 1 - @,
                     !.reg = NewReg(s.reg, ord.par, ord.pid, v),
                     !.max_torque = NewMaxTorque(s.max_torque, ord.par, v),
                     !.has_been_set = @ \/ ord.par = "ref"]

(* A servo handles an order; only GET and accepted WRITE orders are        *)
(* answered.  The reflex uses the position controller alone.               *)
HandleGet(ord, count) ==
  /\ ord.order = "GET"
  /\ answers' = Append(answers, [ord EXCEPT !.val = count])
  /\ reported' = IF ord.par = "position"
                 THEN [reported EXCEPT ![ord.servo] = @ \union {count}] ELSE reported
  /\ UNCHANGED servo

HandleWrite(ord) ==
  /\ ord.order \in WriteOrders
  /\ servo' = [servo EXCEPT ![ord.servo] = Written(@, ord)]
  /\ LET v == Payload(ord.par, ord.pid, ord.val)
     IN  \E echo \in WrittenBack(ord.par, ord.pid, v) :
           answers' = IF Accepts(servo[ord.servo].polarity, ord.order)
                      THEN Append(answers, [ord EXCEPT !.val = echo]) ELSE answers
  /\ UNCHANGED reported

HandlePid(ord) ==
  /\ ord.order = "PID_POS"
  /\ servo' = [servo EXCEPT ![ord.servo].enabled = ord.par # "off",
                            ![ord.servo].has_been_set = @ /\ ord.par # "off"]
  /\ UNCHANGED <<answers, reported>>

Transmit ==
  /\ bus # <<>>
  /\ LET ord == Head(bus)
     IN  \/ \E count \in Counts[ord.servo] : HandleGet(ord, count)
         \/ HandleWrite(ord)
         \/ HandlePid(ord)
  /\ bus' = Tail(bus)
  /\ UNCHANGED <<board, faults, missed>>

ReceiveFrame ==
  /\ op_recv_frame
  /\ missed' = missed \ Named(<<Head(sup.frames)>>)
  /\ UNCHANGED <<boards, faults>>

Reflex == Hold /\ UNCHANGED <<boards, faults, missed>>

WakeEarly ==
  /\ faults < MaxFaults
  /\ SpuriousWake
  /\ faults' = faults + 1
  /\ UNCHANGED <<boards, missed>>

Collide == update_collision /\ UNCHANGED <<boards, faults, missed>>

Next ==
  \/ Uplink \/ ReceiveFrame \/ Downlink \/ UplinkFails
  \/ Transmit
  \/ Reflex \/ WakeEarly
  \/ Collide

Spec == Init /\ [][Next]_vars

(* The threads are scheduled and the MF board's cycle goes on, beyond the  *)
(* last fault; nothing makes the robot fall.                               *)
Fairness ==
  /\ WF_vars(Uplink \/ ReceiveFrame \/ Downlink)
  /\ WF_vars(Transmit)
  /\ WF_vars(Reflex)

FairSpec == Spec /\ Fairness

-----------------------------------------------------------------------------
(* The controllers are switched on only with the gains and limits of the   *)
(* reflex in force and a reference that the servo itself has measured, to  *)
(* a count: otherwise the joints would jump when they are switched on.     *)
(* The waits of hold_reflex.c:187-189 are all that sees to the measure:    *)
(* after a fault the reference may be the zero that the world began with.  *)
SwitchedOnReady ==
  \A i \in Servos : servo[i].enabled =>
    LET r == servo[i].reg["pos"]
    IN  /\ servo[i].has_been_set
        /\ \/ \E n \in reported[i] : r["ref"] \in {n - 1, n}
           \/ faults > 0 /\ r["ref"] = 0
        /\ r["kp"] > 0 /\ r["ki"] > 0 /\ r["int_limit"] > 0
        /\ servo[i].max_torque > 0

(* The polarity bits of the two ends, kept by a sender that waits for no   *)
(* acknowledgement, agree whenever a WRITE arrives: none is ever dropped.  *)
NoWriteDropped ==
  bus # <<>> =>
    LET ord == Head(bus)
    IN  ord.order \in WriteOrders => Accepts(servo[ord.servo].polarity, ord.order)

InTransit == bus # <<>> \/ answers # <<>> \/ queue # <<>> \/ sup.frames # <<>>

(* When no order or answer is on its way, the world holds what the servos  *)
(* do, in spite of the different code that sets each of them: the polarity *)
(* always, and every register but those whose last answer was lost.        *)
WorldTruthful ==
  ~InTransit =>
    \A i \in Servos :
      /\ world[i].polarity = servo[i].polarity
      /\ \A pid \in Pids, par \in Params :
           \/ world[i].reg[pid][par] = servo[i].reg[pid][par]
           \/ <<i, pid, par>> \in missed
      /\ \/ world[i].max_torque = servo[i].max_torque
         \/ <<i, "none", "max_torque">> \in missed

Stiff(i) == servo[i].max_torque = 512

(* A stiff servo holds: no reference that was queued before the robot      *)
(* touched the ground, nor a later one, moves it.                          *)
StiffHolds ==
  [][\A i \in Servos : Stiff(i) => servo'[i].reg["pos"]["ref"] = servo[i].reg["pos"]["ref"]
                                     /\ Stiff(i)']_vars

(* If the expert ever sees a collision, both servos become stiff, with the *)
(* high integral limit, and stay so.                                       *)
CollisionStiffens ==
  <>collision => <>[](\A i \in Servos : Stiff(i) /\ servo[i].reg["pos"]["int_limit"]
                                                       = high_integral_limit)
=============================================================================
