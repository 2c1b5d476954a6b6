------------------------------- MODULE Servo -------------------------------
(***************************************************************************)
(* The firmware of one servo board: the CAN interrupt, the order task and  *)
(* the control task, which share the receive buffer, the controllers'      *)
(* registers and outputs, the indication flags and the motor driver.       *)
(*                                                                         *)
(* Scheduling is FreeRTOS's: the interrupt may run between any two steps;  *)
(* the order task (priority 4) runs whenever it is not blocked; the        *)
(* control task (priority 3) runs only while the order task is blocked,    *)
(* and is preempted between any two of its steps.  A step is the code      *)
(* between two accesses to state that another of the three can change.     *)
(***************************************************************************)
EXTENDS ServoOrders

CONSTANTS
  Frames,     (* frames the bus may deliver                                *)
  Angles,     (* magnetic sensor readings, in degrees                      *)
  Torques,    (* torques derived from the current sensor                   *)
  Channels,   (* readings of the sensors that only GET orders report       *)
  MagErrors,  (* may the magnetic sensor report an error: subset of BOOLEAN *)
  Overheats,  (* may the motor be too hot: subset of BOOLEAN               *)
  Paced       (* the bus leaves an order time to be handled before the next *)

ASSUME ServoAssumption ==
  /\ Frames \subseteq Frame
  /\ Angles \subseteq 0..359
  /\ Torques \subseteq Int
  /\ Channels \subseteq Int
  /\ MagErrors \subseteq BOOLEAN
  /\ Overheats \subseteq BOOLEAN
  /\ Paced \in BOOLEAN

VARIABLES
  started,         (* the tasks exist and the scheduler runs                  *)
  rx,              (* rx_buffer and rx_buffer_nb_bytes                        *)
  notified,        (* pending task notifications (ulTaskNotifyTake clears)    *)
  o,               (* the order task: program counter and locals              *)
  m,               (* the control task: program counter and locals            *)
  polarity,        (* of the next WRITE order to accept                       *)
  reg,             (* references, gains, integral limits, modulation factors  *)
  enabled,         (* pos_pid_enabled, ...                                    *)
  has_been_set,    (* pos_has_been_set, ...                                   *)
  output,          (* pos_pid_output, ...                                     *)
  integral_term,   (* of each struct pid                                      *)
  prev_e,          (* of each struct pid                                      *)
  max_torque,      (* bound on the drive                                      *)
  meas,            (* servo_angle, servo_motor_speed, torque, other sensors   *)
  prev_angle_set,  (* the first angle has been measured                       *)
  flags,           (* indication_flags                                        *)
  drive,           (* the programmed duty less 512: OC4 - 512 = 512 - OC1     *)
  driver_on,       (* the timer and its outputs are enabled                   *)
  reply            (* the order sent in answer to the last one handled        *)

settings == <<reg, enabled, has_been_set, polarity, max_torque>>
control  == <<output, integral_term, prev_e>>
sensing  == <<meas, prev_angle_set>>
motor    == <<flags, drive, driver_on>>
vars     == <<started, rx, notified, o, m, settings, control, sensing, motor,
              reply>>

-----------------------------------------------------------------------------
Windups == {"POS_WINDUP", "SPE_WINDUP", "TOR_WINDUP"}

WindupFlag == [pos |-> "POS_WINDUP", spe |-> "SPE_WINDUP", tor |-> "TOR_WINDUP"]

Flags == {"MAGN_SENSOR", "MAX_TOR_REACHED", "OOR_PID", "MAX_TEMP"} \union Windups

(* The flags byte: 0x01, 0x02, ... 0x40. *)
FlagsByte(f) ==
  LET bit(name, weight) == IF name \in f THEN weight ELSE 0
  IN  bit("MAGN_SENSOR", 1) + bit("POS_WINDUP", 2) + bit("SPE_WINDUP", 4)
        + bit("TOR_WINDUP", 8) + bit("MAX_TOR_REACHED", 16)
        + bit("OOR_PID", 32) + bit("MAX_TEMP", 64)

NoFrame == [order |-> "unknown", par |-> "unknown", pid |-> "none", val |-> 0, len |-> 0]

(* An order on its way to the motherboard; NoMessage when nothing was sent. *)
Message == [order : Orders, par : Infos, pid : Pids \union {"none"}, val : Int]

NoMessage == [order |-> "unknown", par |-> "unknown", pid |-> "none", val |-> 0]

OrdersIdle == [pc |-> "wait", order |-> "unknown", par |-> "unknown", pid |-> "none",
               val |-> 0]

MainIdle == [pc |-> "wait", sample |-> 0, flags |-> {}, pid |-> "pos", e |-> 0,
             wound |-> FALSE, u |-> 0, hot |-> FALSE]

Init ==
  /\ started = FALSE
  /\ rx = NoFrame
  /\ notified = [t \in {"orders", "main"} |-> FALSE]
  /\ o = OrdersIdle
  /\ m = MainIdle
  /\ polarity = 0
  /\ reg = InitReg
  /\ enabled = [p \in Pids |-> FALSE]
  /\ has_been_set = [p \in Pids |-> FALSE]
  /\ output = [p \in Pids |-> 0]
  /\ integral_term = [p \in Pids |-> 0]
  /\ prev_e = [p \in Pids |-> 0]
  /\ max_torque = 0
  /\ meas = [angle |-> 0, speed |-> 0, torque |-> 0, channel |-> 0]
  /\ prev_angle_set = FALSE
  /\ flags = {}
  /\ drive = 0
  /\ driver_on = TRUE
  /\ reply = NoMessage

-----------------------------------------------------------------------------
(* The CAN interrupt and the start of the scheduler. *)

OrdersBlocked == o.pc = "wait" /\ ~notified["orders"]

(* A frame overwrites as much of the buffer as it is long. *)
Received(f) ==
  [order |-> IF f.len >= 1 THEN f.order ELSE rx.order,
   par   |-> IF f.len >= 2 THEN f.par ELSE rx.par,
   pid   |-> IF f.len >= 2 THEN f.pid ELSE rx.pid,
   val   |-> IF f.len >= 3 THEN f.val ELSE rx.val,
   len   |-> f.len]

(* An empty frame, or one before the task exists, notifies nobody. *)
usb_lp_can1_rx0_isr(f) ==
  /\ Paced => OrdersBlocked
  /\ rx' = Received(f)
  /\ notified' = [notified EXCEPT !["orders"] = @ \/ (started /\ f.len >= 1)]
  /\ UNCHANGED <<started, o, m, settings, control, sensing, motor, reply>>

StartScheduler ==
  /\ ~started
  /\ started' = TRUE
  /\ UNCHANGED <<rx, notified, o, m, settings, control, sensing, motor, reply>>

-----------------------------------------------------------------------------
(* The order task. *)

OrdersAt(pc) == started /\ o.pc = pc

OrdersTake ==
  /\ OrdersAt("wait")
  /\ notified["orders"]
  /\ notified' = [notified EXCEPT !["orders"] = FALSE]
  /\ o' = [o EXCEPT !.pc = "dispatch"]
  /\ reply' = NoMessage
  /\ UNCHANGED <<started, rx, m, settings, control, sensing, motor>>

DroppedWhateverPolarity(f) ==
  \/ f.order = "unknown"
  \/ f.order = "DEBUG" /\ f.len # 5
  \/ f.order = "GET" /\ f.len # 2

(* Orders dropped on their first byte and length. *)
Dropped(f) ==
  \/ f.order = "unknown"
  \/ f.order = "DEBUG" /\ f.len # 5
  \/ f.order = "GET" /\ f.len # 2
  \/ f.order \in WriteOrders /\ ~Accepts(polarity, f.order)

Dispatch ==
  /\ OrdersAt("dispatch")
  /\ o' = IF Dropped(rx) THEN OrdersIdle
          ELSE [o EXCEPT !.pc = "handle", !.order = rx.order]
  /\ UNCHANGED <<started, rx, notified, m, settings, control, sensing, motor, reply>>

OutputReset(p, on) == IF on THEN output ELSE [output EXCEPT ![p] = 0]

(* process_pid_pos_order and its two copies; nothing is sent back. *)
process_pid_order(p) ==
  /\ OrdersAt("handle")
  /\ o.order = PidOrder[p]
  /\ LET on == rx.par # "off"
     IN  /\ enabled' = [enabled EXCEPT ![p] = on]
         /\ output' = OutputReset(p, on)
         /\ has_been_set' = [has_been_set EXCEPT ![p] = @ /\ on]
  /\ o' = OrdersIdle
  /\ UNCHANGED <<started, rx, notified, m, polarity, reg, max_torque, integral_term,
                 prev_e, sensing, motor, reply>>

Contribution(p) == IF enabled[p] /\ has_been_set[p] THEN output[p] ELSE 0

FusedOutputUnchecked == ToInt16(output["pos"] + output["spe"] + output["tor"])

FusedOutput ==
  ToInt16(Contribution("pos") + Contribution("spe") + Contribution("tor"))

process_sync_order ==
  /\ OrdersAt("handle")
  /\ o.order = "SYNC"
  /\ notified' = [notified EXCEPT !["main"] = TRUE]
  /\ LET pwm == PwmUpdate(FusedOutput, meas.angle, max_torque)
     IN  /\ drive' = pwm.drive
         /\ flags' = flags \union pwm.flags
  /\ o' = OrdersIdle
  /\ UNCHANGED <<started, rx, m, settings, control, sensing, driver_on, reply>>

process_debug_order ==
  /\ OrdersAt("handle")
  /\ o.order = "DEBUG"
  /\ o' = [o EXCEPT !.pc = "echo", !.val = rx.val * 10]
  /\ UNCHANGED <<started, rx, notified, m, settings, control, sensing, motor, reply>>

(* What a GET order reports; only the position gains can be read back. *)
Reading(par, pid) ==
  CASE par = "position" -> meas.angle
    [] par = "speed"    -> meas.speed % 65536
    [] par = "torque"   -> meas.torque
    [] par = "channel"  -> meas.channel
    [] par = "flags"    -> FlagsByte(flags)
    [] par \in {"kp", "ki", "kd"} /\ pid = "pos" -> reg["pos"][par]
    [] OTHER -> 0

Readable(par, pid) == par \in Measures \/ (par \in {"kp", "ki", "kd"} /\ pid = "pos")

process_get_order ==
  /\ OrdersAt("handle")
  /\ o.order = "GET"
  /\ o' = [o EXCEPT !.pc = "echo",
                    !.par = IF Readable(rx.par, rx.pid) THEN rx.par ELSE "unknown",
                    !.pid = rx.pid,
                    !.val = Reading(rx.par, rx.pid)]
  /\ UNCHANGED <<started, rx, notified, m, settings, control, sensing, motor, reply>>

(* process_write_order reads the information ID, and then the payload. *)
ReadInfo ==
  /\ OrdersAt("handle")
  /\ o.order \in WriteOrders
  /\ IF Writable(rx.par, rx.pid)
     THEN /\ o' = [o EXCEPT !.pc = "store", !.par = rx.par, !.pid = rx.pid]
          /\ UNCHANGED polarity
     ELSE /\ o' = OrdersIdle
          /\ polarity' = 1 - polarity
  /\ UNCHANGED <<started, rx, notified, m, reg, enabled, has_been_set, max_torque,
                 control, sensing, motor, reply>>

StoreValue ==
  /\ OrdersAt("store")
  /\ LET v == Payload(o.par, o.pid, rx.val)
     IN  /\ reg' = NewReg(reg, o.par, o.pid, v)
         /\ has_been_set' = NewHasBeenSet(has_been_set, o.par, o.pid)
         /\ max_torque' = NewMaxTorque(max_torque, o.par, v)
         /\ o' = [o EXCEPT !.pc = "echo", !.val = v]
  /\ UNCHANGED <<started, rx, notified, m, polarity, enabled, control, sensing, motor,
                 reply>>

(* The answer is written over the order in the receive buffer ... *)
WriteBack ==
  /\ OrdersAt("echo")
  /\ \/ /\ o.order = "GET"
        /\ rx' = [rx EXCEPT !.par = o.par, !.pid = o.pid, !.val = o.val]
     \/ /\ o.order = "DEBUG"
        /\ rx' = [rx EXCEPT !.val = o.val]
     \/ /\ o.order \in WriteOrders
        /\ \E v \in WrittenBack(o.par, o.pid, o.val) : rx' = [rx EXCEPT !.val = v]
  /\ o' = [o EXCEPT !.pc = "send"]
  /\ UNCHANGED <<started, notified, m, settings, control, sensing, motor, reply>>

(* ... and sent from there; an accepted WRITE then flips the polarity. *)
SendOrder ==
  /\ OrdersAt("send")
  /\ reply' = [order |-> rx.order, par |-> rx.par, pid |-> rx.pid, val |-> rx.val]
  /\ polarity' = IF o.order \in WriteOrders THEN 1 - polarity ELSE polarity
  /\ o' = OrdersIdle
  /\ UNCHANGED <<started, rx, notified, m, reg, enabled, has_been_set, max_torque,
                 control, sensing, motor>>

Handle ==
  \/ \E p \in Pids : process_pid_order(p)
  \/ process_sync_order
  \/ process_debug_order
  \/ process_get_order
  \/ ReadInfo

task_orders ==
  OrdersTake \/ Dispatch \/ Handle \/ StoreValue \/ WriteBack \/ SendOrder

-----------------------------------------------------------------------------
(* The control task. *)

MainAt(pc) == started /\ OrdersBlocked /\ m.pc = pc

MainTake ==
  /\ MainAt("wait")
  /\ notified["main"]
  /\ notified' = [notified EXCEPT !["main"] = FALSE]
  /\ m' = [m EXCEPT !.pc = "clear"]
  /\ UNCHANGED <<started, rx, o, settings, control, sensing, motor, reply>>

clear_all_flags ==
  /\ MainAt("clear")
  /\ flags' = {}
  /\ m' = [m EXCEPT !.pc = "mag", !.hot = FALSE]
  /\ UNCHANGED <<started, rx, notified, o, settings, control, sensing, drive, driver_on,
                 reply>>

(* A bad status loads the flags byte; set_flag stores it a step later.     *)
(* (A local that is no longer used goes back to its initial value.)        *)
ReadMagSensor(a, bad) ==
  /\ MainAt("mag")
  /\ m' = IF bad THEN [m EXCEPT !.sample = a, !.pc = "magflag", !.flags = flags]
           ELSE [m EXCEPT !.sample = a, !.pc = "angle"]
  /\ UNCHANGED <<started, rx, notified, o, settings, control, sensing, motor, reply>>

(* The second half of "indication_flags |= flag". *)
StoreFlags(pc, next, new) ==
  /\ MainAt(pc)
  /\ flags' = new
  /\ m' = [m EXCEPT !.pc = next, !.flags = {}, !.wound = FALSE]
  /\ UNCHANGED <<started, rx, notified, o, settings, control, sensing, drive, driver_on,
                 reply>>

FlagMagSensor == StoreFlags("magflag", "angle", m.flags \union {"MAGN_SENSOR"})

(* The data is used whatever the status said. *)
MeasureAngle ==
  /\ MainAt("angle")
  /\ LET prev == IF prev_angle_set THEN meas.angle ELSE m.sample
     IN  meas' = [meas EXCEPT !.angle = m.sample,
                              !.speed = cycles * compute_angle_diff(m.sample, prev).small]
  /\ prev_angle_set' = TRUE
  /\ m' = [m EXCEPT !.pc = "sensors", !.sample = 0]
  /\ UNCHANGED <<started, rx, notified, o, settings, control, motor, reply>>

(* The other sensors, and the load of the flags when the motor is too hot. *)
MeasureOthers(t, c, hot) ==
  /\ MainAt("sensors")
  /\ meas' = [meas EXCEPT !.torque = t, !.channel = c]
  /\ m' = IF hot THEN [m EXCEPT !.hot = TRUE, !.pc = "hotflag", !.flags = flags]
           ELSE [m EXCEPT !.pc = "select"]
  /\ UNCHANGED <<started, rx, notified, o, settings, control, prev_angle_set, motor,
                 reply>>

FlagMaxTemp == StoreFlags("hotflag", "disable", m.flags \union {"MAX_TEMP"})

disable_motor ==
  /\ MainAt("disable")
  /\ driver_on' = FALSE
  /\ m' = [m EXCEPT !.pc = "select"]
  /\ UNCHANGED <<started, rx, notified, o, settings, control, sensing, flags, drive,
                 reply>>

EndOfPeriod == [MainIdle EXCEPT !.hot = m.hot]

SelectControllerAgain ==
  /\ MainAt("select")
  /\ m' = CASE enabled[m.pid]  -> [m EXCEPT !.pc = "error"]
            [] ~enabled[m.pid] /\ m.pid = "pos" -> [m EXCEPT !.pid = "spe"]
            [] ~enabled[m.pid] /\ m.pid = "spe" -> [m EXCEPT !.pid = "tor"]
            [] ~enabled[m.pid] /\ m.pid = "tor" -> [m EXCEPT !.pid = "pos"]
  /\ UNCHANGED <<started, rx, notified, o, settings, control, sensing, motor, reply>>

(* if (pos enabled) ... else if (spe enabled) ... else if (tor enabled) *)
SelectController ==
  /\ MainAt("select")
  /\ m' = CASE enabled[m.pid]  -> [m EXCEPT !.pc = "error"]
            [] ~enabled[m.pid] /\ m.pid = "pos" -> [m EXCEPT !.pid = "spe"]
            [] ~enabled[m.pid] /\ m.pid = "spe" -> [m EXCEPT !.pid = "tor"]
            [] ~enabled[m.pid] /\ m.pid = "tor" -> EndOfPeriod
  /\ UNCHANGED <<started, rx, notified, o, settings, control, sensing, motor, reply>>

Error(p) ==
  CASE p = "pos" -> PosError(reg["pos"]["ref"], meas.angle)
    [] p = "spe" -> reg["spe"]["ref"] - meas.speed
    [] p = "tor" -> reg["tor"]["ref"] - meas.torque

ComputeError ==
  /\ MainAt("error")
  /\ m' = [m EXCEPT !.e = Error(m.pid), !.pc = "integrate"]
  /\ UNCHANGED <<started, rx, notified, o, settings, control, sensing, motor, reply>>

Integrate ==
  /\ MainAt("integrate")
  /\ LET i == NextIntegral(integral_term[m.pid], m.e, reg[m.pid]["int_limit"])
     IN  /\ integral_term' = [integral_term EXCEPT ![m.pid] = i.term]
         /\ m' = [m EXCEPT !.wound = i.wound, !.flags = flags, !.pc = "windflag"]
  /\ UNCHANGED <<started, rx, notified, o, settings, output, prev_e, sensing, motor,
                 reply>>

FlagWindupOrClearAll ==
  StoreFlags("windflag", "law",
             IF m.wound THEN m.flags \union {WindupFlag[m.pid]} ELSE {})

(* One flag raised, or the three lowered: each is a load and a store. *)
FlagWindup ==
  StoreFlags("windflag", "law",
             IF m.wound THEN m.flags \union {WindupFlag[m.pid]}
             ELSE m.flags \ Windups)

ControlLaw ==
  /\ MainAt("law")
  /\ m' = [m EXCEPT !.u = Command(reg[m.pid], m.e, integral_term[m.pid],
                                  m.e - prev_e[m.pid]),
                    !.pc = "output"]
  /\ prev_e' = [prev_e EXCEPT ![m.pid] = m.e]
  /\ UNCHANGED <<started, rx, notified, o, settings, output, integral_term, sensing,
                 motor, reply>>

StoreOutput ==
  /\ MainAt("output")
  /\ output' = [output EXCEPT ![m.pid] = m.u]
  /\ m' = EndOfPeriod
  /\ UNCHANGED <<started, rx, notified, o, settings, integral_term, prev_e, sensing,
                 motor, reply>>

Measure ==
  \/ \E a \in Angles, bad \in MagErrors : ReadMagSensor(a, bad)
  \/ FlagMagSensor
  \/ MeasureAngle
  \/ \E t \in Torques, c \in Channels, hot \in Overheats : MeasureOthers(t, c, hot)
  \/ FlagMaxTemp
  \/ disable_motor

RunController ==
  \/ SelectController
  \/ ComputeError
  \/ Integrate
  \/ FlagWindup
  \/ ControlLaw
  \/ StoreOutput

task_main_loop == MainTake \/ clear_all_flags \/ Measure \/ RunController

-----------------------------------------------------------------------------
Next ==
  \/ StartScheduler
  \/ \E f \in Frames : usb_lp_can1_rx0_isr(f)
  \/ task_orders
  \/ task_main_loop

Spec == Init /\ [][Next]_vars

(* The order task has the highest priority, and the bus leaves the control *)
(* task time between two orders: it is preempted again and again, but not  *)
(* for ever.                                                               *)
Fairness ==
  /\ WF_vars(StartScheduler)
  /\ WF_vars(task_orders)
  /\ SF_vars(task_main_loop)

FairSpec == Spec /\ Fairness

(* The MF board's cycle brings a SYNC again and again. *)
SyncSpec ==
  /\ FairSpec
  /\ \A f \in Frames : f.order = "SYNC" => SF_vars(usb_lp_can1_rx0_isr(f))

-----------------------------------------------------------------------------
OrdersPcs == {"wait", "dispatch", "handle", "store", "echo", "send"}

MainPcs == {"wait", "clear", "mag", "magflag", "angle", "sensors", "hotflag", "disable",
            "select", "error", "integrate", "windflag", "law", "output"}

RxTypeOK == rx \in Frame /\ reply \in Message

OrdersTypeOK ==
  /\ o \in [pc : OrdersPcs, order : Orders, par : Infos, pid : Pids \union {"none"},
            val : Int]
  /\ o.pc = "store" => Writable(o.par, o.pid)

MainTypeOK ==
  m \in [pc : MainPcs, sample : Int, flags : SUBSET Flags, pid : Pids, e : Int,
         wound : BOOLEAN, u : Int16, hot : BOOLEAN]

SettingsTypeOK ==
  /\ polarity \in {0, 1}
  /\ reg \in [Pids -> [Params -> Int]]
  /\ enabled \in [Pids -> BOOLEAN]
  /\ has_been_set \in [Pids -> BOOLEAN]
  /\ max_torque \in 0..512

ControlTypeOK ==
  /\ output \in [Pids -> Int16]
  /\ integral_term \in [Pids -> Int]
  /\ prev_e \in [Pids -> Int]

SensingTypeOK ==
  /\ meas \in [angle : Int, speed : Int, torque : Int, channel : Int]
  /\ prev_angle_set \in BOOLEAN

MotorTypeOK ==
  /\ flags \subseteq Flags
  /\ drive \in -512..512
  /\ driver_on \in BOOLEAN

(* The shared state has the width the C types give it; in particular every *)
(* output fits an int16_t and both compare values, 512 - drive and         *)
(* 512 + drive, lie in the timer's 0..1024, whatever the registers hold.   *)
TypeOK ==
  /\ started \in BOOLEAN
  /\ notified \in [{"orders", "main"} -> BOOLEAN]
  /\ RxTypeOK
  /\ OrdersTypeOK
  /\ MainTypeOK
  /\ SettingsTypeOK
  /\ ControlTypeOK
  /\ SensingTypeOK
  /\ MotorTypeOK

-----------------------------------------------------------------------------
(* Safety. *)

(* The register that an echo names holds what the motherboard, which reads *)
(* the echo the way the board reads an order, takes from it.               *)
InForce(echo, regs, maximum) ==
  LET v == Payload(echo.par, echo.pid, echo.val)
  IN  \/ echo.par = "max_torque" /\ maximum = MaxTorque(v)
      \/ echo.par \in Params /\ regs[echo.pid][echo.par] = v

NegativeTorque(echo, regs) ==
  echo.par = "ref" /\ echo.pid = "tor" /\ regs["tor"]["ref"] < 0

(* What process_write_order sends back is what is now in force, whichever  *)
(* of the registers was named, whatever the payload was cut to and however *)
(* it was signed, so that the motherboard may copy an echo into its world: *)
(* for everything but a negative torque reference, which main.c:352        *)
(* converts to an unsigned number.                                         *)
EchoTruthful ==
  [][(reply' # reply /\ reply'.order \in WriteOrders) =>
       InForce(reply', reg', max_torque') \/ NegativeTorque(reply', reg')]_vars

(* An order takes effect in one piece although the handler stores the      *)
(* value, writes the echo, sends it and flips the polarity in that order:  *)
(* with the polarity of an order counted from the store, the firmware is   *)
(* an implementation of the abstract registers.                            *)
Registers ==
  INSTANCE ServoRegisters WITH
    polarity <- IF o.pc \in {"echo", "send"} /\ o.order \in WriteOrders
                THEN 1 - polarity ELSE polarity

RegistersSpec == Registers!Spec

(* From the temperature check of a period to the next clear_all_flags, an  *)
(* overheated motor is off and its flag stands: neither the flags a SYNC   *)
(* raises meanwhile nor the anti-windup's clear_flag calls drop it.        *)
HotMotorCut ==
  (m.hot /\ m.pc \notin {"hotflag", "disable", "clear"}) =>
    /\ ~driver_on
    /\ "MAX_TEMP" \in flags

(* The narrowing conversions of the control law, of its modulation and of  *)
(* the fusion of the three outputs never wrap, which would reverse the     *)
(* motor.                                                                  *)
NoOverflow ==
  /\ m.pc = "law" =>
       LET u == Law(reg[m.pid], m.e, integral_term[m.pid], m.e - prev_e[m.pid])
       IN  u \in Int16 /\ TruncDiv(u * reg[m.pid]["mod_fact"], 100) \in Int16
  /\ Contribution("pos") + Contribution("spe") + Contribution("tor") \in Int16

(* main.c, "Reset the output and set flag if PID disabled" (the violation  *)
(* run): a controller that is off has no output, whatever the control task *)
(* was in the middle of when the PID order came.                           *)
DisabledOutputReset == \A p \in Pids : ~enabled[p] => output[p] = 0

-----------------------------------------------------------------------------
(* Liveness. *)

(* A SYNC that finds the control task busy is not lost: a new period       *)
(* starts, so the task never stays in the one before.                      *)
SyncStartsPeriod == notified["main"] ~> (m.pc = "clear")

Released == \A p \in Pids : ~(enabled[p] /\ has_been_set[p])

(* Switching every controller off stops the motor although the PID orders  *)
(* never touch the driver: the next SYNC does.                             *)
ReleasedMotorRests == Released ~> (drive = 0 \/ ~Released)
=============================================================================
