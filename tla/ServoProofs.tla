----------------------------- MODULE ServoProofs -----------------------------
(***************************************************************************)
(* Theorems about the servo firmware, for every set of frames, sensor      *)
(* readings and angle limits, paced or not.                                *)
(***************************************************************************)
EXTENDS Servo, ServoControlProofs

(* Storing a value keeps the registers, their flags and the torque bound   *)
(* in their types.                                                         *)
LEMMA NewRegType ==
  ASSUME NEW r \in [Pids -> [Params -> Int]], NEW par, NEW pid, NEW v \in Int,
         Writable(par, pid)
  PROVE  NewReg(r, par, pid, v) \in [Pids -> [Params -> Int]]
BY DEF NewReg, Writable, Params

(* A stored reference leaves every set flag a Boolean. *)
LEMMA NewHasBeenSetType ==
  ASSUME NEW h \in [Pids -> BOOLEAN], NEW par, NEW pid
  PROVE  NewHasBeenSet(h, par, pid) \in [Pids -> BOOLEAN]
BY DEF NewHasBeenSet

(* What is read of a payload is an integer, and a byte where one is read. *)
LEMMA PayloadType ==
  ASSUME NEW par, NEW pid, NEW v \in Int
  PROVE  /\ Payload(par, pid, v) \in Int
         /\ par = "max_torque" => Payload(par, pid, v) \in Nat
BY DEF Payload, ToInt16

(* What is written back of an integer is an integer. *)
LEMMA WrittenBackType ==
  ASSUME NEW par, NEW pid, NEW v \in Int
  PROVE  WrittenBack(par, pid, v) \subseteq Int
BY DEF WrittenBack

(* A stored maximum torque stays within half of the timer's period. *)
LEMMA NewMaxTorqueType ==
  ASSUME NEW t \in 0..512, NEW par, NEW v \in Int, par = "max_torque" => v \in Nat
  PROVE  NewMaxTorque(t, par, v) \in 0..512
BY MaxTorqueRange DEF NewMaxTorque

(* What a GET order reports is a number.                                   *)
LEMMA ReadingType ==
  ASSUME NEW par, NEW pid, SensingTypeOK, SettingsTypeOK
  PROVE  Reading(par, pid) \in Int
<1>1. FlagsByte(flags) \in Int
  BY DEF FlagsByte
<1>2. par \in {"kp", "ki", "kd"} => reg["pos"][par] \in Int
  BY DEF SettingsTypeOK, Pids, Params
<1>3. meas.speed % 65536 \in Int
  BY DEF SensingTypeOK
<1>. QED  BY <1>1, <1>2, <1>3 DEF Reading, SensingTypeOK

(* The error of each controller is a number.                               *)
LEMMA ErrorType ==
  ASSUME NEW p \in Pids, SensingTypeOK, SettingsTypeOK
  PROVE  Error(p) \in Int
<1>1. /\ reg[p]["ref"] \in Int
      /\ meas.angle \in Int /\ meas.speed \in Int /\ meas.torque \in Int
  BY DEF SettingsTypeOK, SensingTypeOK, Params
<1>2. CASE p = "pos"
  BY <1>1, <1>2, PosErrorType DEF Error
<1>3. CASE p = "spe"
  BY <1>1, <1>3 DEF Error
<1>4. CASE p = "tor"
  BY <1>1, <1>4 DEF Error
<1>. QED  BY <1>2, <1>3, <1>4 DEF Pids

(* The fused output is an int16_t. *)
LEMMA FusedOutputType ==
  ASSUME ControlTypeOK
  PROVE  FusedOutput \in Int16
<1>1. \A p \in Pids : Contribution(p) \in Int
  BY DEF ControlTypeOK, Contribution, Int16
<1>2. "pos" \in Pids /\ "spe" \in Pids /\ "tor" \in Pids
  BY DEF Pids
<1>3. Contribution("pos") + Contribution("spe") + Contribution("tor") \in Int
  BY <1>1, <1>2
<1>. QED  BY <1>3, ToInt16Range DEF FusedOutput

(* A drive within the maximum torque is within half of the timer's period. *)
LEMMA DriveRange ==
  ASSUME NEW t \in Nat, t <= 512, NEW d \in -t..t
  PROVE  d \in -512..512
OBVIOUS

-----------------------------------------------------------------------------
(* The state at power-up has its types. *)
LEMMA TypeInit == Init => TypeOK
<1> SUFFICES ASSUME Init PROVE TypeOK
  OBVIOUS
<1> USE DEF Init, Pids, Params
<1>1. RxTypeOK
  BY DEF RxTypeOK, NoFrame, NoMessage, Frame, Message, Orders, Infos, Measures
<1>2. OrdersTypeOK
  BY DEF OrdersTypeOK, OrdersIdle, OrdersPcs, Orders, Infos, Measures
<1>3. MainTypeOK
  BY DEF MainTypeOK, MainIdle, MainPcs, Flags, Windups, Int16
<1>4. SettingsTypeOK
  BY DEF SettingsTypeOK, InitReg
<1>5. ControlTypeOK
  BY DEF ControlTypeOK, Int16
<1>6. SensingTypeOK
  <2>1. meas \in [angle : Int, speed : Int, torque : Int, channel : Int]
    OBVIOUS
  <2>. QED  BY <2>1 DEF SensingTypeOK
<1>7. MotorTypeOK
  BY DEF MotorTypeOK
<1>. QED  BY <1>1, <1>2, <1>3, <1>4, <1>5, <1>6, <1>7 DEF TypeOK

-----------------------------------------------------------------------------
(* Every step of the three actors keeps the type invariant.                *)
LEMMA TypeStep == TypeOK /\ [Next]_vars => TypeOK'
<1> SUFFICES ASSUME TypeOK, [Next]_vars PROVE TypeOK'
  OBVIOUS
<1> USE DEF TypeOK, settings, control, sensing, motor, RxTypeOK, OrdersTypeOK,
            MainTypeOK, SettingsTypeOK, ControlTypeOK, SensingTypeOK, MotorTypeOK
<1>1. ASSUME NEW f \in Frames, usb_lp_can1_rx0_isr(f) PROVE TypeOK'
  <2>1. rx' \in Frame
    <3>1. f \in Frame
      BY ServoAssumption
    <3>. QED  BY <1>1, <3>1 DEF usb_lp_can1_rx0_isr, Received, Frame
  <2>2. notified' \in [{"orders", "main"} -> BOOLEAN]
    BY <1>1 DEF usb_lp_can1_rx0_isr
  <2>. QED  BY <1>1, <2>1, <2>2 DEF usb_lp_can1_rx0_isr
<1>2. CASE StartScheduler
  BY <1>2 DEF StartScheduler
<1>3. CASE task_orders
  <2>1. CASE OrdersTake
    <3>1. OrdersTypeOK'
      BY <2>1 DEF OrdersTake, OrdersPcs
    <3>2. RxTypeOK'
      BY <2>1 DEF OrdersTake, NoMessage, Message, Orders, Infos
    <3>3. notified' \in [{"orders", "main"} -> BOOLEAN]
      BY <2>1 DEF OrdersTake
    <3>. QED  BY <2>1, <3>1, <3>2, <3>3 DEF OrdersTake
  <2>2. OrdersIdle \in [pc : OrdersPcs, order : Orders, par : Infos,
                        pid : Pids \union {"none"}, val : Int]
        /\ OrdersIdle.pc # "store"
    BY DEF OrdersIdle, OrdersPcs, Orders, Infos
  <2>3. CASE Dispatch
    <3>1. OrdersTypeOK'
      BY <2>2, <2>3 DEF Dispatch, OrdersPcs, Frame
    <3>. QED  BY <2>3, <3>1 DEF Dispatch
  <2>4. ASSUME NEW p \in Pids, process_pid_order(p) PROVE TypeOK'
    <3>1. OrdersTypeOK'
      BY <2>2, <2>4 DEF process_pid_order
    <3>2. SettingsTypeOK'
      BY <2>4 DEF process_pid_order
    <3>3. ControlTypeOK'
      BY <2>4 DEF process_pid_order, OutputReset, Int16
    <3>. QED  BY <2>4, <3>1, <3>2, <3>3 DEF process_pid_order
  <2>5. CASE process_sync_order
    <3> DEFINE pwm == PwmUpdate(FusedOutput, meas.angle, max_torque)
    <3>1. OrdersTypeOK'
      BY <2>2, <2>5 DEF process_sync_order
    <3>2. /\ FusedOutput \in Int /\ meas.angle \in Int
          /\ max_torque \in Nat /\ max_torque <= 512
      BY FusedOutputType DEF Int16
    <3>3. /\ pwm.drive \in -max_torque..max_torque
          /\ pwm.flags \subseteq {"MAX_TOR_REACHED", "OOR_PID"}
      BY <3>2, PwmDrive
    <3>4. drive' = pwm.drive /\ flags' = flags \union pwm.flags
      BY <2>5 DEF process_sync_order
    <3> HIDE DEF pwm
    <3>5. drive' \in -512..512
      BY ONLY <3>2, <3>3, <3>4, DriveRange
    <3>6. flags' \subseteq Flags
      BY <3>3, <3>4 DEF Flags
    <3>7. notified' \in [{"orders", "main"} -> BOOLEAN]
      BY <2>5 DEF process_sync_order
    <3>. QED  BY <2>5, <3>1, <3>5, <3>6, <3>7 DEF process_sync_order
  <2>6. CASE process_debug_order
    <3>1. rx.val * 10 \in Int
      BY DEF Frame
    <3>2. OrdersTypeOK'
      BY <2>6, <3>1 DEF process_debug_order, OrdersPcs
    <3>. QED  BY <2>6, <3>2 DEF process_debug_order
  <2>7. CASE process_get_order
    <3>1. Reading(rx.par, rx.pid) \in Int
      BY ReadingType
    <3>2. OrdersTypeOK'
      BY <2>7, <3>1 DEF process_get_order, OrdersPcs, Frame, Infos
    <3>. QED  BY <2>7, <3>2 DEF process_get_order
  <2>8. CASE ReadInfo
    <3>1. OrdersTypeOK'
      <4>1. CASE Writable(rx.par, rx.pid)
        <5>1. o' = [o EXCEPT !.pc = "store", !.par = rx.par, !.pid = rx.pid]
          BY <2>8, <4>1 DEF ReadInfo
        <5>2. rx.par \in Infos /\ rx.pid \in Pids \union {"none"}
          BY DEF Frame
        <5>. QED  BY <4>1, <5>1, <5>2 DEF OrdersPcs
      <4>2. CASE ~Writable(rx.par, rx.pid)
        BY <2>2, <2>8, <4>2 DEF ReadInfo
      <4>. QED  BY <4>1, <4>2
    <3>2. polarity' \in {0, 1}
      BY <2>8 DEF ReadInfo
    <3>. QED  BY <2>8, <3>1, <3>2 DEF ReadInfo
  <2>9. CASE StoreValue
    <3> DEFINE v == Payload(o.par, o.pid, rx.val)
    <3>1. Writable(o.par, o.pid)
      BY <2>9 DEF StoreValue, OrdersAt
    <3>2. v \in Int /\ (o.par = "max_torque" => v \in Nat)
      BY PayloadType DEF Frame
    <3> HIDE DEF v
    <3>3. reg' \in [Pids -> [Params -> Int]]
      BY <2>9, <3>1, <3>2, NewRegType DEF StoreValue, v
    <3>4. has_been_set' \in [Pids -> BOOLEAN]
      BY <2>9, NewHasBeenSetType DEF StoreValue
    <3>5. max_torque' \in 0..512
      <4>1. max_torque' = NewMaxTorque(max_torque, o.par, v)
        BY <2>9 DEF StoreValue, v
      <4>2. max_torque \in 0..512
        OBVIOUS
      <4>. QED  BY ONLY <3>2, <4>1, <4>2, NewMaxTorqueType
    <3>6. OrdersTypeOK'
      BY <2>9, <3>2 DEF StoreValue, OrdersPcs, v
    <3>. QED  BY <2>9, <3>3, <3>4, <3>5, <3>6 DEF StoreValue
  <2>10. CASE WriteBack
    <3>1. rx' \in Frame
      <4>1. o.val \in Int
        OBVIOUS
      <4>2. WrittenBack(o.par, o.pid, o.val) \subseteq Int
        BY <4>1, WrittenBackType
      <4>3. rx \in Frame /\ o.par \in Infos /\ o.pid \in Pids \union {"none"}
        OBVIOUS
      <4>4. PICK v \in Int : \/ rx' = [rx EXCEPT !.val = v]
                             \/ rx' = [rx EXCEPT !.par = o.par, !.pid = o.pid, !.val = v]
        BY <2>10, <4>1, <4>2 DEF WriteBack
      <4>5. CASE rx' = [rx EXCEPT !.val = v]
        BY ONLY <4>3, <4>4, <4>5 DEF Frame
      <4>6. CASE rx' = [rx EXCEPT !.par = o.par, !.pid = o.pid, !.val = v]
        BY ONLY <4>3, <4>4, <4>6 DEF Frame
      <4>. QED  BY ONLY <4>4, <4>5, <4>6
    <3>2. OrdersTypeOK'
      BY <2>10 DEF WriteBack, OrdersPcs
    <3>. QED  BY <2>10, <3>1, <3>2 DEF WriteBack
  <2>11. CASE SendOrder
    <3>1. reply' \in Message
      BY <2>11 DEF SendOrder, Message, Frame
    <3>2. OrdersTypeOK'
      BY <2>2, <2>11 DEF SendOrder
    <3>3. polarity' \in {0, 1}
      BY <2>11 DEF SendOrder
    <3>. QED  BY <2>11, <3>1, <3>2, <3>3 DEF SendOrder
  <2>. QED
    BY <1>3, <2>1, <2>3, <2>4, <2>5, <2>6, <2>7, <2>8, <2>9, <2>10, <2>11
       DEF task_orders, Handle
<1>4. MainIdle \in [pc : MainPcs, sample : Int, flags : SUBSET Flags, pid : Pids,
                    e : Int, wound : BOOLEAN, u : Int16, hot : BOOLEAN]
      /\ EndOfPeriod \in [pc : MainPcs, sample : Int, flags : SUBSET Flags, pid : Pids,
                    e : Int, wound : BOOLEAN, u : Int16, hot : BOOLEAN]
  <2>1. MainIdle \in [pc : MainPcs, sample : Int, flags : SUBSET Flags, pid : Pids,
                      e : Int, wound : BOOLEAN, u : Int16, hot : BOOLEAN]
    BY DEF MainIdle, MainPcs, Pids, Int16
  <2>2. m.hot \in BOOLEAN
    OBVIOUS
  <2>. QED  BY ONLY <2>1, <2>2 DEF EndOfPeriod
<1>5. CASE MainTake
  <2>1. notified' \in [{"orders", "main"} -> BOOLEAN]
    BY <1>5 DEF MainTake
  <2>. QED  BY <1>5, <2>1 DEF MainTake, MainPcs
<1>6. CASE clear_all_flags
  BY <1>6 DEF clear_all_flags, MainPcs
<1>7. CASE Measure
  <2>1. ASSUME NEW a \in Angles, NEW bad \in MagErrors, ReadMagSensor(a, bad)
        PROVE  TypeOK'
    <3>1. a \in Int
      BY ServoAssumption
    <3>2. MainTypeOK'
      BY <2>1, <3>1 DEF ReadMagSensor, MainPcs
    <3>. QED  BY <2>1, <3>2 DEF ReadMagSensor
  <2>2. CASE FlagMagSensor
    BY <2>2 DEF FlagMagSensor, StoreFlags, MainPcs, Flags
  <2>3. CASE MeasureAngle
    <3>1. \A x, y \in Int : cycles * compute_angle_diff(x, y).small \in Int
      <4>1. \A x, y \in Int : compute_angle_diff(x, y).small \in Int
        BY AngleDiff
      <4>. QED  BY ONLY <4>1 DEF cycles
    <3>2. SensingTypeOK'
      BY <2>3, <3>1 DEF MeasureAngle
    <3>3. m' = [m EXCEPT !.pc = "sensors", !.sample = 0]
      BY <2>3 DEF MeasureAngle
    <3>4. MainTypeOK'
      <4>1. m \in [pc : MainPcs, sample : Int, flags : SUBSET Flags, pid : Pids,
                   e : Int, wound : BOOLEAN, u : Int16, hot : BOOLEAN]
        OBVIOUS
      <4>2. "sensors" \in MainPcs /\ 0 \in Int
        BY DEF MainPcs
      <4>. QED  BY ONLY <3>3, <4>1, <4>2
    <3>. QED  BY <2>3, <3>2, <3>4 DEF MeasureAngle
  <2>4. ASSUME NEW t \in Torques, NEW c \in Channels, NEW hot \in Overheats,
               MeasureOthers(t, c, hot)
        PROVE  TypeOK'
    <3>1. t \in Int /\ c \in Int
      BY ServoAssumption
    <3>2. SensingTypeOK'
      BY <2>4, <3>1 DEF MeasureOthers
    <3>3. MainTypeOK'
      BY <2>4 DEF MeasureOthers, MainPcs
    <3>. QED  BY <2>4, <3>2, <3>3 DEF MeasureOthers
  <2>5. CASE FlagMaxTemp
    BY <2>5 DEF FlagMaxTemp, StoreFlags, MainPcs, Flags
  <2>6. CASE disable_motor
    BY <2>6 DEF disable_motor, MainPcs
  <2>. QED  BY <1>7, <2>1, <2>2, <2>3, <2>4, <2>5, <2>6 DEF Measure
<1>8. CASE RunController
  <2>1. CASE SelectController
    <3>1. MainTypeOK'
      BY <1>4, <2>1 DEF SelectController, MainPcs, Pids
    <3>. QED  BY <2>1, <3>1 DEF SelectController
  <2>2. CASE ComputeError
    <3>1. Error(m.pid) \in Int
      BY ErrorType
    <3>. QED  BY <2>2, <3>1 DEF ComputeError, MainPcs
  <2>3. CASE Integrate
    <3> DEFINE i == NextIntegral(integral_term[m.pid], m.e, reg[m.pid]["int_limit"])
    <3>1. i.term \in Int /\ i.wound \in BOOLEAN
      <4>1. /\ integral_term[m.pid] \in Int /\ m.e \in Int
            /\ reg[m.pid]["int_limit"] \in Int
        BY DEF Params
      <4>. QED  BY ONLY <4>1, IntegralBound
    <3> HIDE DEF i
    <3>2. ControlTypeOK'
      BY <2>3, <3>1 DEF Integrate, i
    <3>3. MainTypeOK'
      BY <2>3, <3>1 DEF Integrate, MainPcs, i
    <3>. QED  BY <2>3, <3>2, <3>3 DEF Integrate
  <2>4. CASE FlagWindup
    <3>1. /\ flags' = IF m.wound THEN m.flags \union {WindupFlag[m.pid]}
                      ELSE m.flags \ Windups
          /\ m' = [m EXCEPT !.pc = "law", !.flags = {}, !.wound = FALSE]
      BY <2>4 DEF FlagWindup, StoreFlags
    <3>2. WindupFlag[m.pid] \in Flags
      BY DEF WindupFlag, Flags, Windups, Pids
    <3>3. flags' \subseteq Flags
      BY <3>1, <3>2
    <3>4. MainTypeOK'
      BY <3>1 DEF MainPcs
    <3>. QED  BY <2>4, <3>3, <3>4 DEF FlagWindup, StoreFlags
  <2>5. CASE ControlLaw
    <3>1. Command(reg[m.pid], m.e, integral_term[m.pid], m.e - prev_e[m.pid]) \in Int16
      BY CommandType DEF Params
    <3>2. MainTypeOK'
      BY <2>5, <3>1 DEF ControlLaw, MainPcs
    <3>3. ControlTypeOK'
      BY <2>5 DEF ControlLaw
    <3>. QED  BY <2>5, <3>2, <3>3 DEF ControlLaw
  <2>6. CASE StoreOutput
    BY <1>4, <2>6 DEF StoreOutput
  <2>. QED  BY <1>8, <2>1, <2>2, <2>3, <2>4, <2>5, <2>6 DEF RunController
<1>9. CASE UNCHANGED vars
  BY <1>9 DEF vars
<1>. QED  BY <1>1, <1>2, <1>3, <1>5, <1>6, <1>7, <1>8, <1>9 DEF Next, task_main_loop

(* In every state the firmware can reach, outputs fit an int16_t, the      *)
(* maximum torque and both compare values fit the timer's period, and the  *)
(* handler stores a value only under a register it knows.                  *)
THEOREM TypeCorrect == Spec => []TypeOK
<1>. QED  BY TypeInit, TypeStep, PTL DEF Spec

-----------------------------------------------------------------------------
(* HotMotorCut alone is not inductive: between the load and the store of   *)
(* the anti-windup's flags, the flag must also be in the loaded copy, and  *)
(* the local that remembers the check must be false until the check.       *)
HotInv ==
  /\ (m.hot /\ m.pc \notin {"hotflag", "disable", "clear"}) =>
       ~driver_on /\ "MAX_TEMP" \in flags
  /\ (m.hot /\ m.pc = "disable") => "MAX_TEMP" \in flags
  /\ (m.hot /\ m.pc = "windflag") => "MAX_TEMP" \in m.flags
  /\ m.pc \in {"mag", "magflag", "angle", "sensors"} => ~m.hot

(* At power-up no motor has been found hot. *)
LEMMA HotInit == Init => HotInv
BY DEF Init, HotInv, MainIdle

(* Every step keeps the motor cut and its flag standing; the control
   task's own steps are the ones that could lower it.                  *)
LEMMA HotStep == TypeOK /\ HotInv /\ [Next]_vars => HotInv'
<1> SUFFICES ASSUME TypeOK, HotInv, [Next]_vars PROVE HotInv'
  OBVIOUS
<1> USE DEF HotInv, settings, control, sensing, motor
<1>1. m \in [pc : MainPcs, sample : Int, flags : SUBSET Flags, pid : Pids, e : Int,
             wound : BOOLEAN, u : Int16, hot : BOOLEAN]
  BY DEF TypeOK, MainTypeOK
<1>2. CASE StartScheduler \/ \E f \in Frames : usb_lp_can1_rx0_isr(f)
  BY <1>2 DEF StartScheduler, usb_lp_can1_rx0_isr
<1>3. CASE task_orders
  <2>1. UNCHANGED <<m, driver_on>> /\ flags \subseteq flags'
    BY <1>3 DEF task_orders, OrdersTake, Dispatch, Handle, process_pid_order,
       process_sync_order, process_debug_order, process_get_order, ReadInfo,
       StoreValue, WriteBack, SendOrder
  <2>. QED  BY <2>1
<1>4. CASE MainTake
  BY <1>1, <1>4 DEF MainTake
<1>5. CASE clear_all_flags
  BY <1>1, <1>5 DEF clear_all_flags
<1>6. CASE Measure
  <2>1. ASSUME NEW a \in Angles, NEW bad \in MagErrors, ReadMagSensor(a, bad)
        PROVE  HotInv'
    BY <1>1, <2>1 DEF ReadMagSensor, MainAt
  <2>2. CASE FlagMagSensor
    BY <1>1, <2>2 DEF FlagMagSensor, StoreFlags, MainAt
  <2>3. CASE MeasureAngle
    BY <1>1, <2>3 DEF MeasureAngle, MainAt
  <2>4. ASSUME NEW t \in Torques, NEW c \in Channels, NEW hot \in Overheats,
               MeasureOthers(t, c, hot)
        PROVE  HotInv'
    BY <1>1, <2>4 DEF MeasureOthers, MainAt
  <2>5. CASE FlagMaxTemp
    BY <1>1, <2>5 DEF FlagMaxTemp, StoreFlags, MainAt
  <2>6. CASE disable_motor
    BY <1>1, <2>6 DEF disable_motor, MainAt
  <2>. QED  BY <1>6, <2>1, <2>2, <2>3, <2>4, <2>5, <2>6 DEF Measure
<1>7. CASE RunController
  <2>1. CASE SelectController
    BY <1>1, <2>1 DEF SelectController, MainAt, EndOfPeriod, MainIdle, Pids
  <2>2. CASE ComputeError
    BY <1>1, <2>2 DEF ComputeError, MainAt
  <2>3. CASE Integrate
    BY <1>1, <2>3 DEF Integrate, MainAt
  <2>4. CASE FlagWindup
    BY <1>1, <2>4 DEF FlagWindup, StoreFlags, MainAt, Windups
  <2>5. CASE ControlLaw
    BY <1>1, <2>5 DEF ControlLaw, MainAt
  <2>6. CASE StoreOutput
    BY <1>1, <2>6 DEF StoreOutput, MainAt, EndOfPeriod, MainIdle
  <2>. QED  BY <1>7, <2>1, <2>2, <2>3, <2>4, <2>5, <2>6 DEF RunController
<1>8. CASE UNCHANGED vars
  BY <1>8 DEF vars
<1>. QED  BY <1>2, <1>3, <1>4, <1>5, <1>6, <1>7, <1>8 DEF Next, task_main_loop

(* From the temperature check of a period to the next clear_all_flags, an  *)
(* overheated motor is off and its flag stands, whatever orders interrupt  *)
(* the control task between the load and the store of the flags.           *)
THEOREM HotMotorStaysCut == Spec => []HotMotorCut
<1>1. HotInv => HotMotorCut
  BY DEF HotInv, HotMotorCut
<1>. QED  BY <1>1, HotInit, HotStep, TypeCorrect, PTL DEF Spec
=============================================================================
