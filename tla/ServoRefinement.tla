--------------------------- MODULE ServoRefinement ---------------------------
(***************************************************************************)
(* The servo firmware on a paced bus.  With no frame shorter than the      *)
(* bytes its handler reads, the firmware implements the abstract           *)
(* registers: the four steps of process_write_order and task_orders amount *)
(* to one atomic write.  So the echo of a WRITE order tells what is in     *)
(* force, and registers written within bounds keep the control law from    *)
(* wrapping.                                                               *)
(***************************************************************************)
EXTENDS ServoProofs

(* The motherboard fills the bytes that the handlers read: a switch has    *)
(* two bytes and a WRITE at least three.                                   *)
WholeFrames ==
  \A f \in Frames :
    /\ f.order \in WriteOrders => f.len >= 3
    /\ f.order \in {PidOrder[p] : p \in Pids} => f.len >= 2

Busy == o.pc # "wait" \/ notified["orders"]

(* The buffer holds, as far as the handlers look, a frame of the bus.      *)
Holds(f) ==
  /\ rx.order = f.order
  /\ f.len >= 2 => rx.par = f.par /\ rx.pid = f.pid
  /\ f.len >= 3 => rx.val = f.val

(* What makes the steps of one order refer to the same frame.              *)
OrderInv ==
  /\ o.pc # "wait" => ~notified["orders"]
  /\ (Busy /\ o.pc \in {"wait", "dispatch", "handle", "store"}) =>
       \E f \in Frames : Holds(f)
  /\ o.pc \in {"handle", "store"} => o.order = rx.order
  /\ o.pc = "store" => o.par = rx.par /\ o.pid = rx.pid /\ o.order \in WriteOrders
  /\ (o.pc \in {"handle", "store"} /\ o.order \in WriteOrders) =>
       Accepts(polarity, o.order)

(* At power-up no order is being handled. *)
LEMMA OrderInit == Init => OrderInv
BY DEF Init, OrderInv, Busy, OrdersIdle

(* Under pacing the buffer keeps the frame that the order task handles. *)
LEMMA OrderStep ==
  ASSUME Paced PROVE TypeOK /\ OrderInv /\ [Next]_vars => OrderInv'
<1> SUFFICES ASSUME TypeOK, OrderInv, [Next]_vars PROVE OrderInv'
  OBVIOUS
<1> USE DEF OrderInv, Busy, Holds, settings, control, sensing, motor
<1>1. /\ o \in [pc : OrdersPcs, order : Orders, par : Infos,
               pid : Pids \union {"none"}, val : Int]
      /\ notified \in [{"orders", "main"} -> BOOLEAN]
  BY DEF TypeOK, OrdersTypeOK
<1>2. ASSUME NEW f \in Frames, usb_lp_can1_rx0_isr(f) PROVE OrderInv'
  <2>1. OrdersBlocked /\ UNCHANGED <<o, polarity>>
    BY <1>2 DEF usb_lp_can1_rx0_isr
  <2>2. notified'["orders"] => f.len >= 1
    BY <1>1, <1>2, <2>1 DEF usb_lp_can1_rx0_isr, OrdersBlocked
  <2>3. rx' = Received(f)
    BY <1>2 DEF usb_lp_can1_rx0_isr
  <2>4. f.len \in Nat
    BY ServoAssumption DEF Frame
  <2>5. f.len >= 1 => Holds(f)'
    BY <2>3, <2>4 DEF Received
  <2>. QED  BY <2>1, <2>2, <2>5 DEF OrdersBlocked
<1>3. CASE StartScheduler
  BY <1>3 DEF StartScheduler
<1>4. CASE task_orders
  <2>1. CASE OrdersTake
    BY <1>1, <2>1 DEF OrdersTake, OrdersAt
  <2>2. CASE Dispatch
    BY <1>1, <2>2 DEF Dispatch, OrdersAt, Dropped, OrdersIdle
  <2>3. ASSUME NEW p \in Pids, process_pid_order(p) PROVE OrderInv'
    BY <1>1, <2>3 DEF process_pid_order, OrdersAt, OrdersIdle
  <2>4. CASE process_sync_order
    BY <1>1, <2>4 DEF process_sync_order, OrdersAt, OrdersIdle
  <2>5. CASE process_debug_order
    BY <1>1, <2>5 DEF process_debug_order, OrdersAt
  <2>6. CASE process_get_order
    BY <1>1, <2>6 DEF process_get_order, OrdersAt
  <2>7. CASE ReadInfo
    <3>1. CASE Writable(rx.par, rx.pid)
      <4>1. /\ o' = [o EXCEPT !.pc = "store", !.par = rx.par, !.pid = rx.pid]
            /\ UNCHANGED <<rx, notified, polarity>>
        BY <2>7, <3>1 DEF ReadInfo
      <4>2. o.pc = "handle" /\ o.order \in WriteOrders
        BY <2>7 DEF ReadInfo, OrdersAt
      <4>. QED  BY <1>1, <4>1, <4>2
    <3>2. CASE ~Writable(rx.par, rx.pid)
      BY <1>1, <2>7, <3>2 DEF ReadInfo, OrdersAt, OrdersIdle
    <3>. QED  BY <3>1, <3>2
  <2>8. CASE StoreValue
    BY <1>1, <2>8 DEF StoreValue, OrdersAt
  <2>9. CASE WriteBack
    BY <1>1, <2>9 DEF WriteBack, OrdersAt
  <2>10. CASE SendOrder
    BY <1>1, <2>10 DEF SendOrder, OrdersAt, OrdersIdle
  <2>. QED
    BY <1>4, <2>1, <2>2, <2>3, <2>4, <2>5, <2>6, <2>7, <2>8, <2>9, <2>10
       DEF task_orders, Handle
<1>5. CASE task_main_loop
  <2>1. UNCHANGED <<rx, o, polarity>> /\ notified'["orders"] = notified["orders"]
    BY <1>1, <1>5
       DEF task_main_loop, MainTake, clear_all_flags, Measure, ReadMagSensor,
           FlagMagSensor, StoreFlags, MeasureAngle, MeasureOthers, FlagMaxTemp,
           disable_motor, RunController, SelectController, ComputeError, Integrate,
           FlagWindup, ControlLaw, StoreOutput
  <2>. QED  BY <2>1
<1>6. CASE UNCHANGED vars
  BY <1>6 DEF vars
<1>. QED  BY <1>2, <1>3, <1>4, <1>5, <1>6 DEF Next

-----------------------------------------------------------------------------
(* The abstract module's copies of the operators on orders.                *)
LEMMA SameOperators ==
  /\ \A q, x : Registers!Accepts(q, x) = Accepts(q, x)
  /\ \A x, p : Registers!Writable(x, p) = Writable(x, p)
  /\ \A x, p, v : Registers!Payload(x, p, v) = Payload(x, p, v)
  /\ \A r, x, p, v : Registers!NewReg(r, x, p, v) = NewReg(r, x, p, v)
  /\ \A h, x, p : Registers!NewHasBeenSet(h, x, p) = NewHasBeenSet(h, x, p)
  /\ \A t, x, v : Registers!NewMaxTorque(t, x, v) = NewMaxTorque(t, x, v)
BY DEF Accepts, Registers!Accepts, WriteOrder, Registers!WriteOrder, Writable,
       Registers!Writable, Params, Registers!Params, Pids, Registers!Pids, Payload,
       Registers!Payload, NewReg, Registers!NewReg, NewHasBeenSet,
       Registers!NewHasBeenSet, NewMaxTorque, Registers!NewMaxTorque, MaxTorque,
       Registers!MaxTorque, ToInt16, Registers!ToInt16

mapped == IF o.pc \in {"echo", "send"} /\ o.order \in WriteOrders
          THEN 1 - polarity ELSE polarity

(* Power-up maps to the initial state of the registers. *)
LEMMA RefineInit == Init => Registers!Init
BY DEF Init, Registers!Init, OrdersIdle, InitReg, Registers!InitReg, Pids,
       Registers!Pids, Params, Registers!Params

(* A step maps to one write or one switch, at the store, or to nothing. *)
LEMMA RefineStep ==
  ASSUME Paced, WholeFrames
  PROVE  TypeOK /\ OrderInv /\ [Next]_vars => [Registers!Next]_Registers!vars
<1> SUFFICES ASSUME TypeOK, OrderInv, [Next]_vars
             PROVE  Registers!Next \/ UNCHANGED Registers!vars
  OBVIOUS
<1> USE DEF settings, control, sensing, motor
<1>1. /\ o \in [pc : OrdersPcs, order : Orders, par : Infos,
               pid : Pids \union {"none"}, val : Int]
      /\ polarity \in {0, 1}
  BY DEF TypeOK, OrdersTypeOK, SettingsTypeOK
<1>2. ASSUME UNCHANGED <<mapped, reg, enabled, has_been_set, max_torque>>
      PROVE  UNCHANGED Registers!vars
  BY <1>2 DEF Registers!vars, mapped
<1>3. CASE StartScheduler \/ \E f \in Frames : usb_lp_can1_rx0_isr(f)
  BY <1>2, <1>3 DEF StartScheduler, usb_lp_can1_rx0_isr, mapped
<1>4. CASE task_main_loop
  BY <1>2, <1>4
     DEF task_main_loop, MainTake, clear_all_flags, Measure, ReadMagSensor,
         FlagMagSensor, StoreFlags, MeasureAngle, MeasureOthers, FlagMaxTemp,
         disable_motor, RunController, SelectController, ComputeError, Integrate,
         FlagWindup, ControlLaw, StoreOutput, mapped
<1>5. CASE OrdersTake \/ Dispatch \/ WriteBack
  <2>1. CASE OrdersTake
    BY <1>1, <1>2, <2>1 DEF OrdersTake, OrdersAt, mapped
  <2>2. CASE Dispatch
    BY <1>1, <1>2, <2>2 DEF Dispatch, OrdersAt, OrdersIdle, mapped
  <2>3. CASE WriteBack
    BY <1>1, <1>2, <2>3 DEF WriteBack, OrdersAt, mapped
  <2>. QED  BY <1>5, <2>1, <2>2, <2>3
<1>6. CASE process_sync_order \/ process_debug_order \/ process_get_order
  <2>1. CASE process_sync_order
    BY <1>1, <1>2, <2>1 DEF process_sync_order, OrdersAt, OrdersIdle, mapped
  <2>2. CASE process_debug_order
    BY <1>1, <1>2, <2>2 DEF process_debug_order, OrdersAt, WriteOrders, mapped
  <2>3. CASE process_get_order
    BY <1>1, <1>2, <2>3 DEF process_get_order, OrdersAt, WriteOrders, mapped
  <2>. QED  BY <1>6, <2>1, <2>2, <2>3
<1>7. ASSUME NEW p \in Pids, process_pid_order(p) PROVE Registers!Next
  <2>1. PICK f \in Frames : Holds(f)
    BY <1>7 DEF process_pid_order, OrdersAt, OrderInv, Busy
  <2>2. /\ f.order = PidOrder[p] /\ rx.par = f.par
    <3>1. rx.order = PidOrder[p]
      BY <1>7 DEF process_pid_order, OrdersAt, OrderInv
    <3>. QED  BY <2>1, <3>1 DEF Holds, WholeFrames
  <2>3. Registers!Switch(f)
    BY <1>1, <1>7, <2>2 DEF process_pid_order, OrdersAt, OrdersIdle, Registers!Switch,
       Registers!Pids, Pids, Registers!PidOrder, PidOrder, WriteOrders
  <2>. QED  BY <2>3 DEF Registers!Next
<1>8. CASE ReadInfo
  <2>1. PICK f \in Frames : Holds(f)
    BY <1>8 DEF ReadInfo, OrdersAt, OrderInv, Busy
  <2>2. /\ o.order = f.order /\ f.par = rx.par /\ f.pid = rx.pid
        /\ Accepts(polarity, f.order) /\ o.pc = "handle"
    <3>1. o.order = rx.order /\ o.pc = "handle" /\ o.order \in WriteOrders
          /\ Accepts(polarity, o.order)
      BY <1>8 DEF ReadInfo, OrdersAt, OrderInv
    <3>2. f.len \in Nat /\ f.len >= 3
      BY <2>1, <3>1, ServoAssumption DEF Frame, Holds, WholeFrames
    <3>. QED  BY <2>1, <3>1, <3>2 DEF Holds
  <2>3. CASE Writable(rx.par, rx.pid)
    BY <1>1, <1>2, <1>8, <2>3 DEF ReadInfo, OrdersAt, mapped
  <2>4. CASE ~Writable(rx.par, rx.pid)
    <3>1. Registers!Write(f)
      BY <1>1, <1>8, <2>2, <2>4, SameOperators
         DEF ReadInfo, OrdersIdle, Registers!Write
    <3>. QED  BY <3>1 DEF Registers!Next
  <2>. QED  BY <2>3, <2>4
<1>9. CASE StoreValue
  <2>1. PICK f \in Frames : Holds(f)
    BY <1>9 DEF StoreValue, OrdersAt, OrderInv, Busy
  <2>2. /\ o.order = f.order /\ o.par = f.par /\ o.pid = f.pid /\ rx.val = f.val
        /\ Accepts(polarity, f.order) /\ o.pc = "store" /\ o.order \in WriteOrders
        /\ Writable(f.par, f.pid)
    <3>1. /\ o.order = rx.order /\ o.par = rx.par /\ o.pid = rx.pid
          /\ o.pc = "store" /\ o.order \in WriteOrders /\ Accepts(polarity, o.order)
      BY <1>9 DEF StoreValue, OrdersAt, OrderInv
    <3>2. Writable(o.par, o.pid)
      BY <3>1 DEF TypeOK, OrdersTypeOK
    <3>3. f.len \in Nat /\ f.len >= 3
      BY <2>1, <3>1, ServoAssumption DEF Frame, Holds, WholeFrames
    <3>. QED  BY <2>1, <3>1, <3>2, <3>3 DEF Holds
  <2>3. Registers!Write(f)
    BY <1>1, <1>9, <2>2, SameOperators DEF StoreValue, Registers!Write
  <2>. QED  BY <2>3 DEF Registers!Next
<1>10. CASE SendOrder
  BY <1>1, <1>2, <1>10 DEF SendOrder, OrdersAt, OrdersIdle, mapped
<1>11. CASE UNCHANGED vars
  BY <1>2, <1>11 DEF vars, mapped
<1>. QED
  BY <1>3, <1>4, <1>5, <1>6, <1>7, <1>8, <1>9, <1>10, <1>11
     DEF Next, task_orders, Handle

(* On a paced bus, every order takes effect on the registers in one piece, *)
(* in the order of arrival, a WRITE only when it carries the polarity the  *)
(* board expects next, which then flips.                                   *)
THEOREM ServoImplementsRegisters ==
  ASSUME Paced, WholeFrames
  PROVE  Spec => RegistersSpec
<1>. QED  BY OrderInit, OrderStep, RefineInit, RefineStep, TypeCorrect, PTL
            DEF Spec, RegistersSpec, Registers!Spec

-----------------------------------------------------------------------------
(* What makes an echo true: until it is sent, the buffer names the register *)
(* that was written, and the register holds what the payload was read as,  *)
(* of which the echo carries what the handler writes back.                 *)
EchoInv ==
  /\ o.pc \in {"echo", "send"} => o.order = rx.order
  /\ (o.pc \in {"echo", "send"} /\ o.order \in WriteOrders) =>
       /\ rx.par = o.par /\ rx.pid = o.pid
       /\ Writable(o.par, o.pid)
       /\ o.par = "max_torque" => max_torque = MaxTorque(o.val)
       /\ o.par \in Params => reg[o.pid][o.par] = o.val
       /\ o.val = Payload(o.par, o.pid, o.val)
  /\ (o.pc = "send" /\ o.order \in WriteOrders) =>
       rx.val \in WrittenBack(o.par, o.pid, o.val)

(* At power-up there is nothing to echo. *)
LEMMA EchoInit == Init => EchoInv
BY DEF Init, EchoInv, OrdersIdle

(* Reading what was read once gives the same again ...                     *)
LEMMA ReadTwice ==
  ASSUME NEW par, NEW pid, NEW x \in Int
  PROVE  Payload(par, pid, Payload(par, pid, x)) = Payload(par, pid, x)
<1>1. (x % 256) % 256 = x % 256 /\ (x % 65536) % 65536 = x % 65536
  OBVIOUS
<1>2. ToInt16(ToInt16(x)) = ToInt16(x)
  BY ToInt16Range DEF Int16
<1>. QED  BY <1>1, <1>2 DEF Payload

(* ... and so does reading what was written back of it, but for a negative *)
(* torque.                                                                 *)
LEMMA EchoReads ==
  ASSUME NEW par, NEW pid, NEW v, v = Payload(par, pid, v), NEW w \in WrittenBack(par, pid, v)
  PROVE  Payload(par, pid, w) = v \/ (par = "ref" /\ pid = "tor" /\ v < 0)
BY DEF WrittenBack

(* Storing a value puts it in force in the register it names. *)
LEMMA StoredInForce ==
  ASSUME NEW r \in [Pids -> [Params -> Int]], NEW t, NEW par, NEW pid, NEW v,
         Writable(par, pid)
  PROVE  /\ par = "max_torque" => NewMaxTorque(t, par, v) = MaxTorque(v)
         /\ par \in Params => NewReg(r, par, pid, v)[pid][par] = v
<1>1. par \in Params => par # "max_torque" /\ pid \in Pids
  BY DEF Params, Writable
<1>2. ASSUME par \in Params PROVE NewReg(r, par, pid, v)[pid][par] = v
  <2>1. NewReg(r, par, pid, v) = [r EXCEPT ![pid][par] = v]
    BY <1>2 DEF NewReg
  <2>2. pid \in DOMAIN r /\ par \in DOMAIN r[pid]
    BY <1>1, <1>2
  <2>. QED  BY <2>1, <2>2
<1>. QED  BY <1>2 DEF NewMaxTorque

(* No frame arrives and no other register is stored before the echo is on  *)
(* its way.                                                                *)
LEMMA EchoStep ==
  ASSUME Paced PROVE TypeOK /\ OrderInv /\ EchoInv /\ [Next]_vars => EchoInv'
<1> SUFFICES ASSUME TypeOK, OrderInv, EchoInv, [Next]_vars PROVE EchoInv'
  OBVIOUS
<1> USE DEF settings, control, sensing, motor
<1>1. o \in [pc : OrdersPcs, order : Orders, par : Infos,
             pid : Pids \union {"none"}, val : Int]
  BY DEF TypeOK, OrdersTypeOK
<1>2. ASSUME o'.pc \notin {"echo", "send"} PROVE EchoInv'
  BY <1>2 DEF EchoInv
<1>3. ASSUME UNCHANGED <<o, rx, max_torque, reg>> PROVE EchoInv'
  BY <1>3 DEF EchoInv
<1>4. ASSUME NEW f \in Frames, usb_lp_can1_rx0_isr(f) PROVE EchoInv'
  <2>1. o'.pc = "wait"
    BY <1>4 DEF usb_lp_can1_rx0_isr, OrdersBlocked
  <2>. QED  BY <1>2, <2>1
<1>5. CASE task_orders
  <2>1. CASE OrdersTake \/ Dispatch \/ ReadInfo \/ SendOrder
    <3>1. o'.pc \in {"wait", "dispatch", "handle", "store"}
      <4>1. CASE OrdersTake \/ SendOrder
        BY <1>1, <4>1 DEF OrdersTake, SendOrder, OrdersIdle
      <4>2. CASE Dispatch
        BY <1>1, <4>2 DEF Dispatch, OrdersIdle
      <4>3. CASE ReadInfo
        <5>1. o' = OrdersIdle \/ o' = [o EXCEPT !.pc = "store", !.par = rx.par, !.pid = rx.pid]
          BY <4>3 DEF ReadInfo
        <5>2. OrdersIdle.pc = "wait"
          BY DEF OrdersIdle
        <5>3. [o EXCEPT !.pc = "store", !.par = rx.par, !.pid = rx.pid].pc = "store"
          BY <1>1
        <5>. QED  BY <5>1, <5>2, <5>3
      <4>. QED  BY <2>1, <4>1, <4>2, <4>3
    <3>. QED  BY <1>2, <3>1
  <2>2. CASE process_sync_order \/ \E p \in Pids : process_pid_order(p)
    <3>1. o'.pc = "wait"
      BY <2>2 DEF process_sync_order, process_pid_order, OrdersIdle
    <3>. QED  BY <1>2, <3>1
  <2>3. CASE process_debug_order \/ process_get_order
    <3>1. /\ o.pc = "handle" /\ o.order = rx.order /\ o.order \in {"DEBUG", "GET"}
      BY <2>3 DEF process_debug_order, process_get_order, OrdersAt, OrderInv
    <3>2. o'.order = o.order /\ rx' = rx
      BY <1>1, <2>3 DEF process_debug_order, process_get_order
    <3>. QED  BY <3>1, <3>2 DEF EchoInv, WriteOrders
  <2>4. CASE StoreValue
    <3> DEFINE v == Payload(o.par, o.pid, rx.val)
    <3>1. /\ o.pc = "store" /\ o.order = rx.order
          /\ o.par = rx.par /\ o.pid = rx.pid
      BY <2>4 DEF StoreValue, OrdersAt, OrderInv
    <3>2. Writable(o.par, o.pid)
      BY <3>1 DEF TypeOK, OrdersTypeOK
    <3>3. /\ o'.pc = "echo" /\ o'.order = o.order /\ o'.par = o.par
          /\ o'.pid = o.pid /\ o'.val = v
      BY <1>1, <2>4 DEF StoreValue
    <3>4. /\ reg' = NewReg(reg, o.par, o.pid, v)
          /\ max_torque' = NewMaxTorque(max_torque, o.par, v)
          /\ rx' = rx
      BY <2>4 DEF StoreValue
    <3>5. reg \in [Pids -> [Params -> Int]]
      BY DEF TypeOK, SettingsTypeOK
    <3> HIDE DEF v
    <3>6. /\ o.par = "max_torque" => max_torque' = MaxTorque(v)
          /\ o.par \in Params => reg'[o.pid][o.par] = v
      BY <3>2, <3>4, <3>5, StoredInForce
    <3>7. Writable(o'.par, o'.pid)
      BY <3>2, <3>3
    <3>8. v = Payload(o.par, o.pid, v)
      <4>1. rx.val \in Int
        BY DEF TypeOK, RxTypeOK, Frame
      <4>. QED  BY <4>1, ReadTwice DEF v
    <3>. QED  BY <3>1, <3>3, <3>4, <3>6, <3>7, <3>8 DEF EchoInv, Writable
  <2>5. CASE WriteBack
    <3>1. /\ o.pc = "echo" /\ o.order = rx.order
          /\ o' = [o EXCEPT !.pc = "send"]
          /\ UNCHANGED <<max_torque, reg>>
      BY <2>5 DEF WriteBack, OrdersAt, EchoInv
    <3>2. rx \in Frame
      BY DEF TypeOK, RxTypeOK
    <3>3. rx'.order = rx.order
      BY <2>5, <3>2 DEF WriteBack, Frame
    <3>4. CASE o.order \notin WriteOrders
      BY <1>1, <3>1, <3>3, <3>4 DEF EchoInv
    <3>5. CASE o.order \in WriteOrders
      <4>1. o.order # "GET"
        BY <3>5 DEF WriteOrders
      <4>2. PICK w \in WrittenBack(o.par, o.pid, o.val) : rx' = [rx EXCEPT !.val = w]
        BY <2>5, <3>5, <4>1 DEF WriteBack, WriteOrders
      <4>3. rx'.par = rx.par /\ rx'.pid = rx.pid /\ rx'.val = w
        BY <3>2, <4>2 DEF Frame
      <4>4. o'.order = o.order /\ o'.par = o.par /\ o'.pid = o.pid /\ o'.val = o.val
        BY <1>1, <3>1
      <4>. QED  BY <3>1, <3>3, <3>5, <4>3, <4>4 DEF EchoInv, Writable
    <3>. QED  BY <3>4, <3>5
  <2>. QED  BY <1>5, <2>1, <2>2, <2>3, <2>4, <2>5 DEF task_orders, Handle
<1>6. CASE StartScheduler \/ task_main_loop
  <2>1. UNCHANGED <<o, rx, max_torque, reg>>
    BY <1>6
       DEF StartScheduler, task_main_loop, MainTake, clear_all_flags, Measure,
           ReadMagSensor, FlagMagSensor, StoreFlags, MeasureAngle, MeasureOthers,
           FlagMaxTemp, disable_motor, RunController, SelectController, ComputeError,
           Integrate, FlagWindup, ControlLaw, StoreOutput
  <2>. QED  BY <1>3, <2>1
<1>7. CASE UNCHANGED vars
  BY <1>3, <1>7 DEF vars
<1>. QED  BY <1>4, <1>5, <1>6, <1>7 DEF Next

(* A reply is written when an order is taken, then empty, or sent. *)
LEMMA RepliesSent ==
  ASSUME TypeOK, [Next]_vars
  PROVE  reply' = reply \/ reply' = NoMessage \/ SendOrder
BY DEF Next, vars, settings, control, sensing, motor, usb_lp_can1_rx0_isr,
       StartScheduler, task_orders, OrdersTake, Dispatch, Handle, process_pid_order,
       process_sync_order, process_debug_order, process_get_order, ReadInfo,
       StoreValue, WriteBack, task_main_loop, MainTake, clear_all_flags, Measure,
       ReadMagSensor, FlagMagSensor, StoreFlags, MeasureAngle, MeasureOthers,
       FlagMaxTemp, disable_motor, RunController, SelectController, ComputeError,
       Integrate, FlagWindup, ControlLaw, StoreOutput

(* On a paced bus, whatever the frames, their lengths, signs and sizes,    *)
(* what the motherboard reads of the echo of a WRITE order is what the     *)
(* register it names holds when it is sent, unless that is a negative      *)
(* torque reference: StoreValue, WriteBack and SendOrder work on one frame *)
(* (main.c:318-509).                                                       *)
THEOREM EchoesAreTrue ==
  ASSUME Paced PROVE Spec => EchoTruthful
<1> DEFINE Sound ==
      (reply' # reply /\ reply'.order \in WriteOrders) =>
         InForce(reply', reg', max_torque') \/ NegativeTorque(reply', reg')
<1>1. ASSUME TypeOK, EchoInv, [Next]_vars PROVE Sound
  <2>1. CASE reply' = reply \/ reply' = NoMessage
    BY <2>1 DEF NoMessage, WriteOrders
  <2>2. CASE SendOrder
    <3>1. /\ o.pc = "send"
          /\ reply' = [order |-> rx.order, par |-> rx.par, pid |-> rx.pid, val |-> rx.val]
          /\ UNCHANGED <<reg, max_torque>>
      BY <2>2 DEF SendOrder, OrdersAt
    <3>2. /\ reply'.order = rx.order /\ reply'.par = rx.par
          /\ reply'.pid = rx.pid /\ reply'.val = rx.val
      BY <3>1
    <3>3. SUFFICES ASSUME rx.order \in WriteOrders
                   PROVE  InForce(reply', reg, max_torque) \/ NegativeTorque(reply', reg)
      BY <3>1, <3>2
    <3>4. /\ rx.par = o.par /\ rx.pid = o.pid /\ Writable(o.par, o.pid)
          /\ o.par = "max_torque" => max_torque = MaxTorque(o.val)
          /\ o.par \in Params => reg[o.pid][o.par] = o.val
          /\ o.val = Payload(o.par, o.pid, o.val)
          /\ rx.val \in WrittenBack(o.par, o.pid, o.val)
      BY <1>1, <3>1, <3>3 DEF EchoInv
    <3>5. Payload(o.par, o.pid, rx.val) = o.val
            \/ (o.par = "ref" /\ o.pid = "tor" /\ o.val < 0)
      BY <3>4, EchoReads
    <3>6. CASE Payload(o.par, o.pid, rx.val) = o.val
      <4>1. o.par = "max_torque" \/ o.par \in Params
        BY <3>4 DEF Writable
      <4>. QED  BY <3>2, <3>4, <3>6, <4>1 DEF InForce
    <3>7. CASE o.par = "ref" /\ o.pid = "tor" /\ o.val < 0
      <4>1. reg["tor"]["ref"] = o.val
        BY <3>4, <3>7 DEF Params
      <4>. QED  BY <3>2, <3>4, <3>7, <4>1 DEF NegativeTorque
    <3>. QED  BY <3>5, <3>6, <3>7
  <2>. QED  BY <1>1, <2>1, <2>2, RepliesSent
<1>2. TypeOK /\ EchoInv /\ [Next]_vars => [Sound]_vars
  BY <1>1
<1>. QED  BY <1>2, OrderInit, OrderStep, EchoInit, EchoStep, TypeCorrect, PTL
            DEF Spec, EchoTruthful

-----------------------------------------------------------------------------
(* Bounds on what a WRITE order may ask for, one for each register.        *)
Bounds == [Params -> Nat]

(* The control law's value for the largest error (a turn), integral and    *)
(* change of error (two turns in a cycle of 1/100 second).                 *)
Largest(b) == b["kp"] * 360 + b["ki"] * b["int_limit"] + b["kd"] * 72000

(* References of one turn, and gains whose largest law, modulated by a     *)
(* percentage, fits an int16_t.                                            *)
Narrow(b) == b["ref"] <= 359 /\ Largest(b) * b["mod_fact"] <= 32767 * 100

(* The orders of hold_reflex.c: only the position controller is configured *)
(* and switched, within the bounds.                                        *)
PositionFrames(b) ==
  \A f \in Frames :
    /\ f.order \notin {"PID_SPE", "PID_TOR"}
    /\ (f.order \in WriteOrders /\ f.par \in Params) =>
         f.pid = "pos" /\ Payload(f.par, f.pid, f.val) \in 0..b[f.par]

(* What keeps the law narrow: every register within its bound, whatever    *)
(* order they are written in, and with them the error, the integral and    *)
(* the error before; no controller but that of the position runs.          *)
NarrowInv(b) ==
  /\ \A x \in Params : reg["pos"][x] \in 0..b[x]
  /\ enabled["spe"] = FALSE /\ enabled["tor"] = FALSE
  /\ m.pc \in {"error", "integrate", "windflag", "law", "output"} => m.pid = "pos"
  /\ 0 <= meas.angle /\ meas.angle <= 359
  /\ 0 <= m.sample /\ m.sample <= 359
  /\ -360 <= m.e /\ m.e <= 360
  /\ -360 <= prev_e["pos"] /\ prev_e["pos"] <= 360
  /\ -(100 * b["int_limit"]) <= integral_term["pos"]
  /\ integral_term["pos"] <= 100 * b["int_limit"]

(* At power-up every register is zero but the modulation factor. *)
LEMMA NarrowInit ==
  ASSUME NEW b \in Bounds, b["mod_fact"] >= 100
  PROVE  Init => NarrowInv(b)
<1> SUFFICES ASSUME Init PROVE NarrowInv(b)
  OBVIOUS
<1>1. b["int_limit"] \in Nat /\ \A x \in Params : b[x] \in Nat
  BY DEF Bounds, Params
<1>2. \A x \in Params : reg["pos"][x] \in 0..b[x]
  <2>1. reg["pos"] = [x \in Params |-> IF x = "mod_fact" THEN 100 ELSE 0]
    BY DEF Init, InitReg, Pids
  <2>. QED  BY <1>1, <2>1
<1>3. enabled["spe"] = FALSE /\ enabled["tor"] = FALSE
  BY DEF Init, Pids
<1>4. m.pc = "wait" /\ m.sample = 0 /\ m.e = 0 /\ meas.angle = 0
  BY DEF Init, MainIdle
<1>5. prev_e["pos"] = 0 /\ integral_term["pos"] = 0
  BY DEF Init, Pids
<1>. QED  BY <1>1, <1>2, <1>3, <1>4, <1>5 DEF NarrowInv

(* A WRITE order that is carried out leaves every register within bounds:  *)
(* the value it stores is the payload of the frame that names it.          *)
LEMMA StoreNarrow ==
  ASSUME WholeFrames, NEW b \in Bounds, PositionFrames(b),
         TypeOK, OrderInv, NarrowInv(b), StoreValue
  PROVE  \A x \in Params : reg'["pos"][x] \in 0..b[x]
<1>1. PICK f \in Frames : Holds(f)
  BY DEF StoreValue, OrdersAt, OrderInv, Busy
<1>2. /\ o.pc = "store" /\ o.order = rx.order /\ o.par = rx.par /\ o.pid = rx.pid
      /\ o.order \in WriteOrders
  BY DEF StoreValue, OrdersAt, OrderInv
<1>3. f.len \in Nat /\ f.len >= 3
  BY <1>1, <1>2, ServoAssumption DEF Frame, Holds, WholeFrames
<1>4. /\ f.order \in WriteOrders /\ o.par = f.par /\ o.pid = f.pid /\ rx.val = f.val
  BY <1>1, <1>2, <1>3 DEF Holds
<1> DEFINE v == Payload(o.par, o.pid, rx.val)
<1>5. o.par \in Params => o.pid = "pos" /\ v \in 0..b[o.par]
  BY <1>4 DEF PositionFrames
<1>6. reg' = NewReg(reg, o.par, o.pid, v)
  BY DEF StoreValue
<1>7. reg \in [Pids -> [Params -> Int]] /\ "pos" \in Pids
  BY DEF TypeOK, SettingsTypeOK, Pids
<1> HIDE DEF v
<1>8. \A x \in Params : reg["pos"][x] \in 0..b[x]
  BY DEF NarrowInv
<1>9. CASE o.par \in Params
  <2>1. reg' = [reg EXCEPT !["pos"][o.par] = v]
    BY <1>5, <1>6, <1>9 DEF NewReg
  <2>2. reg'["pos"] = [reg["pos"] EXCEPT ![o.par] = v]
    BY <1>7, <2>1
  <2>3. reg["pos"] \in [Params -> Int]
    BY <1>7
  <2>. QED  BY <1>5, <1>8, <1>9, <2>2, <2>3
<1>10. CASE o.par \notin Params
  BY <1>6, <1>8, <1>10 DEF NewReg
<1>. QED  BY <1>9, <1>10

(* The integral of the position controller stays within the largest limit. *)
LEMMA IntegralNarrow ==
  ASSUME NEW b \in Bounds, NEW integral \in Int, NEW e \in Int,
         NEW limit \in 0..b["int_limit"]
  PROVE  /\ -(100 * b["int_limit"]) <= NextIntegral(integral, e, limit).term
         /\ NextIntegral(integral, e, limit).term <= 100 * b["int_limit"]
<1>1. b["int_limit"] \in Nat
  BY DEF Bounds, Params
<1>2. /\ NextIntegral(integral, e, limit).term \in Int
      /\ fabs(NextIntegral(integral, e, limit).term) <= 100 * limit
  <2>1. limit \in Int /\ limit >= 0
    BY <1>1
  <2>2. integral \in Int /\ e \in Int
    OBVIOUS
  <2>. QED  BY ONLY <2>1, <2>2, IntegralBound
<1>. QED  BY <1>1, <1>2 DEF fabs

(* A step of the order task touches the registers and the switches only. *)
LEMMA OrdersNarrow ==
  ASSUME WholeFrames, NEW b \in Bounds, PositionFrames(b),
         TypeOK, OrderInv, NarrowInv(b), task_orders
  PROVE  NarrowInv(b)'
<1> USE DEF settings, control, sensing, motor
<1>1. UNCHANGED <<m, meas, prev_e, integral_term>>
  BY DEF task_orders, OrdersTake, Dispatch, Handle, process_pid_order,
         process_sync_order, process_debug_order, process_get_order, ReadInfo,
         StoreValue, WriteBack, SendOrder
<1>2. \A x \in Params : reg'["pos"][x] \in 0..b[x]
  <2>1. CASE StoreValue
    BY <2>1, StoreNarrow
  <2>2. CASE ~StoreValue
    <3>1. reg' = reg
      BY <2>2
         DEF task_orders, OrdersTake, Dispatch, Handle, process_pid_order,
             process_sync_order, process_debug_order, process_get_order, ReadInfo,
             WriteBack, SendOrder
    <3>. QED  BY <3>1 DEF NarrowInv
  <2>. QED  BY <2>1, <2>2
<1>3. enabled'["spe"] = FALSE /\ enabled'["tor"] = FALSE
  <2>1. ASSUME NEW p \in Pids, process_pid_order(p)
        PROVE  enabled'["spe"] = FALSE /\ enabled'["tor"] = FALSE
    <3>1. /\ o.pc = "handle" /\ o.order = PidOrder[p] /\ o.order = rx.order
      BY <2>1 DEF process_pid_order, OrdersAt, OrderInv
    <3>2. PICK f \in Frames : Holds(f)
      BY <3>1 DEF OrderInv, Busy
    <3>3. PidOrder[p] \notin {"PID_SPE", "PID_TOR"}
      BY <3>1, <3>2 DEF Holds, PositionFrames
    <3>4. p = "pos"
      BY <3>3 DEF Pids, PidOrder
    <3>5. \E on : enabled' = [enabled EXCEPT ![p] = on]
      BY <2>1 DEF process_pid_order
    <3>6. enabled \in [Pids -> BOOLEAN] /\ "spe" \in Pids /\ "tor" \in Pids
      BY DEF TypeOK, SettingsTypeOK, Pids
    <3>7. enabled'["spe"] = enabled["spe"] /\ enabled'["tor"] = enabled["tor"]
      BY <3>4, <3>5, <3>6
    <3>. QED  BY <3>7 DEF NarrowInv
  <2>2. CASE ~\E p \in Pids : process_pid_order(p)
    <3>1. enabled' = enabled
      BY <2>2
         DEF task_orders, OrdersTake, Dispatch, Handle, process_sync_order,
             process_debug_order, process_get_order, ReadInfo, StoreValue, WriteBack,
             SendOrder
    <3>. QED  BY <3>1 DEF NarrowInv
  <2>. QED  BY <2>1, <2>2
<1>4. /\ m.pc \in {"error", "integrate", "windflag", "law", "output"} => m.pid = "pos"
      /\ 0 <= meas.angle /\ meas.angle <= 359
      /\ 0 <= m.sample /\ m.sample <= 359
      /\ -360 <= m.e /\ m.e <= 360
      /\ -360 <= prev_e["pos"] /\ prev_e["pos"] <= 360
      /\ -(100 * b["int_limit"]) <= integral_term["pos"]
      /\ integral_term["pos"] <= 100 * b["int_limit"]
  BY DEF NarrowInv
<1>. QED  BY <1>1, <1>2, <1>3, <1>4 DEF NarrowInv

(* Nor does a step of the control task make anything larger: it selects    *)
(* the position controller or none, and bounds what it integrates.         *)
LEMMA MainNarrow ==
  ASSUME NEW b \in Bounds, Narrow(b), TypeOK, NarrowInv(b), task_main_loop
  PROVE  NarrowInv(b)'
<1> USE DEF settings, control, sensing, motor
<1>1. UNCHANGED <<reg, enabled>>
  BY DEF task_main_loop, MainTake, clear_all_flags, Measure, ReadMagSensor,
         FlagMagSensor, StoreFlags, MeasureAngle, MeasureOthers, FlagMaxTemp,
         disable_motor, RunController, SelectController, ComputeError, Integrate,
         FlagWindup, ControlLaw, StoreOutput
<1>2. /\ m \in [pc : MainPcs, sample : Int, flags : SUBSET Flags, pid : Pids, e : Int,
               wound : BOOLEAN, u : Int16, hot : BOOLEAN]
      /\ meas \in [angle : Int, speed : Int, torque : Int, channel : Int]
  BY DEF TypeOK, MainTypeOK, SensingTypeOK
<1>3. /\ \A x \in Params : reg'["pos"][x] \in 0..b[x]
      /\ enabled'["spe"] = FALSE /\ enabled'["tor"] = FALSE
  BY <1>1 DEF NarrowInv
<1>4. /\ m.pc \in {"error", "integrate", "windflag", "law", "output"} => m.pid = "pos"
      /\ 0 <= meas.angle /\ meas.angle <= 359
      /\ 0 <= m.sample /\ m.sample <= 359
      /\ -360 <= m.e /\ m.e <= 360
      /\ -360 <= prev_e["pos"] /\ prev_e["pos"] <= 360
      /\ -(100 * b["int_limit"]) <= integral_term["pos"]
      /\ integral_term["pos"] <= 100 * b["int_limit"]
  BY DEF NarrowInv
<1>5. ASSUME m'.pc \notin {"error", "integrate", "windflag", "law", "output"}
               \/ m'.pid = "pos",
             m'.sample = m.sample \/ m'.sample = 0, m'.e = m.e \/ m'.e = 0,
             UNCHANGED <<meas, prev_e, integral_term>>
      PROVE  NarrowInv(b)'
  BY <1>3, <1>4, <1>5 DEF NarrowInv
<1>6. CASE MainTake \/ clear_all_flags \/ FlagMagSensor \/ FlagMaxTemp \/ disable_motor
  <2>1. m'.pc \in {"clear", "mag", "angle", "disable", "select"} /\ m'.sample = m.sample
        /\ m'.e = m.e /\ UNCHANGED <<meas, prev_e, integral_term>>
    BY <1>2, <1>6
       DEF MainTake, clear_all_flags, FlagMagSensor, FlagMaxTemp, StoreFlags,
           disable_motor
  <2>. QED  BY <1>5, <2>1
<1>7. ASSUME NEW a \in Angles, NEW bad \in MagErrors, ReadMagSensor(a, bad)
      PROVE  NarrowInv(b)'
  <2>1. a \in Int /\ 0 <= a /\ a <= 359
    BY ServoAssumption
  <2>2. m'.pc \in {"magflag", "angle"} /\ m'.sample = a /\ m'.e = m.e
        /\ UNCHANGED <<meas, prev_e, integral_term>>
    <3>1. CASE bad
      BY <1>2, <1>7, <3>1 DEF ReadMagSensor
    <3>2. CASE ~bad
      BY <1>2, <1>7, <3>2 DEF ReadMagSensor
    <3>. QED  BY <3>1, <3>2
  <2>. QED  BY <1>3, <1>4, <2>1, <2>2 DEF NarrowInv
<1>8. CASE MeasureAngle
  <2>1. m'.pc = "sensors" /\ m'.sample = 0 /\ m'.e = m.e /\ meas'.angle = m.sample
        /\ UNCHANGED <<prev_e, integral_term>>
    BY <1>2, <1>8 DEF MeasureAngle
  <2>. QED  BY <1>3, <1>4, <2>1 DEF NarrowInv
<1>9. ASSUME NEW t \in Torques, NEW c \in Channels, NEW hot \in Overheats,
             MeasureOthers(t, c, hot)
      PROVE  NarrowInv(b)'
  <2>1. m'.pc \in {"hotflag", "select"} /\ m'.sample = m.sample /\ m'.e = m.e
    <3>1. CASE hot
      BY <1>2, <1>9, <3>1 DEF MeasureOthers
    <3>2. CASE ~hot
      BY <1>2, <1>9, <3>2 DEF MeasureOthers
    <3>. QED  BY <3>1, <3>2
  <2>2. meas'.angle = meas.angle /\ UNCHANGED <<prev_e, integral_term>>
    BY <1>2, <1>9 DEF MeasureOthers
  <2>. QED  BY <1>3, <1>4, <2>1, <2>2 DEF NarrowInv
<1>10. CASE SelectController
  <2>1. UNCHANGED <<meas, prev_e, integral_term>>
    BY <1>10 DEF SelectController
  <2>2. m.pc = "select"
    BY <1>10 DEF SelectController, MainAt
  <2>3. m.pid \in {"pos", "spe", "tor"}
    BY <1>2 DEF Pids
  <2>4. ~enabled["spe"] /\ ~enabled["tor"]
    BY DEF NarrowInv
  <2>5. CASE enabled[m.pid]
    <3>1. m' = [m EXCEPT !.pc = "error"]
      BY <1>10, <2>5 DEF SelectController
    <3>2. m.pid = "pos"
      BY <2>3, <2>4, <2>5
    <3>3. m'.pid = m.pid /\ m'.sample = m.sample /\ m'.e = m.e
      BY <1>2, <3>1
    <3>. QED  BY <1>5, <2>1, <3>2, <3>3
  <2>6. CASE ~enabled[m.pid]
    <3>1. m' \in {[m EXCEPT !.pid = "spe"], [m EXCEPT !.pid = "tor"], EndOfPeriod}
      BY <1>10, <2>3, <2>6 DEF SelectController
    <3>2. m'.pc \in {"select", "wait"} /\ m'.sample \in {m.sample, 0}
          /\ m'.e \in {m.e, 0}
      BY <1>2, <2>2, <3>1 DEF EndOfPeriod, MainIdle
    <3>. QED  BY <1>5, <2>1, <3>2
  <2>. QED  BY <2>5, <2>6
<1>11. CASE ComputeError
  <2>1. m.pc = "error" /\ m.pid = "pos"
    BY <1>4, <1>11 DEF ComputeError, MainAt
  <2>2. /\ m' = [m EXCEPT !.e = Error(m.pid), !.pc = "integrate"]
        /\ UNCHANGED <<meas, prev_e, integral_term>>
    BY <1>11 DEF ComputeError
  <2>3. m'.e = PosError(reg["pos"]["ref"], meas.angle) /\ m'.pid = "pos"
        /\ m'.sample = m.sample
    BY <1>2, <2>1, <2>2 DEF Error
  <2>4. reg["pos"]["ref"] \in Nat /\ reg["pos"]["ref"] <= 359
    <3>1. reg["pos"]["ref"] \in 0..b["ref"] /\ b["ref"] \in Nat /\ b["ref"] <= 359
      BY DEF NarrowInv, Narrow, Bounds, Params
    <3>. QED  BY <3>1
  <2>5. meas.angle \in Nat /\ meas.angle <= 359
    BY <1>2, <1>4
  <2>6. -360 <= m'.e /\ m'.e <= 360
    BY <2>3, <2>4, <2>5, PosErrorBound
  <2>. QED  BY <1>3, <1>4, <2>2, <2>3, <2>6 DEF NarrowInv
<1>12. CASE Integrate
  <2>1. m.pc = "integrate" /\ m.pid = "pos"
    BY <1>4, <1>12 DEF Integrate, MainAt
  <2> DEFINE i == NextIntegral(integral_term[m.pid], m.e, reg[m.pid]["int_limit"])
  <2>2. /\ integral_term' = [integral_term EXCEPT ![m.pid] = i.term]
        /\ m' = [m EXCEPT !.wound = i.wound, !.flags = flags, !.pc = "windflag"]
        /\ UNCHANGED <<meas, prev_e>>
    BY <1>12 DEF Integrate
  <2>3. integral_term \in [Pids -> Int] /\ "pos" \in Pids
    BY DEF TypeOK, ControlTypeOK, Pids
  <2>4. /\ -(100 * b["int_limit"]) <= i.term
        /\ i.term <= 100 * b["int_limit"]
    <3>1. reg["pos"]["int_limit"] \in 0..b["int_limit"]
      BY DEF NarrowInv, Params
    <3>. QED  BY <1>2, <2>1, <2>3, <3>1, IntegralNarrow
  <2> HIDE DEF i
  <2>5. m'.pid = "pos" /\ m'.sample = m.sample /\ m'.e = m.e
    BY <1>2, <2>1, <2>2
  <2>6. integral_term'["pos"] = i.term
    BY <2>1, <2>2, <2>3
  <2>. QED  BY <1>3, <1>4, <2>2, <2>4, <2>5, <2>6 DEF NarrowInv
<1>13. CASE FlagWindup
  <2>1. m.pc = "windflag" /\ m.pid = "pos"
    BY <1>4, <1>13 DEF FlagWindup, StoreFlags, MainAt
  <2>2. m'.pid = m.pid /\ m'.sample = m.sample /\ m'.e = m.e
        /\ UNCHANGED <<meas, prev_e, integral_term>>
    BY <1>2, <1>13 DEF FlagWindup, StoreFlags
  <2>. QED  BY <1>5, <2>1, <2>2
<1>14. CASE ControlLaw
  <2>1. m.pc = "law" /\ m.pid = "pos"
    BY <1>4, <1>14 DEF ControlLaw, MainAt
  <2>2. m'.pid = m.pid /\ m'.sample = m.sample /\ m'.e = m.e
        /\ UNCHANGED <<meas, integral_term>>
    BY <1>2, <1>14 DEF ControlLaw
  <2>3. prev_e' = [prev_e EXCEPT ![m.pid] = m.e]
    BY <1>14 DEF ControlLaw
  <2>4. prev_e \in [Pids -> Int] /\ "pos" \in Pids
    BY DEF TypeOK, ControlTypeOK, Pids
  <2>5. prev_e'["pos"] = m.e
    BY <2>1, <2>3, <2>4
  <2>. QED  BY <1>3, <1>4, <2>1, <2>2, <2>5 DEF NarrowInv
<1>15. CASE StoreOutput
  <2>1. m'.pc = "wait" /\ m'.sample = 0 /\ m'.e = 0
        /\ UNCHANGED <<meas, prev_e, integral_term>>
    BY <1>15 DEF StoreOutput, EndOfPeriod, MainIdle
  <2>. QED  BY <1>5, <2>1
<1>. QED
  BY <1>6, <1>7, <1>8, <1>9, <1>10, <1>11, <1>12, <1>13, <1>14, <1>15
     DEF task_main_loop, Measure, RunController

(* So every step keeps the bounds. *)
LEMMA NarrowStep ==
  ASSUME Paced, WholeFrames, NEW b \in Bounds, Narrow(b), PositionFrames(b)
  PROVE  TypeOK /\ OrderInv /\ NarrowInv(b) /\ [Next]_vars => NarrowInv(b)'
<1> SUFFICES ASSUME TypeOK, OrderInv, NarrowInv(b), [Next]_vars PROVE NarrowInv(b)'
  OBVIOUS
<1>1. CASE StartScheduler \/ (\E f \in Frames : usb_lp_can1_rx0_isr(f)) \/ UNCHANGED vars
  <2>1. UNCHANGED <<m, meas, reg, enabled, prev_e, integral_term>>
    BY <1>1 DEF StartScheduler, usb_lp_can1_rx0_isr, vars, settings, control, sensing
  <2>. QED  BY <2>1 DEF NarrowInv
<1>2. CASE task_orders
  BY <1>2, OrdersNarrow
<1>3. CASE task_main_loop
  BY <1>3, MainNarrow
<1>. QED  BY <1>1, <1>2, <1>3 DEF Next

(* Within the bounds nothing wraps: the command is computed from bounded   *)
(* factors, and the one output that counts is an int16_t already.          *)
LEMMA NarrowFits ==
  ASSUME NEW b \in Bounds, b["mod_fact"] >= 100, Narrow(b), TypeOK, NarrowInv(b)
  PROVE  NoOverflow
<1> DEFINE law == Law(reg[m.pid], m.e, integral_term[m.pid], m.e - prev_e[m.pid])
<1>1. ASSUME m.pc = "law"
      PROVE  law \in Int16 /\ TruncDiv(law * reg[m.pid]["mod_fact"], 100) \in Int16
  <2>1. m.pid = "pos"
    BY <1>1 DEF NarrowInv
  <2> DEFINE P == b["kp"]
             I == b["ki"]
             D == b["kd"]
             L == b["int_limit"]
             p == reg["pos"]["kp"]
             i == reg["pos"]["ki"]
             d == reg["pos"]["kd"]
             e == m.e
             v == prev_e["pos"]
             s == integral_term["pos"]
             sum == 100 * (p * e) + i * s + 100 * 100 * (d * (e - v))
             u == TruncDiv(sum, 100)
             f == reg["pos"]["mod_fact"]
             F == b["mod_fact"]
             K == P * 360 + I * L + D * 72000
  <2>2. /\ P \in Nat /\ I \in Nat /\ D \in Nat /\ L \in Nat /\ F \in Nat
        /\ K \in Nat /\ K * F <= 32767 * 100 /\ F >= 100
    BY DEF Bounds, Params, Narrow, Largest
  <2>3. p \in 0..P /\ i \in 0..I /\ d \in 0..D
    BY DEF NarrowInv, Params
  <2>4. e \in Int /\ v \in Int /\ s \in Int
    BY DEF TypeOK, MainTypeOK, ControlTypeOK, Pids
  <2>5. -360 <= e /\ e <= 360 /\ -360 <= v /\ v <= 360 /\ -(100 * L) <= s /\ s <= 100 * L
    BY DEF NarrowInv
  <2>6. law = u
    BY <2>1 DEF Law, cycles
  <2>7. f \in 0..F
    BY DEF NarrowInv, Params
  <2> HIDE DEF law, u, P, I, D, L, p, i, d, e, v, s, sum, f, F
  <2>8. p \in Nat /\ p <= P /\ i \in Nat /\ i <= I /\ d \in Nat /\ d <= D
    BY <2>2, <2>3
  <2>9. u \in Int /\ -K <= u /\ u <= K
    <3>1. e - v \in Int /\ -720 <= e - v /\ e - v <= 720
      BY <2>4, <2>5
    <3>2. p * e \in Int /\ p * e <= P * 360 /\ -(P * 360) <= p * e
      BY ONLY <2>2, <2>4, <2>5, <2>8, TurnProduct
    <3> DEFINE H == 100 * L
    <3>3. H \in Nat /\ -H <= s /\ s <= H
      BY <2>2, <2>5
    <3> HIDE DEF H
    <3>4. i * s \in Int /\ i * s <= I * H /\ -(I * H) <= i * s
      BY ONLY <2>2, <2>4, <2>8, <3>3, ProductBound
    <3>5. d * (e - v) \in Int /\ d * (e - v) <= D * 720 /\ -(D * 720) <= d * (e - v)
      BY ONLY <2>2, <2>8, <3>1, TurnsProduct
    <3>6. I * L \in Int /\ I * H = 100 * (I * L)
      BY <2>2 DEF H
    <3> DEFINE A == P * 360
               B == I * L
               C == D * 72000
               x == p * e
               y == i * s
               z == d * (e - v)
    <3>7. /\ A \in Int /\ B \in Int /\ C \in Int
          /\ x \in Int /\ x <= A /\ -A <= x
          /\ y \in Int /\ y <= 100 * B /\ -(100 * B) <= y
          /\ z \in Int /\ 100 * z <= C /\ -C <= 100 * z
      BY <2>2, <3>2, <3>4, <3>5, <3>6
    <3>8. sum = 100 * x + y + 100 * 100 * z /\ K = A + B + C
      BY DEF sum
    <3> HIDE DEF A, B, C, x, y, z, K
    <3>9. sum \in Int /\ -(100 * K) <= sum /\ sum <= 100 * K
      BY ONLY <3>7, <3>8
    <3>. QED  BY ONLY <2>2, <3>9, TruncDivBound DEF u
  <2> HIDE DEF K
  <2>10. K <= 32767
    <3> DEFINE g == F - 100
    <3>1. g \in Nat /\ F = 100 + g
      BY <2>2
    <3> HIDE DEF g
    <3>2. K * g \in Nat /\ K * F = K * 100 + K * g
      BY <2>2, <3>1
    <3>. QED  BY <2>2, <3>2
  <2>11. u \in Int16
    BY <2>9, <2>10, <2>2 DEF Int16
  <2>12. u * f \in Int /\ -3276700 <= u * f /\ u * f <= 3276700
    <3>1. f \in Nat /\ f <= F
      BY <2>2, <2>7
    <3>2. f * u \in Int /\ f * u <= F * K /\ f * u >= -(F * K)
      BY ONLY <2>2, <2>9, <3>1, ProductBound
    <3>3. F * K = K * F /\ f * u = u * f
      BY <2>2, <2>9, <3>1
    <3>4. K * F <= 3276700 /\ K * F \in Int
      BY <2>2
    <3> DEFINE w == u * f
               W == K * F
    <3>5. w \in Int /\ w <= W /\ w >= -W /\ W \in Int /\ W <= 3276700
      BY ONLY <3>2, <3>3, <3>4
    <3> HIDE DEF w, W
    <3>6. w \in Int /\ -3276700 <= w /\ w <= 3276700
      BY ONLY <3>5
    <3>. QED  BY <3>6 DEF w
  <2>13. TruncDiv(u * f, 100) \in Int16
    BY <2>12, TruncDivFits
  <2>. QED  BY <2>1, <2>6, <2>11, <2>13 DEF f
<1>2. Contribution("pos") + Contribution("spe") + Contribution("tor") \in Int16
  <2>1. Contribution("spe") = 0 /\ Contribution("tor") = 0
    BY DEF NarrowInv, Contribution
  <2>2. Contribution("pos") \in Int16 /\ Contribution("pos") \in Int
    BY DEF TypeOK, ControlTypeOK, Contribution, Int16, Pids
  <2>3. Contribution("pos") + Contribution("spe") + Contribution("tor")
          = Contribution("pos")
    BY <2>1, <2>2
  <2>. QED  BY <2>2, <2>3
<1>. QED  BY <1>1, <1>2 DEF NoOverflow, law

(* As long as only the position controller is used, with references of one *)
(* turn and gains, limits and a modulation within bounds whose products    *)
(* fit, the conversions to int16_t of the control law, its modulation and  *)
(* the fusion never wrap: whatever the bounds, the angles, the limits of   *)
(* the arc, and the order in which the registers are written (pid.c:26-163 *)
(* and main.c:131-145).                                                    *)
THEOREM NothingWraps ==
  ASSUME Paced, WholeFrames,
         NEW b \in Bounds, b["mod_fact"] >= 100, Narrow(b), PositionFrames(b)
  PROVE  Spec => []NoOverflow
<1>1. TypeOK /\ NarrowInv(b) => NoOverflow
  BY NarrowFits
<1>. QED  BY <1>1, OrderInit, OrderStep, NarrowInit, NarrowStep, TypeCorrect, PTL DEF Spec

(* What hold_reflex.c writes: gains of 30 at most, an integral limit of 50 *)
(* and no derivative.                                                      *)
HoldBounds ==
  [x \in Params |-> CASE x = "ref" -> 359
                      [] x \in {"kp", "ki"} -> 30
                      [] x = "kd" -> 0
                      [] x = "int_limit" -> 50
                      [] x = "mod_fact" -> 100]

(* The hold reflex's own orders never make the motor's command wrap.       *)
COROLLARY HoldNeverWraps ==
  ASSUME Paced, WholeFrames, PositionFrames(HoldBounds)
  PROVE  Spec => []NoOverflow
<1>1. HoldBounds \in Bounds /\ HoldBounds["mod_fact"] >= 100
  BY DEF HoldBounds, Bounds, Params
<1>2. Narrow(HoldBounds)
  BY DEF HoldBounds, Narrow, Largest, Params
<1>. QED  BY <1>1, <1>2, NothingWraps
==============================================================================
