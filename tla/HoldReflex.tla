----------------------------- MODULE HoldReflex -----------------------------
(***************************************************************************)
(* The motherboard: the world, the hold reflex, which configures servos 1  *)
(* and 3 and then makes them follow the hand that moves them until the     *)
(* robot touches the ground, and the supervisor, which signals it every    *)
(* period, feeds the world with the servos' answers and sends the orders   *)
(* that were queued.  The collision expert is abstracted to the flag that  *)
(* it raises once (CollisionExpert models it).                             *)
(*                                                                         *)
(* Angles are the counts of the magnetic sensor: the world's double angle  *)
(* is the count times angle_resolution, rounded to a float.                *)
(***************************************************************************)
EXTENDS ServoOrders, Sequences

VARIABLES
  world,      (* per servo: polarity, registers, max_torque, angle            *)
  collision,  (* collision_detected of servo 1                                *)
  hold,       (* the reflex: program counter, orders left to queue and what   *)
              (* comes after them, angles read, touched_ground                *)
  woken,      (* a signal has reached the sleeping reflex                     *)
  queue,      (* orders queued by com_queue_order                             *)
  sup         (* the supervisor: program counter and frames to handle         *)

board == <<world, collision, hold, woken, queue, sup>>

Servos == {"servo1", "servo3"}

-----------------------------------------------------------------------------
(* angle/angle_resolution, truncated.  angle_resolution is the float       *)
(* 11797738 * 2^-27; count*angle_resolution is rounded to a float's 24     *)
(* bits before it becomes a double, and when that rounds down the quotient *)
(* is just below the count.  The product is high * 4096 + low % 4096, and  *)
(* unit the value of the last of its 24 bits.                              *)
AngleToSend(count) ==
  LET mantissa == 11797738
      low  == (mantissa % 4096) * count
      high == (mantissa \div 4096) * count + low \div 4096
      unit == CHOOSE u \in {2 ^ t : t \in 0..12} :
                high < 4096 * u /\ (u > 1 => high >= 2048 * u)
      rest == low % unit
      odd  == ((low % 4096) \div unit + high * (4096 \div unit)) % 2 = 1
  IN  IF rest # 0 /\ (2 * rest < unit \/ (2 * rest = unit /\ ~odd))
      THEN count - 1 ELSE count

-----------------------------------------------------------------------------
(* Orders the reflex queues; the byte that says WRITE_0 or WRITE_1 is      *)
(* chosen when the order is queued.                                        *)
Order(servo, order, par, val) ==
  [servo |-> servo, order |-> order, par |-> par,
   pid |-> IF par \in Params THEN "pos" ELSE "none", val |-> val]

Both(order, par, val) ==
  <<Order("servo1", order, par, val["servo1"]), Order("servo3", order, par, val["servo3"])>>

Same(val) == [i \in Servos |-> val]

low_max_torque == 5
high_max_torque == 100
low_integral_limit == 10
high_integral_limit == 50

Gain(val1, val3) == [servo1 |-> val1, servo3 |-> val3]

(* Position and linear acceleration. *)
Measurements == Both("GET", "position", Same(0)) \o Both("GET", "channel", Same(0))

Configuration ==
  Both("WRITE", "mod_fact", Same(100))
    \o Both("WRITE", "kp", Gain(30, 10))
    \o Both("WRITE", "ki", Gain(30, 5))
    \o Both("WRITE", "int_limit", Same(low_integral_limit))
    \o Both("WRITE", "max_torque", Same(low_max_torque))
    \o Measurements

References(angle) == Both("WRITE", "ref", [i \in Servos |-> AngleToSend(angle[i])])

Enable == Both("PID_POS", "on", Same(0))

StiffenTorqueOnly == Both("WRITE", "max_torque", Same(high_max_torque))

Stiffen ==
  Both("WRITE", "max_torque", Same(high_max_torque))
    \o Both("WRITE", "int_limit", Same(high_integral_limit))

-----------------------------------------------------------------------------
InitBoard ==
  /\ world = [i \in Servos |-> [polarity |-> 0, reg |-> InitReg, max_torque |-> 0,
                                angle |-> 0]]
  /\ collision = FALSE
  /\ hold = [pc |-> "start", todo |-> <<>>, next |-> "start", angle |-> Same(0),
             touched |-> FALSE]
  /\ woken = FALSE
  /\ queue = <<>>
  /\ sup = [pc |-> "uplink", frames |-> <<>>]

-----------------------------------------------------------------------------
(* The hold reflex. *)

Waits == {"first", "third", "second", "last", "period"}

Sleeping == hold.pc \in Waits

(* Some orders to queue, and the program counter that comes after them. *)
Script(h, todo, next) == [h EXCEPT !.pc = "queue", !.todo = todo, !.next = next]

FirstWait ==
  /\ hold.pc = "start"
  /\ hold' = [hold EXCEPT !.pc = "first"]
  /\ UNCHANGED <<world, collision, woken, queue, sup>>

AfterTwoWaits(pc) ==
  CASE pc = "first"  -> Script(hold, Configuration, "third")
    [] pc = "third"  -> [hold EXCEPT !.pc = "last"]
    [] pc = "last"   -> [hold EXCEPT !.pc = "boot1"]
    [] pc = "period" -> [hold EXCEPT !.pc = "loop1"]

(* Three more signals are awaited between the first orders and the first   *)
(* use of what they bring back.                                            *)
AfterWait(pc) ==
  CASE pc = "first"  -> Script(hold, Configuration, "third")
    [] pc = "third"  -> [hold EXCEPT !.pc = "second"]
    [] pc = "second" -> [hold EXCEPT !.pc = "last"]
    [] pc = "last"   -> [hold EXCEPT !.pc = "boot1"]
    [] pc = "period" -> [hold EXCEPT !.pc = "loop1"]

(* The waits have no predicate: whatever ends one, the reflex goes on.     *)
WakeUp ==
  /\ Sleeping
  /\ woken' = FALSE
  /\ hold' = AfterWait(hold.pc)
  /\ UNCHANGED <<world, collision, queue, sup>>

Wake == woken /\ WakeUp

(* pthread_cond_wait may return although nobody has signalled. *)
SpuriousWake == ~woken /\ WakeUp

NextPolarityKept(polarity, order) == polarity

(* update_polarity, after a WRITE only. *)
NextPolarity(polarity, order) == IF order = "WRITE" THEN 1 - polarity ELSE polarity

(* com_queue_order, and update_polarity after a WRITE. *)
com_queue_order ==
  /\ hold.pc = "queue" /\ hold.todo # <<>>
  /\ LET order    == Head(hold.todo)
         i        == order.servo
         polarity == world[i].polarity
         byte     == IF order.order = "WRITE" THEN WriteOrder[polarity + 1] ELSE order.order
     IN  /\ queue' = Append(queue, [order EXCEPT !.order = byte])
         /\ world' = [world EXCEPT ![i].polarity = NextPolarity(polarity, order.order)]
  /\ hold' = IF Len(hold.todo) > 1 THEN [hold EXCEPT !.todo = Tail(@)]
             ELSE [hold EXCEPT !.todo = <<>>, !.pc = hold.next]
  /\ UNCHANGED <<collision, woken, sup>>

(* The angles read are not used again (so that fewer states differ). *)
Forget(h) == [h EXCEPT !.angle = Same(0)]

(* angle1 = get_position(SERVO_1); angle3 = get_position(SERVO_3); then    *)
(* the first references and the PID orders, or a period's measurements.    *)
get_position(pc, i) ==
  /\ hold.pc = pc
  /\ LET h == [hold EXCEPT !.angle[i] = world[i].angle]
     IN  hold' = CASE pc = "boot1" -> [h EXCEPT !.pc = "boot3"]
                   [] pc = "boot3" -> Script(Forget(h), References(h.angle) \o Enable, "loop1")
                   [] pc = "loop1" -> [h EXCEPT !.pc = "loop3"]
                   [] pc = "loop3" -> Script(h, Measurements, "check")
  /\ UNCHANGED <<world, collision, woken, queue, sup>>

Touch(h) == [h EXCEPT !.touched = TRUE]

GetCollisionNestedWrong ==
  /\ hold.pc = "check"
  /\ hold' = IF collision /\ ~hold.touched
             THEN Script(Forget(Touch(hold)), Stiffen, "period")
             ELSE Script(Forget(hold), References(hold.angle), "period")
  /\ UNCHANGED <<world, collision, woken, queue, sup>>

(* Before the robot touched the ground a collision stiffens the servos for *)
(* good; without one they follow the hand.  Afterwards nothing changes.    *)
get_collision ==
  /\ hold.pc = "check"
  /\ hold' = IF hold.touched THEN [Forget(hold) EXCEPT !.pc = "period"]
             ELSE IF collision THEN Script(Forget(Touch(hold)), Stiffen, "period")
             ELSE Script(Forget(hold), References(hold.angle), "period")
  /\ UNCHANGED <<world, collision, woken, queue, sup>>

GetPositions ==
  \/ get_position("boot1", "servo1") \/ get_position("boot3", "servo3")
  \/ get_position("loop1", "servo1") \/ get_position("loop3", "servo3")

Hold == FirstWait \/ Wake \/ com_queue_order \/ GetPositions \/ get_collision

-----------------------------------------------------------------------------
(* The supervisor's loop: an uplink with the period's frames, a downlink   *)
(* unless the uplink failed.                                               *)

op_new_period(frames) ==
  /\ sup.pc = "uplink"
  /\ woken' = (woken \/ Sleeping)
  /\ sup' = [pc |-> "frames", frames |-> frames]
  /\ UNCHANGED <<world, collision, hold, queue>>

(* The world's setters of one servo. *)
update_position(w, angle) == [w EXCEPT !.angle = angle]

update_register(w, par, pid, v) == [w EXCEPT !.reg = NewReg(w.reg, par, pid, v)]

update_max_torque(w, v) == [w EXCEPT !.max_torque = v]

LearnPercentage(w, f) ==
  CASE f.order = "GET" /\ f.par = "position" -> update_position(w, f.val)
    [] f.order \in WriteOrders /\ f.par \in Params ->
         update_register(w, f.par, f.pid, f.val)
    [] f.order \in WriteOrders /\ f.par = "max_torque" -> update_max_torque(w, f.val)
    [] OTHER -> w

(* What the world keeps of an answer; a maximum torque is not capped here.  *)
Learn(w, f) ==
  CASE f.order = "GET" /\ f.par = "position" -> update_position(w, f.val)
    [] f.order \in WriteOrders /\ f.par \in Params ->
         update_register(w, f.par, f.pid, f.val)
    [] f.order \in WriteOrders /\ f.par = "max_torque" ->
         update_max_torque(w, (f.val * 512) \div 100)
    [] OTHER -> w

op_recv_frame ==
  /\ sup.pc = "frames" /\ sup.frames # <<>>
  /\ LET f == Head(sup.frames) IN world' = [world EXCEPT ![f.servo] = Learn(@, f)]
  /\ sup' = [sup EXCEPT !.frames = Tail(@)]
  /\ UNCHANGED <<collision, hold, woken, queue>>

(* com_uplink returns an error, before the period has begun or with frames *)
(* of it not handled yet: the supervisor goes back to the uplink, without  *)
(* a downlink.                                                             *)
UplinkError ==
  /\ sup' = [pc |-> "uplink", frames |-> <<>>]
  /\ UNCHANGED <<world, collision, hold, woken, queue>>

com_downlink ==
  /\ sup.pc = "frames" /\ sup.frames = <<>>
  /\ queue' = <<>>
  /\ sup' = [sup EXCEPT !.pc = "uplink"]
  /\ UNCHANGED <<world, collision, hold, woken>>

(* The collision expert. *)
update_collision ==
  /\ ~collision
  /\ collision' = TRUE
  /\ UNCHANGED <<world, hold, woken, queue, sup>>
=============================================================================
