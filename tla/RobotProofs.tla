------------------------------ MODULE RobotProofs ------------------------------
(***************************************************************************)
(* The whole robot.                                                        *)
(*   - The polarity protocol: the hold reflex flips a servo's polarity     *)
(*     with every WRITE it queues and waits for no echo, and several       *)
(*     WRITEs are on their way at a time; none is dropped (RobotInv).      *)
(*   - What is on its way as one path, of which the reflex appends to the  *)
(*     end and the servos handle the head; how the measured angles reach   *)
(*     the reflex before it uses them (Measured), what a servo has before  *)
(*     it is switched on (Ready), and what stiffens it for good            *)
(*     (Stiffness).                                                        *)
(*   - What comes back: the echoes on their way, those that an uplink has  *)
(*     lost (missed), and the world (Told).                                *)
(*   - Each servo as ServoRegisters specifies it (Regs).                   *)
(* Uplinks may fail and waits end early at every point; what the angles    *)
(* and the readiness say then is weaker than without a fault, and the      *)
(* invariants say by how much.                                             *)
(***************************************************************************)
EXTENDS Robot, SequenceTheorems, TLAPS

USE DEF boards

Bits == {0, 1}

Kinds == {"GET", "PID_POS"}

Tags == Pids \union {"none"}

(* What the reflex has still to queue, and what is queued or transmitted. *)
Pending == [servo : Servos, order : Kinds \union {"WRITE"}, par : Infos, pid : Tags, val : Int]

Sent == [servo : Servos, order : Kinds \union WriteOrders, par : Infos, pid : Tags, val : Int]

IsWrite(ord, i) == ord.servo = i /\ ord.order \in WriteOrders

-----------------------------------------------------------------------------
(* Expected(p, s, i): p[k] is the polarity that servo i expects when the    *)
(* k-th order of s arrives.                                                 *)
Expected(p, s, i) ==
  \A k \in 1..Len(s) :
    IF IsWrite(s[k], i) THEN Accepts(p[k], s[k].order) /\ p[k + 1] = 1 - p[k]
    ELSE p[k + 1] = p[k]

(* The orders of s lead servo i from one polarity to another, and none of   *)
(* its WRITEs is dropped.                                                   *)
Leads(s, i, from, to) ==
  \E p \in [Nat -> Bits] : p[1] = from /\ p[Len(s) + 1] = to /\ Expected(p, s, i)

(* No order leads nowhere. *)
LEMMA LeadsNowhere ==
  ASSUME NEW i \in Servos, NEW b \in Bits
  PROVE  Leads(<<>>, i, b, b)
<1>1. [n \in Nat |-> b] \in [Nat -> Bits]
  OBVIOUS
<1>2. Expected([n \in Nat |-> b], <<>>, i)
  BY DEF Expected
<1>. QED  BY <1>1, <1>2 DEF Leads

(* One more order, a WRITE with the polarity reached so far, leads one    *)
(* flip further.                                                          *)
LEMMA LeadsAppend ==
  ASSUME NEW s \in Seq(Sent), NEW i \in Servos, NEW x \in Sent,
         NEW from \in Bits, NEW to \in Bits,
         Leads(s, i, from, to),
         IsWrite(x, i) => Accepts(to, x.order)
  PROVE  Leads(Append(s, x), i, from, IF IsWrite(x, i) THEN 1 - to ELSE to)
<1>. DEFINE n == Len(s) + 1
            next == IF IsWrite(x, i) THEN 1 - to ELSE to
<1>1. PICK p \in [Nat -> Bits] : p[1] = from /\ p[n] = to /\ Expected(p, s, i)
  BY DEF Leads
<1>2. n \in Nat /\ n >= 1 /\ next \in Bits
  BY LenProperties DEF Bits
<1>. DEFINE q == [k \in Nat |-> IF k = n + 1 THEN next ELSE p[k]]
<1>3. q \in [Nat -> Bits]
  BY <1>1, <1>2
<1>4. Len(Append(s, x)) = n /\ Append(s, x)[n] = x
      /\ \A k \in 1..Len(s) : Append(s, x)[k] = s[k]
  BY DEF Sent
<1>5. q[1] = from /\ q[n + 1] = next /\ q[n] = to
  BY <1>1, <1>2
<1>. HIDE DEF next
<1>6. ASSUME NEW k \in 1..n
      PROVE  IF IsWrite(Append(s, x)[k], i)
             THEN Accepts(q[k], Append(s, x)[k].order) /\ q[k + 1] = 1 - q[k]
             ELSE q[k + 1] = q[k]
  <2>1. CASE k = n
    BY <1>4, <1>5, <2>1 DEF next
  <2>2. CASE k # n
    <3>1. k \in 1..Len(s) /\ q[k] = p[k] /\ q[k + 1] = p[k + 1]
      BY <1>2, <2>2
    <3>. QED  BY <1>1, <1>4, <3>1 DEF Expected
  <2>. QED  BY <2>1, <2>2
<1>. HIDE DEF q
<1>7. Expected(q, Append(s, x), i)
  BY <1>4, <1>6 DEF Expected
<1>. QED  BY <1>3, <1>4, <1>5, <1>7 DEF Leads, next

(* The first WRITE has the polarity the servo expects; the rest leads on  *)
(* from its flip.                                                         *)
LEMMA LeadsTail ==
  ASSUME NEW s \in Seq(Sent), NEW i \in Servos, s # <<>>,
         NEW from \in Bits, NEW to \in Bits,
         Leads(s, i, from, to)
  PROVE  /\ IsWrite(Head(s), i) => Accepts(from, Head(s).order)
         /\ Leads(Tail(s), i, IF IsWrite(Head(s), i) THEN 1 - from ELSE from, to)
<1>1. PICK p \in [Nat -> Bits] : p[1] = from /\ p[Len(s) + 1] = to /\ Expected(p, s, i)
  BY DEF Leads
<1>2. /\ Len(s) \in Nat /\ Len(s) >= 1
      /\ Len(Tail(s)) = Len(s) - 1
      /\ Head(s) = s[1]
      /\ \A k \in 1..Len(Tail(s)) : Tail(s)[k] = s[k + 1]
  BY HeadTailProperties, LenProperties, EmptySeq
<1>3. IF IsWrite(Head(s), i) THEN Accepts(from, Head(s).order) /\ p[2] = 1 - from
      ELSE p[2] = from
  <2>1. 1 \in 1..Len(s) /\ 1 + 1 = 2
    BY <1>2
  <2>. QED  BY <1>1, <1>2, <2>1 DEF Expected
<1>. DEFINE q == [k \in Nat |-> p[k + 1]]
<1>4. q \in [Nat -> Bits] /\ q[1] = p[2] /\ q[Len(Tail(s)) + 1] = to
  BY <1>1, <1>2
<1>5. ASSUME NEW k \in 1..Len(Tail(s))
      PROVE  IF IsWrite(Tail(s)[k], i)
             THEN Accepts(q[k], Tail(s)[k].order) /\ q[k + 1] = 1 - q[k]
             ELSE q[k + 1] = q[k]
  <2>1. k + 1 \in 1..Len(s) /\ q[k] = p[k + 1] /\ q[k + 1] = p[(k + 1) + 1]
    BY <1>2
  <2>. QED  BY <1>1, <1>2, <2>1 DEF Expected
<1>. HIDE DEF q
<1>6. Expected(q, Tail(s), i)
  BY <1>5 DEF Expected
<1>7. Leads(Tail(s), i, IF IsWrite(Head(s), i) THEN 1 - from ELSE from, to)
  BY <1>3, <1>4, <1>6 DEF Leads
<1>. QED  BY <1>3, <1>7

-----------------------------------------------------------------------------
(* Where the reflex may be. *)
Places == {"start", "queue", "boot1", "boot3", "loop1", "loop3", "check"} \union Waits

Registers == [Pids -> [Params -> Int]]

BoardType ==
  /\ world \in [Servos -> [polarity : Bits, reg : Registers, max_torque : Int, angle : Int]]
  /\ hold \in [pc : Places, todo : Seq(Pending), next : Places,
               angle : [Servos -> Int], touched : BOOLEAN]
  /\ queue \in Seq(Sent)
  /\ sup \in [pc : {"uplink", "frames"}, frames : Seq(Sent)]

LinkType ==
  /\ bus \in Seq(Sent)
  /\ answers \in Seq(Sent)
  /\ servo \in [Servos -> [polarity : Bits, reg : Registers, max_torque : Int,
                           enabled : BOOLEAN, has_been_set : BOOLEAN]]

(* What is on its way leads each servo's polarity to the world's. *)
InStep ==
  \A i \in Servos : Leads(bus \o queue, i, servo[i].polarity, world[i].polarity)

RobotInv == BoardType /\ LinkType /\ InStep

(* At power-up both ends expect polarity 0 and nothing is on its way. *)
LEMMA InitInStep == Init => RobotInv
<1>. SUFFICES ASSUME Init PROVE RobotInv
  OBVIOUS
<1>. USE DEF Init, InitBoard
<1>1. InitReg \in Registers
  BY DEF InitReg, Registers
<1>2. <<>> \in Seq(Sent) /\ <<>> \in Seq(Pending)
  BY EmptySeq
<1>3. Same(0) \in [Servos -> Int]
  BY DEF Same
<1>4. BoardType
  BY <1>1, <1>2, <1>3 DEF BoardType, Bits, Places, Waits
<1>5. LinkType
  BY <1>1, <1>2 DEF LinkType, Bits
<1>6. bus \o queue = <<>>
  BY <1>2, ConcatEmptySeq
<1>7. InStep
  <2>. SUFFICES ASSUME NEW i \in Servos
                PROVE  Leads(bus \o queue, i, servo[i].polarity, world[i].polarity)
    BY DEF InStep
  <2>1. servo[i].polarity = 0 /\ world[i].polarity = 0
    OBVIOUS
  <2>. QED  BY <1>6, <2>1, LeadsNowhere DEF Bits
<1>. QED  BY <1>4, <1>5, <1>7 DEF RobotInv

(* The world's and the servos' registers keep their shape. *)
LEMMA NewRegType ==
  ASSUME NEW reg \in Registers, NEW par \in Infos, NEW pid \in Tags, NEW v \in Int
  PROVE  NewReg(reg, par, pid, v) \in Registers
BY DEF NewReg, Registers

(* What a servo reads of a payload, and what it writes back, are integers. *)
LEMMA PayloadType ==
  ASSUME NEW par, NEW pid, NEW val \in Int
  PROVE  /\ Payload(par, pid, val) \in Int
         /\ \A v \in Int : WrittenBack(par, pid, v) \subseteq Int
<1>1. ToInt16(val) \in Int /\ val % 256 \in Int /\ val % 65536 \in Int
  BY DEF ToInt16
<1>2. Payload(par, pid, val) \in Int
  BY <1>1 DEF Payload
<1>3. \A v \in Int : v % 65536 \in Int
  OBVIOUS
<1>. QED  BY <1>2, <1>3 DEF WrittenBack

(* The answer to a WRITE that is handled: its order, and what was written  *)
(* back.                                                                   *)
LEMMA WriteAnswer ==
  ASSUME NEW ord \in Sent, HandleWrite(ord)
  PROVE  \E echo \in Int :
           /\ echo \in WrittenBack(ord.par, ord.pid, Payload(ord.par, ord.pid, ord.val))
           /\ [ord EXCEPT !.val = echo] \in Sent
           /\ answers' = IF Accepts(servo[ord.servo].polarity, ord.order)
                         THEN Append(answers, [ord EXCEPT !.val = echo]) ELSE answers
<1>. DEFINE v == Payload(ord.par, ord.pid, ord.val)
<1>1. v \in Int /\ WrittenBack(ord.par, ord.pid, v) \subseteq Int
  <2>1. ord.val \in Int
    BY DEF Sent
  <2>. QED  BY <2>1, PayloadType
<1>2. PICK echo \in WrittenBack(ord.par, ord.pid, v) :
        answers' = IF Accepts(servo[ord.servo].polarity, ord.order)
                   THEN Append(answers, [ord EXCEPT !.val = echo]) ELSE answers
  BY DEF HandleWrite
<1>. HIDE DEF v
<1>3. [ord EXCEPT !.val = echo] \in Sent
  BY <1>1, <1>2 DEF Sent
<1>. QED  BY <1>1, <1>2, <1>3 DEF v

(* Conditional writes to a servo's polarity and the types of what it keeps. *)
LEMMA WrittenType ==
  ASSUME LinkType, NEW ord \in Sent
  PROVE  LET i == ord.servo  s == servo[i]  t == Written(s, ord)
         IN  /\ t \in [polarity : Bits, reg : Registers, max_torque : Int,
                        enabled : BOOLEAN, has_been_set : BOOLEAN]
             /\ t.polarity = IF Accepts(s.polarity, ord.order) THEN 1 - s.polarity
                             ELSE s.polarity
<1>. DEFINE i == ord.servo
            s == servo[i]
            v == Payload(ord.par, ord.pid, ord.val)
<1>1. /\ i \in Servos /\ ord.par \in Infos /\ ord.pid \in Tags /\ ord.val \in Int
      /\ s \in [polarity : Bits, reg : Registers, max_torque : Int,
                enabled : BOOLEAN, has_been_set : BOOLEAN]
  BY DEF LinkType, Sent
<1>2. v \in Int
  BY <1>1, PayloadType
<1>3. NewReg(s.reg, ord.par, ord.pid, v) \in Registers
  BY <1>1, <1>2, NewRegType
<1>4. NewMaxTorque(s.max_torque, ord.par, v) \in Int
  BY <1>1, <1>2 DEF NewMaxTorque, MaxTorque
<1>5. 1 - s.polarity \in Bits
  BY <1>1 DEF Bits
<1>6. (s.has_been_set \/ ord.par = "ref") \in BOOLEAN
  OBVIOUS
<1>. HIDE DEF i, s, v
<1>. QED  BY <1>1, <1>3, <1>4, <1>5, <1>6 DEF Written, i, s, v

-----------------------------------------------------------------------------
(* A count is sent as itself or as one less. *)
LEMMA AngleNear ==
  ASSUME NEW n \in Int
  PROVE  AngleToSend(n) \in {n - 1, n} /\ AngleToSend(n) \in Int
<1>1. AngleToSend(n) = n - 1 \/ AngleToSend(n) = n
  BY SMT DEF AngleToSend
<1>. QED  BY <1>1

(* The zero that the world begins with is sent as itself. *)
LEMMA AngleZero == AngleToSend(0) = 0
<1>. DEFINE Ends(high, u) == high < 4096 * u /\ (u > 1 => high >= 2048 * u)
            units == {2 ^ t : t \in 0..12}
            unit == CHOOSE u \in units : Ends(0, u)
<1>1. 2 ^ 0 = 1 /\ 1 \in units /\ Ends(0, 1)
  <2>1. 2 ^ 0 = 1
    BY SMT
  <2>. QED  BY <2>1
<1>2. \A u \in units : u \in Int
  <2>1. \A t \in Nat : 2 ^ t \in Int
    BY SMT
  <2>. QED  BY <2>1
<1>3. unit = 1
  <2>1. unit \in units /\ Ends(0, unit)
    <3>. HIDE DEF units, Ends
    <3>. QED  BY <1>1
  <2>2. \A u \in Int : Ends(0, u) => u = 1
    OBVIOUS
  <2>. HIDE DEF units, unit, Ends
  <2>. QED  BY <1>2, <2>1, <2>2
<1>4. 0 % 1 = 0
  OBVIOUS
<1>5. /\ (11797738 % 4096) * 0 = 0
      /\ (11797738 \div 4096) * 0 + 0 \div 4096 = 0
  BY SMT
<1>. HIDE DEF unit
<1>6. AngleToSend(0) =
        LET odd == ((0 % 4096) \div unit + 0 * (4096 \div unit)) % 2 = 1
        IN  IF 0 % unit # 0 /\ (2 * (0 % unit) < unit \/ (2 * (0 % unit) = unit /\ ~odd))
            THEN 0 - 1 ELSE 0
  BY <1>5, SMT DEF AngleToSend, unit, units, Ends
<1>. QED  BY <1>3, <1>4, <1>6, SMT

(* The orders of the reflex's script are well formed. *)
LEMMA BothType ==
  ASSUME NEW order \in Kinds \union {"WRITE"}, NEW par \in Infos, NEW val \in [Servos -> Int]
  PROVE  Both(order, par, val) \in Seq(Pending)
<1>1. ASSUME NEW i \in Servos PROVE Order(i, order, par, val[i]) \in Pending
  BY <1>1 DEF Order, Pending, Tags, Pids
<1>2. "servo1" \in Servos /\ "servo3" \in Servos
  BY DEF Servos
<1>. QED  BY <1>1, <1>2 DEF Both

(* The scripts of the reflex are sequences of orders. *)
LEMMA ScriptsType ==
  /\ Measurements \in Seq(Pending)
  /\ Configuration \in Seq(Pending)
  /\ Enable \in Seq(Pending)
  /\ Stiffen \in Seq(Pending)
  /\ \A angle \in [Servos -> Int] : References(angle) \in Seq(Pending)
<1>1. {"position", "channel", "mod_fact", "kp", "ki", "int_limit", "max_torque", "ref", "on"}
        \subseteq Infos
  BY DEF Infos, Measures, Params
<1>2. {"GET", "PID_POS", "WRITE"} \subseteq Kinds \union {"WRITE"}
  BY DEF Kinds
<1>3. /\ Same(0) \in [Servos -> Int] /\ Same(100) \in [Servos -> Int]
      /\ Same(low_integral_limit) \in [Servos -> Int]
      /\ Same(low_max_torque) \in [Servos -> Int]
      /\ Same(high_integral_limit) \in [Servos -> Int]
      /\ Same(high_max_torque) \in [Servos -> Int]
      /\ Gain(30, 10) \in [Servos -> Int] /\ Gain(30, 5) \in [Servos -> Int]
  BY DEF Same, Gain, Servos, low_integral_limit, low_max_torque, high_integral_limit,
         high_max_torque
<1>4. \A s, t \in Seq(Pending) : s \o t \in Seq(Pending)
  BY ConcatProperties
<1>5. Measurements \in Seq(Pending)
  <2>1. /\ Both("GET", "position", Same(0)) \in Seq(Pending)
        /\ Both("GET", "channel", Same(0)) \in Seq(Pending)
    BY <1>1, <1>2, <1>3, BothType
  <2>. QED  BY <1>4, <2>1 DEF Measurements
<1>6. Configuration \in Seq(Pending)
  <2>1. /\ Both("WRITE", "mod_fact", Same(100)) \in Seq(Pending)
        /\ Both("WRITE", "kp", Gain(30, 10)) \in Seq(Pending)
        /\ Both("WRITE", "ki", Gain(30, 5)) \in Seq(Pending)
        /\ Both("WRITE", "int_limit", Same(low_integral_limit)) \in Seq(Pending)
        /\ Both("WRITE", "max_torque", Same(low_max_torque)) \in Seq(Pending)
    BY <1>1, <1>2, <1>3, BothType
  <2>. QED  BY <1>4, <1>5, <2>1 DEF Configuration
<1>7. Enable \in Seq(Pending)
  BY <1>1, <1>2, <1>3, BothType DEF Enable
<1>8. Stiffen \in Seq(Pending)
  <2>1. /\ Both("WRITE", "max_torque", Same(high_max_torque)) \in Seq(Pending)
        /\ Both("WRITE", "int_limit", Same(high_integral_limit)) \in Seq(Pending)
    BY <1>1, <1>2, <1>3, BothType
  <2>. QED  BY <1>4, <2>1 DEF Stiffen
<1>9. ASSUME NEW angle \in [Servos -> Int] PROVE References(angle) \in Seq(Pending)
  <2>1. ASSUME NEW n \in Int PROVE AngleToSend(n) \in Int
    BY <2>1, AngleNear
  <2>2. [i \in Servos |-> AngleToSend(angle[i])] \in [Servos -> Int]
    BY <2>1
  <2>. QED  BY <1>1, <1>2, <2>2, BothType DEF References
<1>. QED  BY <1>5, <1>6, <1>7, <1>8, <1>9

-----------------------------------------------------------------------------
(* An order queued at the end of the queue is at the end of the whole. *)
LEMMA AppendInQueue ==
  ASSUME NEW S, NEW s \in Seq(S), NEW t \in Seq(S), NEW x \in S
  PROVE  s \o Append(t, x) = Append(s \o t, x)
<1>1. s \o t \in Seq(S) /\ Append(t, x) \in Seq(S)
  BY ConcatProperties
<1>2. s \o Append(t, x) \in Seq(S) /\ Append(s \o t, x) \in Seq(S)
  BY <1>1, ConcatProperties
<1>3. Len(s \o Append(t, x)) = Len(Append(s \o t, x))
  BY <1>1, ConcatProperties
<1>4. ASSUME NEW k \in 1..Len(s \o Append(t, x))
      PROVE  (s \o Append(t, x))[k] = Append(s \o t, x)[k]
  <2>1. Len(s) \in Nat /\ Len(t) \in Nat /\ Len(Append(t, x)) = Len(t) + 1
        /\ Len(s \o t) = Len(s) + Len(t)
    BY ConcatProperties, LenProperties
  <2>2. k \in 1..Len(s) + Len(Append(t, x))
    BY <1>1, ConcatProperties
  <2>3. CASE k = Len(s) + Len(t) + 1
    BY <1>1, <2>1, <2>2, <2>3, ConcatProperties
  <2>4. CASE k # Len(s) + Len(t) + 1
    BY <1>1, <2>1, <2>2, <2>4, ConcatProperties
  <2>. QED  BY <2>3, <2>4
<1>. QED  BY <1>2, <1>3, <1>4, SeqEqual

(* The bus's first order is the first of the whole. *)
LEMMA TailOfBus ==
  ASSUME NEW S, NEW s \in Seq(S), NEW t \in Seq(S), s # <<>>
  PROVE  s \o t # <<>> /\ Head(s \o t) = Head(s) /\ Tail(s \o t) = Tail(s) \o t
<1>1. /\ s \o t \in Seq(S)
      /\ Len(s \o t) = Len(s) + Len(t)
      /\ \A k \in 1..Len(s) + Len(t) :
           (s \o t)[k] = IF k <= Len(s) THEN s[k] ELSE t[k - Len(s)]
  BY ConcatProperties
<1>2. Len(s) \in Nat /\ Len(s) >= 1 /\ Len(t) \in Nat
  BY LenProperties, EmptySeq
<1>3. s \o t # <<>>
  BY ConcatEqualIffEmpty
<1>4. Head(s \o t) = Head(s)
  BY <1>1, <1>2
<1>5. /\ Tail(s) \in Seq(S) /\ Len(Tail(s)) = Len(s) - 1
      /\ \A k \in 1..Len(Tail(s)) : Tail(s)[k] = s[k + 1]
  BY HeadTailProperties
<1>6. /\ Tail(s \o t) \in Seq(S) /\ Len(Tail(s \o t)) = Len(s) + Len(t) - 1
      /\ \A k \in 1..Len(Tail(s \o t)) : Tail(s \o t)[k] = (s \o t)[k + 1]
  BY <1>1, <1>3, HeadTailProperties
<1>7. /\ Tail(s) \o t \in Seq(S) /\ Len(Tail(s) \o t) = Len(s) - 1 + Len(t)
      /\ \A k \in 1..Len(Tail(s)) + Len(t) :
           (Tail(s) \o t)[k] = IF k <= Len(Tail(s)) THEN Tail(s)[k] ELSE t[k - Len(Tail(s))]
  BY <1>5, ConcatProperties
<1>8. ASSUME NEW k \in 1..Len(Tail(s \o t))
      PROVE  Tail(s \o t)[k] = (Tail(s) \o t)[k]
  <2>1. /\ k \in 1..Len(Tail(s)) + Len(t) /\ k + 1 \in 1..Len(s) + Len(t)
        /\ (k + 1) - Len(s) = k - Len(Tail(s))
        /\ k + 1 <= Len(s) <=> k <= Len(Tail(s))
    BY <1>2, <1>5, <1>6
  <2>2. Tail(s \o t)[k] = (s \o t)[k + 1]
    BY <1>6
  <2>3. CASE k + 1 <= Len(s)
    <3>1. k \in 1..Len(Tail(s))
      BY <1>2, <1>5, <2>1, <2>3
    <3>. QED  BY <1>1, <1>5, <1>7, <2>1, <2>2, <2>3, <3>1
  <2>4. CASE ~(k + 1 <= Len(s))
    BY <1>1, <1>7, <2>1, <2>2, <2>4
  <2>. QED  BY <2>3, <2>4
<1>. QED  BY <1>3, <1>4, <1>6, <1>7, <1>8, SeqEqual

-----------------------------------------------------------------------------
(* The polarities and what is on its way are left alone. *)
LEMMA StaysInStep ==
  ASSUME InStep, bus' = bus, queue' = queue, servo' = servo,
         \A i \in Servos : world'[i].polarity = world[i].polarity
  PROVE  InStep'
BY DEF InStep

(* An uplink brings answers and moves no order. *)
LEMMA UplinkInStep == RobotInv /\ Uplink => RobotInv'
<1>. SUFFICES ASSUME RobotInv, Uplink PROVE RobotInv'
  OBVIOUS
<1>. USE DEF RobotInv, Uplink, op_new_period
<1>1. <<>> \in Seq(Sent)
  BY EmptySeq
<1>2. BoardType' /\ LinkType'
  BY <1>1 DEF BoardType, LinkType
<1>3. InStep'
  BY StaysInStep
<1>. QED  BY <1>2, <1>3

(* An uplink that fails loses answers but no order. *)
LEMMA FailureInStep == RobotInv /\ UplinkFails => RobotInv'
<1>. SUFFICES ASSUME RobotInv, UplinkFails PROVE RobotInv'
  OBVIOUS
<1>. USE DEF RobotInv, UplinkFails, UplinkError
<1>1. <<>> \in Seq(Sent)
  BY EmptySeq
<1>2. BoardType' /\ LinkType'
  BY <1>1 DEF BoardType, LinkType
<1>3. InStep'
  BY StaysInStep
<1>. QED  BY <1>2, <1>3

(* A downlink moves the queue to the end of the bus. *)
LEMMA DownlinkInStep == RobotInv /\ Downlink => RobotInv'
<1>. SUFFICES ASSUME RobotInv, Downlink PROVE RobotInv'
  OBVIOUS
<1>. USE DEF RobotInv, Downlink, com_downlink
<1>1. <<>> \in Seq(Sent) /\ bus \o queue \in Seq(Sent)
  BY EmptySeq, ConcatProperties DEF BoardType, LinkType
<1>2. BoardType' /\ LinkType'
  BY <1>1 DEF BoardType, LinkType
<1>3. bus' \o queue' = bus \o queue
  BY <1>1, ConcatEmptySeq
<1>4. InStep'
  BY <1>3 DEF InStep
<1>. QED  BY <1>2, <1>4

(* A collision touches no order. *)
LEMMA CollideInStep == RobotInv /\ Collide => RobotInv'
<1>. SUFFICES ASSUME RobotInv, Collide PROVE RobotInv'
  OBVIOUS
<1>. USE DEF RobotInv, Collide, update_collision
<1>1. BoardType' /\ LinkType'
  BY DEF BoardType, LinkType
<1>2. InStep'
  BY StaysInStep
<1>. QED  BY <1>1, <1>2

(* An answer changes what the world knows, but not its polarities. *)
LEMMA ReceiveInStep == RobotInv /\ ReceiveFrame => RobotInv'
<1>. SUFFICES ASSUME RobotInv, ReceiveFrame PROVE RobotInv'
  OBVIOUS
<1>. USE DEF RobotInv, ReceiveFrame, op_recv_frame
<1>. DEFINE f == Head(sup.frames)
            w == world[f.servo]
            Servo1 == [polarity : Bits, reg : Registers, max_torque : Int, angle : Int]
<1>1. f \in Sent /\ Tail(sup.frames) \in Seq(Sent)
  BY HeadTailProperties DEF BoardType
<1>2. /\ f.servo \in Servos /\ f.par \in Infos /\ f.pid \in Tags /\ f.val \in Int
      /\ w \in Servo1
  BY <1>1 DEF Sent, BoardType
<1>3. NewReg(w.reg, f.par, f.pid, f.val) \in Registers
  BY <1>2, NewRegType
<1>4. (f.val * 512) \div 100 \in Int
  BY <1>2
<1>5. Learn(w, f) \in Servo1 /\ Learn(w, f).polarity = w.polarity
  <2>. HIDE DEF f, w
  <2>. QED  BY <1>2, <1>3, <1>4
            DEF Learn, update_position, update_register, update_max_torque
<1>6. world' = [world EXCEPT ![f.servo] = Learn(w, f)]
  OBVIOUS
<1>7. BoardType' /\ LinkType'
  <2>. HIDE DEF f, w
  <2>1. world' \in [Servos -> Servo1]
    BY <1>2, <1>5, <1>6 DEF BoardType
  <2>2. sup' \in [pc : {"uplink", "frames"}, frames : Seq(Sent)]
    BY <1>1 DEF BoardType
  <2>. QED  BY <2>1, <2>2 DEF BoardType, LinkType
<1>8. \A i \in Servos : world'[i].polarity = world[i].polarity
  <2>. HIDE DEF f
  <2>. QED  BY <1>2, <1>5, <1>6 DEF BoardType
<1>9. InStep'
  BY <1>8, StaysInStep
<1>. QED  BY <1>7, <1>9

-----------------------------------------------------------------------------
(* A servo expects the WRITE that arrives. *)
LEMMA HeadAccepted ==
  ASSUME RobotInv, bus # <<>>
  PROVE  LET ord == Head(bus)
         IN  /\ ord \in Sent /\ Tail(bus) \in Seq(Sent)
             /\ ord.order \in WriteOrders => Accepts(servo[ord.servo].polarity, ord.order)
             /\ \A i \in Servos :
                  Leads(Tail(bus) \o queue, i,
                        IF IsWrite(ord, i) THEN 1 - servo[i].polarity ELSE servo[i].polarity,
                        world[i].polarity)
<1>. DEFINE ord == Head(bus)
            s == bus \o queue
<1>1. bus \in Seq(Sent) /\ queue \in Seq(Sent) /\ s \in Seq(Sent)
  BY ConcatProperties DEF RobotInv, BoardType, LinkType
<1>2. s # <<>> /\ Head(s) = ord /\ Tail(s) = Tail(bus) \o queue
  BY <1>1, TailOfBus
<1>3. ord \in Sent /\ Tail(bus) \in Seq(Sent)
  BY <1>1, HeadTailProperties
<1>4. ASSUME NEW i \in Servos
      PROVE  /\ IsWrite(ord, i) => Accepts(servo[i].polarity, ord.order)
             /\ Leads(Tail(bus) \o queue, i,
                      IF IsWrite(ord, i) THEN 1 - servo[i].polarity ELSE servo[i].polarity,
                      world[i].polarity)
  <2>1. servo[i].polarity \in Bits /\ world[i].polarity \in Bits
    BY DEF RobotInv, BoardType, LinkType
  <2>2. Leads(s, i, servo[i].polarity, world[i].polarity)
    BY DEF RobotInv, InStep
  <2>. HIDE DEF s, ord
  <2>. QED  BY <1>1, <1>2, <2>1, <2>2, LeadsTail
<1>5. ord.servo \in Servos
  BY <1>3 DEF Sent
<1>. QED  BY <1>3, <1>4, <1>5 DEF IsWrite

(* The servo flips its polarity with the WRITE that leaves the bus. *)
LEMMA TransmitInStep == RobotInv /\ Transmit => RobotInv'
<1>. SUFFICES ASSUME RobotInv, Transmit PROVE RobotInv'
  OBVIOUS
<1>. DEFINE ord == Head(bus)
            Servo1 == [polarity : Bits, reg : Registers, max_torque : Int,
                       enabled : BOOLEAN, has_been_set : BOOLEAN]
<1>1. /\ ord \in Sent /\ Tail(bus) \in Seq(Sent)
      /\ ord.order \in WriteOrders => Accepts(servo[ord.servo].polarity, ord.order)
      /\ \A i \in Servos :
           Leads(Tail(bus) \o queue, i,
                 IF IsWrite(ord, i) THEN 1 - servo[i].polarity ELSE servo[i].polarity,
                 world[i].polarity)
  BY HeadAccepted DEF Transmit
<1>2. ord.servo \in Servos /\ ord.par \in Infos /\ ord.pid \in Tags /\ ord.val \in Int
  BY <1>1 DEF Sent
<1>3. bus' = Tail(bus) /\ world' = world /\ queue' = queue /\ BoardType'
  BY DEF Transmit, RobotInv, BoardType, board
<1>4. LinkType /\ BoardType
  BY DEF RobotInv
<1>5. ASSUME NEW count \in Counts[ord.servo], HandleGet(ord, count)
      PROVE  LinkType' /\ InStep'
  <2>1. count \in Int
    BY <1>2, CountsAssumption
  <2>2. [ord EXCEPT !.val = count] \in Sent
    BY <1>1, <2>1 DEF Sent
  <2>3. servo' = servo /\ answers' = Append(answers, [ord EXCEPT !.val = count])
    BY <1>5 DEF HandleGet
  <2>4. answers' \in Seq(Sent)
    <3>. HIDE DEF ord
    <3>. QED  BY <1>4, <2>2, <2>3 DEF LinkType
  <2>5. LinkType'
    BY <1>1, <1>3, <1>4, <2>3, <2>4 DEF LinkType
  <2>6. \A i \in Servos : ~IsWrite(ord, i)
    BY <1>5 DEF HandleGet, IsWrite, WriteOrders
  <2>. HIDE DEF ord
  <2>7. InStep'
    BY <1>1, <1>3, <2>3, <2>6 DEF InStep
  <2>. QED  BY <2>5, <2>7
<1>6. ASSUME HandleWrite(ord)
      PROVE  LinkType' /\ InStep'
  <2>1. /\ ord.order \in WriteOrders
        /\ servo' = [servo EXCEPT ![ord.servo] = Written(servo[ord.servo], ord)]
    BY <1>6 DEF HandleWrite
  <2>2. answers' \in Seq(Sent)
    <3>1. PICK echo \in Int :
            /\ [ord EXCEPT !.val = echo] \in Sent
            /\ \/ answers' = Append(answers, [ord EXCEPT !.val = echo])
               \/ answers' = answers
      BY <1>1, <1>6, WriteAnswer
    <3>. DEFINE x == [ord EXCEPT !.val = echo]
    <3>2. x \in Sent /\ (answers' = Append(answers, x) \/ answers' = answers)
      BY <3>1
    <3>. HIDE DEF x
    <3>. QED  BY <1>4, <3>2 DEF LinkType
  <2>3. /\ Written(servo[ord.servo], ord) \in Servo1
        /\ Written(servo[ord.servo], ord).polarity = 1 - servo[ord.servo].polarity
    BY <1>1, <1>4, <2>1, WrittenType
  <2>. HIDE DEF ord
  <2>4. servo \in [Servos -> Servo1]
    BY <1>4 DEF LinkType
  <2>5. servo' \in [Servos -> Servo1]
    <3>. HIDE DEF Servo1
    <3>. QED  BY <1>2, <2>1, <2>3, <2>4
  <2>6. \A i \in Servos : servo'[i].polarity =
          IF IsWrite(ord, i) THEN 1 - servo[i].polarity ELSE servo[i].polarity
    <3>. HIDE DEF Servo1
    <3>. QED  BY <1>2, <2>1, <2>3, <2>4 DEF IsWrite
  <2>7. LinkType'
    BY <1>1, <1>3, <2>2, <2>5 DEF LinkType
  <2>8. InStep'
    BY <1>1, <1>3, <2>6 DEF InStep
  <2>. QED  BY <2>7, <2>8
<1>7. ASSUME HandlePid(ord)
      PROVE  LinkType' /\ InStep'
  <2>1. ord.order = "PID_POS" /\ answers' = answers
        /\ servo' = [servo EXCEPT ![ord.servo].enabled = ord.par # "off",
                                  ![ord.servo].has_been_set = @ /\ ord.par # "off"]
    BY <1>7 DEF HandlePid
  <2>. DEFINE s == servo[ord.servo]
              on == ord.par # "off"
              set == s.has_been_set /\ ord.par # "off"
              t == [s EXCEPT !.enabled = on, !.has_been_set = set]
  <2>2. servo' = [servo EXCEPT ![ord.servo] = t]
    BY <2>1
  <2>3. on \in BOOLEAN /\ set \in BOOLEAN
    OBVIOUS
  <2>4. s \in Servo1
    BY <1>2, <1>4 DEF LinkType
  <2>5. t \in Servo1 /\ t.polarity = s.polarity
    <3>. HIDE DEF s, on, set
    <3>. QED  BY <2>3, <2>4
  <2>. HIDE DEF ord, t
  <2>6. servo' \in [Servos -> Servo1]
    <3>. HIDE DEF Servo1
    <3>1. servo \in [Servos -> Servo1]
      BY <1>4 DEF LinkType, Servo1
    <3>. QED  BY <1>2, <2>2, <2>5, <3>1
  <2>7. \A i \in Servos : servo'[i].polarity = servo[i].polarity
    BY <1>2, <1>4, <2>2, <2>5 DEF LinkType
  <2>8. LinkType'
    BY <1>1, <1>3, <1>4, <2>1, <2>6 DEF LinkType
  <2>9. \A i \in Servos : ~IsWrite(ord, i)
    BY <2>1 DEF IsWrite, WriteOrders
  <2>10. InStep'
    BY <1>1, <1>3, <2>7, <2>9 DEF InStep
  <2>. QED  BY <2>8, <2>10
<1>. HIDE DEF ord
<1>8. \/ \E count \in Counts[ord.servo] : HandleGet(ord, count)
      \/ HandleWrite(ord)
      \/ HandlePid(ord)
  BY DEF Transmit, ord
<1>. QED  BY <1>3, <1>5, <1>6, <1>7, <1>8 DEF RobotInv

-----------------------------------------------------------------------------
(* A WRITE is queued with the polarity that the servo will expect when it   *)
(* arrives, because everything before it will have arrived.                 *)
LEMMA QueueInStep ==
  RobotInv /\ com_queue_order /\ UNCHANGED <<bus, answers, servo>> => RobotInv'
<1>. SUFFICES ASSUME RobotInv, com_queue_order, UNCHANGED <<bus, answers, servo>>
              PROVE  RobotInv'
  OBVIOUS
<1>. DEFINE order == Head(hold.todo)
            j == order.servo
            polarity == world[j].polarity
            byte == IF order.order = "WRITE" THEN WriteOrder[polarity + 1] ELSE order.order
            next == NextPolarity(polarity, order.order)
            x == [order EXCEPT !.order = byte]
<1>1. BoardType /\ LinkType /\ InStep
  BY DEF RobotInv
<1>2. /\ hold.todo # <<>>
      /\ queue' = Append(queue, x)
      /\ world' = [world EXCEPT ![j].polarity = next]
      /\ hold' = IF Len(hold.todo) > 1 THEN [hold EXCEPT !.todo = Tail(hold.todo)]
                 ELSE [hold EXCEPT !.todo = <<>>, !.pc = hold.next]
      /\ sup' = sup
  BY DEF com_queue_order
<1>3. order \in Pending /\ Tail(hold.todo) \in Seq(Pending)
  BY <1>1, <1>2, HeadTailProperties DEF BoardType
<1>4. j \in Servos /\ polarity \in Bits
  <2>1. j \in Servos
    BY <1>3 DEF Pending
  <2>. HIDE DEF j
  <2>. QED  BY <1>1, <2>1 DEF BoardType
<1>5. /\ byte \in Kinds \union WriteOrders
      /\ order.order = "WRITE" => byte \in WriteOrders /\ Accepts(polarity, byte)
      /\ order.order # "WRITE" => byte \notin WriteOrders
      /\ next = IF order.order = "WRITE" THEN 1 - polarity ELSE polarity
      /\ next \in Bits
  <2>1. order.order \in Kinds \union {"WRITE"}
    BY <1>3 DEF Pending
  <2>2. WriteOrder[polarity + 1] \in WriteOrders
    BY <1>4 DEF Bits, WriteOrder, WriteOrders
  <2>. HIDE DEF order, polarity
  <2>. QED  BY <1>4, <2>1, <2>2 DEF Kinds, WriteOrders, Accepts, NextPolarity, Bits
<1>6. x \in Sent /\ x.servo = j /\ x.order = byte
  <2>. HIDE DEF byte, order
  <2>. QED  BY <1>3, <1>5 DEF Pending, Sent, j
<1>. HIDE DEF byte, next, x, polarity
<1>7. BoardType'
  <2>1. queue' \in Seq(Sent)
    BY <1>1, <1>2, <1>6 DEF BoardType
  <2>2. world' \in [Servos -> [polarity : Bits, reg : Registers, max_torque : Int,
                               angle : Int]]
    <3>. DEFINE Servo1 == [polarity : Bits, reg : Registers, max_torque : Int, angle : Int]
                t == [world[j] EXCEPT !.polarity = next]
    <3>1. world' = [world EXCEPT ![j] = t]
      BY <1>2
    <3>. HIDE DEF j
    <3>2. t \in Servo1
      BY <1>1, <1>4, <1>5 DEF BoardType
    <3>3. world \in [Servos -> Servo1]
      BY <1>1 DEF BoardType
    <3>. HIDE DEF Servo1, t
    <3>4. world' \in [Servos -> Servo1]
      BY <1>4, <3>1, <3>2, <3>3
    <3>. QED  BY <3>4 DEF Servo1
  <2>3. hold' \in [pc : Places, todo : Seq(Pending), next : Places,
                   angle : [Servos -> Int], touched : BOOLEAN]
    <3>1. <<>> \in Seq(Pending)
      BY EmptySeq
    <3>. HIDE DEF order
    <3>. QED  BY <1>1, <1>2, <1>3, <3>1 DEF BoardType
  <2>. QED  BY <1>1, <1>2, <2>1, <2>2, <2>3 DEF BoardType
<1>8. LinkType'
  BY <1>1 DEF LinkType
<1>9. InStep'
  <2>. SUFFICES ASSUME NEW i \in Servos
                PROVE  Leads(bus \o queue', i, servo[i].polarity, world'[i].polarity)
    BY DEF InStep
  <2>1. bus \o queue' = Append(bus \o queue, x) /\ bus \o queue \in Seq(Sent)
    BY <1>1, <1>2, <1>6, AppendInQueue, ConcatProperties DEF BoardType, LinkType
  <2>2. /\ Leads(bus \o queue, i, servo[i].polarity, world[i].polarity)
        /\ servo[i].polarity \in Bits /\ world[i].polarity \in Bits
    BY <1>1 DEF InStep, BoardType, LinkType
  <2>3. /\ IsWrite(x, i) <=> i = j /\ order.order = "WRITE"
        /\ i = j => world[i].polarity = polarity
    BY <1>5, <1>6 DEF IsWrite, polarity
  <2>4. IsWrite(x, i) => Accepts(world[i].polarity, x.order)
    BY <1>5, <1>6, <2>3
  <2>5. world'[i].polarity =
          IF IsWrite(x, i) THEN 1 - world[i].polarity ELSE world[i].polarity
    <3>. HIDE DEF j, order
    <3>. QED  BY <1>1, <1>2, <1>4, <1>5, <2>3 DEF BoardType
  <2>. QED  BY <1>6, <2>1, <2>2, <2>4, <2>5, LeadsAppend
<1>. QED  BY <1>7, <1>8, <1>9 DEF RobotInv

(* The reflex runs: a step of its own, or a wait that ends early. *)
Runs == Reflex \/ WakeEarly

(* A reflex whose wait ends queues nothing. *)
LEMMA EarlyQueuesNothing == WakeEarly => ~com_queue_order
BY DEF WakeEarly, SpuriousWake, WakeUp, Sleeping, Waits, com_queue_order

(* The reflex flips the world's polarity with the WRITE it queues. *)
LEMMA ReflexInStep == RobotInv /\ Runs => RobotInv'
<1>. SUFFICES ASSUME RobotInv, Runs PROVE RobotInv'
  OBVIOUS
<1>. DEFINE Holds == [pc : Places, todo : Seq(Pending), next : Places,
                      angle : [Servos -> Int], touched : BOOLEAN]
<1>1. hold \in Holds /\ BoardType /\ LinkType /\ InStep
  BY DEF RobotInv, BoardType
<1>2. UNCHANGED <<bus, answers, servo>>
  BY DEF Runs, Reflex, WakeEarly
<1>3. CASE com_queue_order
  BY <1>2, <1>3, QueueInStep
<1>4. ASSUME hold' \in Holds, UNCHANGED <<world, queue, sup>>
      PROVE  RobotInv'
  <2>1. BoardType' /\ LinkType'
    BY <1>1, <1>2, <1>4 DEF BoardType, LinkType
  <2>2. InStep'
    BY <1>1, <1>2, <1>4, StaysInStep
  <2>. QED  BY <2>1, <2>2 DEF RobotInv
<1>5. ASSUME NEW h \in Holds, NEW todo \in Seq(Pending), NEW next \in Places
      PROVE  Script(h, todo, next) \in Holds
  BY <1>5 DEF Script, Places
<1>6. ASSUME NEW h \in Holds PROVE Forget(h) \in Holds /\ Touch(h) \in Holds
  <2>1. Same(0) \in [Servos -> Int]
    BY DEF Same
  <2>. QED  BY <1>6, <2>1 DEF Forget, Touch
<1>7. ASSUME NEW h \in Holds, NEW place \in Places
      PROVE  [h EXCEPT !.pc = place] \in Holds
  BY <1>7
<1>8. {"first", "third", "second", "last", "period", "boot1", "boot3", "loop1", "loop3",
       "check"} \subseteq Places
  BY DEF Places, Waits
<1>. HIDE DEF Holds
<1>9. CASE FirstWait
  BY <1>1, <1>4, <1>7, <1>8, <1>9 DEF FirstWait
<1>10. CASE WakeUp
  <2>1. hold.pc \in Waits /\ hold' = AfterWait(hold.pc) /\ UNCHANGED <<world, queue, sup>>
    BY <1>10 DEF WakeUp, Sleeping
  <2>2. hold' \in Holds
    BY <1>1, <1>5, <1>7, <1>8, <2>1, ScriptsType DEF AfterWait, Waits
  <2>. QED  BY <1>4, <2>1, <2>2
<1>11. ASSUME NEW pc \in {"boot1", "boot3", "loop1", "loop3"}, NEW i \in Servos,
              get_position(pc, i)
       PROVE  RobotInv'
  <2>. DEFINE h == [hold EXCEPT !.angle[i] = world[i].angle]
  <2>1. h \in Holds /\ h.angle \in [Servos -> Int]
    BY <1>1 DEF BoardType, Holds
  <2>. HIDE DEF h
  <2>2. References(h.angle) \o Enable \in Seq(Pending)
    BY <2>1, ScriptsType, ConcatProperties
  <2>3. hold' = CASE pc = "boot1" -> [h EXCEPT !.pc = "boot3"]
                  [] pc = "boot3" -> Script(Forget(h), References(h.angle) \o Enable, "loop1")
                  [] pc = "loop1" -> [h EXCEPT !.pc = "loop3"]
                  [] pc = "loop3" -> Script(h, Measurements, "check")
    BY <1>11 DEF get_position, h
  <2>4. hold' \in Holds
    BY <1>5, <1>6, <1>7, <1>8, <2>1, <2>2, <2>3, ScriptsType
  <2>5. UNCHANGED <<world, queue, sup>>
    BY <1>11 DEF get_position
  <2>. QED  BY <1>4, <2>4, <2>5
<1>12. CASE GetPositions
  BY <1>11, <1>12 DEF GetPositions, Servos
<1>13. CASE get_collision
  <2>1. References(hold.angle) \in Seq(Pending)
    BY <1>1, ScriptsType DEF Holds
  <2>2. hold' = IF hold.touched THEN [Forget(hold) EXCEPT !.pc = "period"]
                ELSE IF collision THEN Script(Forget(Touch(hold)), Stiffen, "period")
                ELSE Script(Forget(hold), References(hold.angle), "period")
    BY <1>13 DEF get_collision
  <2>3. hold' \in Holds
    BY <1>1, <1>5, <1>6, <1>7, <1>8, <2>1, <2>2, ScriptsType
  <2>4. UNCHANGED <<world, queue, sup>>
    BY <1>13 DEF get_collision
  <2>. QED  BY <1>4, <2>3, <2>4
<1>. QED  BY <1>3, <1>9, <1>10, <1>12, <1>13
          DEF Runs, Reflex, Hold, Wake, WakeEarly, SpuriousWake

-----------------------------------------------------------------------------
(* Every step keeps the two ends in step. *)
LEMMA StepInStep == RobotInv /\ [Next]_vars => RobotInv'
<1>. SUFFICES ASSUME RobotInv, [Next]_vars PROVE RobotInv'
  OBVIOUS
<1>1. CASE UNCHANGED vars
  BY <1>1 DEF vars, board, RobotInv, BoardType, LinkType, InStep
<1>. QED  BY <1>1, UplinkInStep, FailureInStep, ReceiveInStep, DownlinkInStep, TransmitInStep,
             ReflexInStep, CollideInStep DEF Next, Runs

(* Whatever the interleaving of the motherboard's threads with the MF       *)
(* board's cycle, and however many WRITEs are on their way, the servo they  *)
(* are for accepts every one of them (main.c:558-569, world.c:251-257).     *)
THEOREM NeverDropped == Spec => []NoWriteDropped
<1>1. RobotInv => NoWriteDropped
  BY HeadAccepted DEF NoWriteDropped
<1>. QED  BY <1>1, InitInStep, StepInStep, PTL DEF Spec

-----------------------------------------------------------------------------
(* Which orders a sequence has, before or after which others.               *)
Meets(s, U) == \E k \in 1..Len(s) : s[k] \in U

(* No member of U comes without a member of V before it. *)
Preceded(s, U, V) ==
  \A k \in 1..Len(s) : s[k] \in U => \E j \in 1..Len(s) : j < k /\ s[j] \in V

(* No member of V comes after a member of U. *)
NoneAfter(s, U, V) ==
  \A j, k \in 1..Len(s) : j < k /\ s[j] \in U => s[k] \notin V

(* The k-th is the last member of U. *)
LastOf(s, U, k) ==
  k \in 1..Len(s) /\ s[k] \in U /\ \A j \in 1..Len(s) : j > k => s[j] \notin U

(* Nothing is met on an empty path. *)
LEMMA EmptyMeets ==
  ASSUME NEW U
  PROVE  ~Meets(<<>>, U)
BY DEF Meets

(* What is met on a path with one more order. *)
LEMMA AppendMeets ==
  ASSUME NEW S, NEW s \in Seq(S), NEW x \in S, NEW U
  PROVE  Meets(Append(s, x), U) <=> Meets(s, U) \/ x \in U
<1>1. /\ Len(s) \in Nat /\ Len(Append(s, x)) = Len(s) + 1
      /\ \A k \in 1..Len(s) : Append(s, x)[k] = s[k]
      /\ Append(s, x)[Len(s) + 1] = x
  BY AppendProperties, LenProperties
<1>. QED  BY <1>1 DEF Meets

(* What is met on two paths, one after the other. *)
LEMMA ConcatMeets ==
  ASSUME NEW S, NEW s \in Seq(S), NEW t \in Seq(S), NEW U
  PROVE  Meets(s \o t, U) <=> Meets(s, U) \/ Meets(t, U)
<1>1. /\ Len(s) \in Nat /\ Len(t) \in Nat /\ Len(s \o t) = Len(s) + Len(t)
      /\ \A k \in 1..Len(s) + Len(t) :
           (s \o t)[k] = IF k <= Len(s) THEN s[k] ELSE t[k - Len(s)]
  BY ConcatProperties, LenProperties
<1>2. ASSUME Meets(s \o t, U) PROVE Meets(s, U) \/ Meets(t, U)
  <2>1. PICK k \in 1..Len(s) + Len(t) : (s \o t)[k] \in U
    BY <1>1, <1>2 DEF Meets
  <2>2. CASE k <= Len(s)
    BY <1>1, <2>1, <2>2 DEF Meets
  <2>3. CASE k > Len(s)
    <3>1. k - Len(s) \in 1..Len(t) /\ t[k - Len(s)] \in U
      BY <1>1, <2>1, <2>3
    <3>. QED  BY <3>1 DEF Meets
  <2>. QED  BY <1>1, <2>2, <2>3
<1>3. ASSUME Meets(s, U) PROVE Meets(s \o t, U)
  BY <1>1, <1>3 DEF Meets
<1>4. ASSUME Meets(t, U) PROVE Meets(s \o t, U)
  <2>1. PICK k \in 1..Len(t) : t[k] \in U
    BY <1>4 DEF Meets
  <2>2. Len(s) + k \in 1..Len(s) + Len(t) /\ (s \o t)[Len(s) + k] = t[k]
    BY <1>1
  <2>. QED  BY <1>1, <2>1, <2>2 DEF Meets
<1>. QED  BY <1>2, <1>3, <1>4

(* What is met on a path is its head or is met on the rest. *)
LEMMA TailMeets ==
  ASSUME NEW S, NEW s \in Seq(S), s # <<>>, NEW U
  PROVE  Meets(s, U) <=> Head(s) \in U \/ Meets(Tail(s), U)
<1>1. /\ Len(s) \in Nat \ {0} /\ Len(Tail(s)) = Len(s) - 1 /\ Head(s) = s[1]
      /\ \A k \in 1..Len(Tail(s)) : Tail(s)[k] = s[k + 1]
  BY HeadTailProperties, EmptySeq
<1>2. ASSUME Meets(s, U) PROVE Head(s) \in U \/ Meets(Tail(s), U)
  <2>1. PICK k \in 1..Len(s) : s[k] \in U
    BY <1>2 DEF Meets
  <2>2. CASE k = 1
    BY <1>1, <2>1, <2>2
  <2>3. CASE k # 1
    <3>1. k - 1 \in 1..Len(Tail(s)) /\ Tail(s)[k - 1] = s[k]
      BY <1>1, <2>3
    <3>. QED  BY <2>1, <3>1 DEF Meets
  <2>. QED  BY <2>2, <2>3
<1>3. ASSUME Meets(Tail(s), U) PROVE Meets(s, U)
  BY <1>1, <1>3 DEF Meets
<1>4. ASSUME Head(s) \in U PROVE Meets(s, U)
  BY <1>1, <1>4 DEF Meets
<1>. QED  BY <1>2, <1>3, <1>4

(* What has already come before is no longer needed before the rest. *)
LEMMA TailPreceded ==
  ASSUME NEW S, NEW s \in Seq(S), s # <<>>, NEW U, NEW V, Preceded(s, U, V)
  PROVE  Head(s) \in V \/ (Head(s) \notin U /\ Preceded(Tail(s), U, V))
<1>1. /\ Len(s) \in Nat \ {0} /\ Len(Tail(s)) = Len(s) - 1 /\ Head(s) = s[1]
      /\ \A k \in 1..Len(Tail(s)) : Tail(s)[k] = s[k + 1]
  BY HeadTailProperties, EmptySeq
<1>2. SUFFICES ASSUME Head(s) \notin V
               PROVE  Head(s) \notin U /\ Preceded(Tail(s), U, V)
  OBVIOUS
<1>3. Head(s) \notin U
  BY <1>1 DEF Preceded
<1>4. ASSUME NEW k \in 1..Len(Tail(s)), Tail(s)[k] \in U
      PROVE  \E j \in 1..Len(Tail(s)) : j < k /\ Tail(s)[j] \in V
  <2>1. k + 1 \in 1..Len(s) /\ s[k + 1] \in U
    BY <1>1, <1>4
  <2>2. PICK j \in 1..Len(s) : j < k + 1 /\ s[j] \in V
    BY <2>1 DEF Preceded
  <2>3. j # 1
    BY <1>1, <1>2, <2>2
  <2>4. j - 1 \in 1..Len(Tail(s)) /\ j - 1 < k /\ Tail(s)[j - 1] = s[j]
    BY <1>1, <2>2, <2>3
  <2>. QED  BY <2>2, <2>4
<1>. QED  BY <1>3, <1>4 DEF Preceded

(* More orders keep the precedence, when they hold no U or a V comes      *)
(* before them.                                                           *)
LEMMA ConcatPreceded ==
  ASSUME NEW S, NEW s \in Seq(S), NEW t \in Seq(S), NEW U, NEW V,
         Preceded(s, U, V), Meets(s, V) \/ ~Meets(t, U)
  PROVE  Preceded(s \o t, U, V)
<1>1. /\ Len(s) \in Nat /\ Len(t) \in Nat /\ Len(s \o t) = Len(s) + Len(t)
      /\ \A k \in 1..Len(s) + Len(t) :
           (s \o t)[k] = IF k <= Len(s) THEN s[k] ELSE t[k - Len(s)]
  BY ConcatProperties, LenProperties
<1>2. SUFFICES ASSUME NEW k \in 1..Len(s) + Len(t), (s \o t)[k] \in U
               PROVE  \E j \in 1..Len(s) + Len(t) : j < k /\ (s \o t)[j] \in V
  BY <1>1 DEF Preceded
<1>3. CASE k <= Len(s)
  <2>1. k \in 1..Len(s) /\ s[k] \in U
    BY <1>1, <1>2, <1>3
  <2>2. PICK j \in 1..Len(s) : j < k /\ s[j] \in V
    BY <2>1 DEF Preceded
  <2>3. j \in 1..Len(s) + Len(t) /\ (s \o t)[j] = s[j]
    BY <1>1
  <2>. QED  BY <2>2, <2>3
<1>4. CASE k > Len(s)
  <2>1. k - Len(s) \in 1..Len(t) /\ t[k - Len(s)] \in U
    BY <1>1, <1>2, <1>4
  <2>2. PICK j \in 1..Len(s) : s[j] \in V
    BY <2>1 DEF Meets
  <2>3. j \in 1..Len(s) + Len(t) /\ (s \o t)[j] = s[j] /\ j < k
    BY <1>1, <1>4
  <2>. QED  BY <2>2, <2>3
<1>. QED  BY <1>1, <1>3, <1>4

(* What no V follows in a path, none follows in the rest. *)
LEMMA TailNoneAfter ==
  ASSUME NEW S, NEW s \in Seq(S), s # <<>>, NEW U, NEW V, NoneAfter(s, U, V)
  PROVE  NoneAfter(Tail(s), U, V) /\ (Head(s) \in U => ~Meets(Tail(s), V))
<1>1. /\ Len(s) \in Nat \ {0} /\ Len(Tail(s)) = Len(s) - 1 /\ Head(s) = s[1]
      /\ \A k \in 1..Len(Tail(s)) : Tail(s)[k] = s[k + 1] /\ k + 1 \in 1..Len(s)
  BY HeadTailProperties, EmptySeq
<1>2. ASSUME NEW j \in 1..Len(Tail(s)), NEW k \in 1..Len(Tail(s)), j < k, Tail(s)[j] \in U
      PROVE  Tail(s)[k] \notin V
  <2>1. j + 1 \in 1..Len(s) /\ k + 1 \in 1..Len(s) /\ j + 1 < k + 1
    BY <1>1, <1>2
  <2>. QED  BY <1>1, <1>2, <2>1 DEF NoneAfter
<1>3. ASSUME NEW k \in 1..Len(Tail(s)), Head(s) \in U
      PROVE  Tail(s)[k] \notin V
  <2>1. 1 \in 1..Len(s) /\ k + 1 \in 1..Len(s) /\ 1 < k + 1
    BY <1>1
  <2>. QED  BY <1>1, <1>3, <2>1 DEF NoneAfter
<1>. QED  BY <1>2, <1>3 DEF NoneAfter, Meets

(* More orders without a V put none behind a U. *)
LEMMA ConcatNoneAfter ==
  ASSUME NEW S, NEW s \in Seq(S), NEW t \in Seq(S), NEW U, NEW V,
         NoneAfter(s, U, V), ~Meets(t, V)
  PROVE  NoneAfter(s \o t, U, V)
<1>1. /\ Len(s) \in Nat /\ Len(t) \in Nat /\ Len(s \o t) = Len(s) + Len(t)
      /\ \A k \in 1..Len(s) + Len(t) :
           (s \o t)[k] = IF k <= Len(s) THEN s[k] ELSE t[k - Len(s)]
  BY ConcatProperties, LenProperties
<1>2. SUFFICES ASSUME NEW j \in 1..Len(s) + Len(t), NEW k \in 1..Len(s) + Len(t),
                      j < k, (s \o t)[j] \in U
               PROVE  (s \o t)[k] \notin V
  BY <1>1 DEF NoneAfter
<1>3. CASE k <= Len(s)
  <2>1. j \in 1..Len(s) /\ k \in 1..Len(s)
    BY <1>1, <1>2, <1>3
  <2>. QED  BY <1>1, <1>2, <2>1 DEF NoneAfter
<1>4. CASE k > Len(s)
  <2>1. k - Len(s) \in 1..Len(t) /\ (s \o t)[k] = t[k - Len(s)]
    BY <1>1, <1>4
  <2>. QED  BY <2>1 DEF Meets
<1>. QED  BY <1>1, <1>3, <1>4

(* No V follows a U where there is no U. *)
LEMMA UnmetNoneAfter ==
  ASSUME NEW s, NEW U, NEW V, ~Meets(s, U)
  PROVE  NoneAfter(s, U, V)
BY DEF Meets, NoneAfter

(* The last U of the rest of a path is the last of the path. *)
LEMMA TailLast ==
  ASSUME NEW S, NEW s \in Seq(S), s # <<>>, NEW U
  PROVE  /\ \A k : LastOf(Tail(s), U, k) => LastOf(s, U, k + 1) /\ s[k + 1] = Tail(s)[k]
         /\ Head(s) \in U /\ ~Meets(Tail(s), U) => LastOf(s, U, 1) /\ s[1] = Head(s)
<1>1. /\ Len(s) \in Nat \ {0} /\ Len(Tail(s)) = Len(s) - 1 /\ Head(s) = s[1]
      /\ \A k \in 1..Len(Tail(s)) : Tail(s)[k] = s[k + 1]
  BY HeadTailProperties, EmptySeq
<1>2. ASSUME NEW k, LastOf(Tail(s), U, k) PROVE LastOf(s, U, k + 1) /\ s[k + 1] = Tail(s)[k]
  <2>1. k \in 1..Len(Tail(s)) /\ k + 1 \in 1..Len(s) /\ s[k + 1] \in U
    BY <1>1, <1>2 DEF LastOf
  <2>2. ASSUME NEW j \in 1..Len(s), j > k + 1 PROVE s[j] \notin U
    <3>1. j - 1 \in 1..Len(Tail(s)) /\ j - 1 > k /\ Tail(s)[j - 1] = s[j]
      BY <1>1, <2>1, <2>2
    <3>. QED  BY <1>2, <3>1 DEF LastOf
  <2>. QED  BY <1>1, <2>1, <2>2 DEF LastOf
<1>3. ASSUME Head(s) \in U, ~Meets(Tail(s), U) PROVE LastOf(s, U, 1)
  <2>1. ASSUME NEW j \in 1..Len(s), j > 1 PROVE s[j] \notin U
    <3>1. j - 1 \in 1..Len(Tail(s)) /\ Tail(s)[j - 1] = s[j]
      BY <1>1, <2>1
    <3>. QED  BY <1>3, <3>1 DEF Meets
  <2>. QED  BY <1>1, <1>3, <2>1 DEF LastOf
<1>. QED  BY <1>1, <1>2, <1>3

(* The last U of a path with one more order. *)
LEMMA AppendLast ==
  ASSUME NEW S, NEW s \in Seq(S), NEW x \in S, NEW U, NEW k, LastOf(Append(s, x), U, k)
  PROVE  IF x \in U THEN Append(s, x)[k] = x ELSE LastOf(s, U, k) /\ Append(s, x)[k] = s[k]
<1>1. /\ Len(s) \in Nat /\ Len(Append(s, x)) = Len(s) + 1
      /\ \A j \in 1..Len(s) : Append(s, x)[j] = s[j]
      /\ Append(s, x)[Len(s) + 1] = x
  BY AppendProperties, LenProperties
<1>2. k \in 1..Len(s) + 1
  BY <1>1 DEF LastOf
<1>3. CASE x \in U
  <2>1. Len(s) + 1 \in 1..Len(Append(s, x)) /\ ~(Len(s) + 1 > k)
    BY <1>1, <1>3 DEF LastOf
  <2>. QED  BY <1>1, <1>2, <1>3, <2>1
<1>4. CASE x \notin U
  <2>1. k # Len(s) + 1
    BY <1>1, <1>4 DEF LastOf
  <2>2. k \in 1..Len(s)
    BY <1>1, <1>2, <2>1
  <2>. QED  BY <1>1, <1>4, <2>2 DEF LastOf
<1>. QED  BY <1>3, <1>4

(* The last U of the second of two paths is the last of both. *)
LEMMA ConcatLast ==
  ASSUME NEW S, NEW s \in Seq(S), NEW t \in Seq(S), NEW U
  PROVE  \A k : LastOf(t, U, k) =>
           LastOf(s \o t, U, Len(s) + k) /\ (s \o t)[Len(s) + k] = t[k]
<1>. SUFFICES ASSUME NEW k, LastOf(t, U, k)
              PROVE  LastOf(s \o t, U, Len(s) + k) /\ (s \o t)[Len(s) + k] = t[k]
  OBVIOUS
<1>1. /\ Len(s) \in Nat /\ Len(t) \in Nat /\ Len(s \o t) = Len(s) + Len(t)
      /\ \A j \in 1..Len(s) + Len(t) :
           (s \o t)[j] = IF j <= Len(s) THEN s[j] ELSE t[j - Len(s)]
  BY ConcatProperties, LenProperties
<1>2. k \in 1..Len(t) /\ t[k] \in U /\ \A j \in 1..Len(t) : j > k => t[j] \notin U
  BY DEF LastOf
<1>3. Len(s) + k \in 1..Len(s) + Len(t) /\ (s \o t)[Len(s) + k] = t[k]
  BY <1>1, <1>2
<1>4. ASSUME NEW j \in 1..Len(s) + Len(t), j > Len(s) + k PROVE (s \o t)[j] \notin U
  <2>1. j - Len(s) \in 1..Len(t) /\ j - Len(s) > k /\ (s \o t)[j] = t[j - Len(s)]
    BY <1>1, <1>2, <1>4
  <2>. QED  BY <1>2, <2>1
<1>. QED  BY <1>1, <1>2, <1>3, <1>4 DEF LastOf

-----------------------------------------------------------------------------
(* All that is between the reflex and the servos, in the order in which it  *)
(* will arrive: the bus, the queue, and what the reflex has still to queue. *)
(* An order is taken as the reflex built it, without the polarity.          *)
Plain(ord) == IF ord.order \in WriteOrders THEN [ord EXCEPT !.order = "WRITE"] ELSE ord

PlainOrders(s) == [k \in 1..Len(s) |-> Plain(s[k])]

Path == PlainOrders(bus \o queue) \o hold.todo

(* An order without its polarity is one the reflex may have queued. *)
LEMMA PlainPending ==
  ASSUME NEW x \in Sent
  PROVE  /\ Plain(x) \in Pending
         /\ Plain(x).servo = x.servo /\ Plain(x).par = x.par
         /\ Plain(x).pid = x.pid /\ Plain(x).val = x.val
         /\ Plain(x).order = IF x.order \in WriteOrders THEN "WRITE" ELSE x.order
BY DEF Plain, Sent, Pending, Kinds, WriteOrders

(* The orders of a path without their polarities. *)
LEMMA PlainSequence ==
  ASSUME NEW s \in Seq(Sent)
  PROVE  /\ PlainOrders(s) \in Seq(Pending) /\ Len(PlainOrders(s)) = Len(s)
         /\ \A k \in 1..Len(s) : PlainOrders(s)[k] = Plain(s[k])
<1>1. Len(s) \in Nat /\ \A k \in 1..Len(s) : s[k] \in Sent
  BY LenProperties, ElementOfSeq
<1>2. PlainOrders(s) \in [1..Len(s) -> Pending]
  BY <1>1, PlainPending DEF PlainOrders
<1>3. PlainOrders(s) \in Seq(Pending)
  BY <1>1, <1>2, SeqDef
<1>4. DOMAIN PlainOrders(s) = 1..Len(s)
  BY DEF PlainOrders
<1>5. Len(PlainOrders(s)) = Len(s)
  <2>1. Len(PlainOrders(s)) \in Nat /\ DOMAIN PlainOrders(s) = 1..Len(PlainOrders(s))
    BY <1>3, LenProperties
  <2>. HIDE DEF PlainOrders
  <2>. QED  BY <1>1, <1>4, <2>1
<1>. QED  BY <1>3, <1>5 DEF PlainOrders

(* Polarities are dropped from one more order on its own. *)
LEMMA PlainAppend ==
  ASSUME NEW s \in Seq(Sent), NEW x \in Sent
  PROVE  PlainOrders(Append(s, x)) = Append(PlainOrders(s), Plain(x))
<1>1. /\ Len(s) \in Nat /\ Append(s, x) \in Seq(Sent) /\ Len(Append(s, x)) = Len(s) + 1
      /\ \A k \in 1..Len(s) : Append(s, x)[k] = s[k]
      /\ Append(s, x)[Len(s) + 1] = x
  BY AppendProperties, LenProperties
<1>2. /\ PlainOrders(Append(s, x)) \in Seq(Pending)
      /\ Len(PlainOrders(Append(s, x))) = Len(s) + 1
      /\ \A k \in 1..Len(s) + 1 : PlainOrders(Append(s, x))[k] = Plain(Append(s, x)[k])
  BY <1>1, PlainSequence
<1>3. /\ PlainOrders(s) \in Seq(Pending) /\ Len(PlainOrders(s)) = Len(s)
      /\ \A k \in 1..Len(s) : PlainOrders(s)[k] = Plain(s[k])
      /\ Plain(x) \in Pending
  BY PlainSequence, PlainPending
<1>4. /\ Append(PlainOrders(s), Plain(x)) \in Seq(Pending)
      /\ Len(Append(PlainOrders(s), Plain(x))) = Len(s) + 1
      /\ \A k \in 1..Len(s) : Append(PlainOrders(s), Plain(x))[k] = Plain(s[k])
      /\ Append(PlainOrders(s), Plain(x))[Len(s) + 1] = Plain(x)
  BY <1>3, AppendProperties
<1>5. ASSUME NEW k \in 1..Len(s) + 1
      PROVE  PlainOrders(Append(s, x))[k] = Append(PlainOrders(s), Plain(x))[k]
  <2>1. CASE k = Len(s) + 1
    BY <1>1, <1>2, <1>4, <2>1
  <2>2. CASE k # Len(s) + 1
    <3>1. k \in 1..Len(s)
      BY <1>1, <2>2
    <3>. QED  BY <1>1, <1>2, <1>4, <3>1
  <2>. QED  BY <2>1, <2>2
<1>. QED  BY <1>2, <1>4, <1>5, SeqEqual

(* The first order without its polarity is the first of the path. *)
LEMMA PlainTail ==
  ASSUME NEW s \in Seq(Sent), s # <<>>
  PROVE  /\ PlainOrders(s) # <<>> /\ Head(PlainOrders(s)) = Plain(Head(s))
         /\ Tail(PlainOrders(s)) = PlainOrders(Tail(s))
<1>1. /\ Len(s) \in Nat \ {0} /\ Head(s) = s[1]
      /\ Tail(s) \in Seq(Sent) /\ Len(Tail(s)) = Len(s) - 1
      /\ \A k \in 1..Len(Tail(s)) : Tail(s)[k] = s[k + 1]
  BY HeadTailProperties, EmptySeq
<1>. DEFINE p == PlainOrders(s)
            q == PlainOrders(Tail(s))
<1>2. /\ p \in Seq(Pending) /\ Len(p) = Len(s)
      /\ \A k \in 1..Len(s) : p[k] = Plain(s[k])
  BY PlainSequence
<1>3. /\ q \in Seq(Pending) /\ Len(q) = Len(s) - 1
      /\ \A k \in 1..Len(s) - 1 : q[k] = Plain(Tail(s)[k])
  BY <1>1, PlainSequence
<1>. HIDE DEF p, q
<1>4. p # <<>>
  BY <1>1, <1>2, EmptySeq
<1>5. /\ Head(p) = p[1] /\ Tail(p) \in Seq(Pending) /\ Len(Tail(p)) = Len(s) - 1
      /\ \A k \in 1..Len(s) - 1 : Tail(p)[k] = p[k + 1]
  BY <1>2, <1>4, HeadTailProperties
<1>6. ASSUME NEW k \in 1..Len(s) - 1 PROVE Tail(p)[k] = q[k]
  <2>1. k + 1 \in 1..Len(s)
    BY <1>1
  <2>. QED  BY <1>1, <1>2, <1>3, <1>5, <2>1
<1>7. Tail(p) = q
  BY <1>3, <1>5, <1>6, SeqEqual
<1>. QED  BY <1>1, <1>2, <1>4, <1>5, <1>7 DEF p, q

(* The path is made of the reflex's orders. *)
LEMMA PathType ==
  ASSUME RobotInv
  PROVE  /\ bus \o queue \in Seq(Sent) /\ PlainOrders(bus \o queue) \in Seq(Pending)
         /\ hold.todo \in Seq(Pending) /\ Path \in Seq(Pending)
BY PlainSequence, ConcatProperties DEF RobotInv, BoardType, LinkType, Path

(* Queueing an order takes it from one part of the path to the next. *)
LEMMA PathQueued ==
  ASSUME RobotInv, com_queue_order, bus' = bus
  PROVE  /\ Path' = Path
         /\ hold'.todo = Tail(hold.todo)
         /\ \E x \in Sent : queue' = Append(queue, x) /\ Plain(x) = Head(hold.todo)
<1>. DEFINE order == Head(hold.todo)
            polarity == world[order.servo].polarity
            byte == IF order.order = "WRITE" THEN WriteOrder[polarity + 1] ELSE order.order
            x == [order EXCEPT !.order = byte]
            s == bus \o queue
<1>1. /\ hold.todo \in Seq(Pending) /\ hold.todo # <<>> /\ queue' = Append(queue, x)
      /\ hold' = IF Len(hold.todo) > 1 THEN [hold EXCEPT !.todo = Tail(hold.todo)]
                 ELSE [hold EXCEPT !.todo = <<>>, !.pc = hold.next]
  BY DEF com_queue_order, RobotInv, BoardType
<1>2. order \in Pending /\ Tail(hold.todo) \in Seq(Pending)
      /\ Len(hold.todo) \in Nat \ {0} /\ Len(Tail(hold.todo)) = Len(hold.todo) - 1
  BY <1>1, HeadTailProperties, EmptySeq
<1>3. order.servo \in Servos /\ order.order \in Kinds \union {"WRITE"} /\ polarity \in Bits
  <2>1. order.servo \in Servos /\ order.order \in Kinds \union {"WRITE"}
    BY <1>2 DEF Pending
  <2>. HIDE DEF order
  <2>. QED  BY <2>1 DEF RobotInv, BoardType
<1>4. byte \in Kinds \union WriteOrders /\ (byte \in WriteOrders <=> order.order = "WRITE")
      /\ (order.order # "WRITE" => byte = order.order)
  <2>1. WriteOrder[polarity + 1] \in WriteOrders
    BY <1>3 DEF Bits, WriteOrder, WriteOrders
  <2>. HIDE DEF order, polarity
  <2>. QED  BY <1>3, <2>1 DEF Kinds, WriteOrders
<1>5. x \in Sent /\ Plain(x) = order
  <2>. HIDE DEF byte, order
  <2>1. x \in Sent
    BY <1>2, <1>4 DEF Pending, Sent
  <2>2. Plain(x) \in Pending /\ Plain(x).servo = order.servo /\ Plain(x).par = order.par
        /\ Plain(x).pid = order.pid /\ Plain(x).val = order.val
        /\ Plain(x).order = IF byte \in WriteOrders THEN "WRITE" ELSE byte
    BY <1>2, <2>1, PlainPending DEF Pending
  <2>3. Plain(x).order = order.order
    BY <1>4, <2>2
  <2>. QED  BY <1>2, <2>1, <2>2, <2>3 DEF Pending
<1>6. hold'.todo = Tail(hold.todo)
  <2>1. CASE Len(hold.todo) > 1
    BY <1>1, <2>1 DEF RobotInv, BoardType
  <2>2. CASE ~(Len(hold.todo) > 1)
    <3>1. Len(Tail(hold.todo)) = 0
      <4>. DEFINE n == Len(hold.todo)
      <4>1. n \in Nat \ {0} /\ ~(n > 1) /\ Len(Tail(hold.todo)) = n - 1
        BY <1>2, <2>2
      <4>. HIDE DEF n
      <4>2. n = 1
        BY <4>1
      <4>. QED  BY <4>1, <4>2
    <3>2. Tail(hold.todo) = <<>>
      BY <1>2, <3>1, EmptySeq
    <3>. QED  BY <1>1, <2>2, <3>2 DEF RobotInv, BoardType
  <2>. QED  BY <2>1, <2>2
<1>. HIDE DEF x, byte
<1>7. bus' \o queue' = Append(s, x) /\ s \in Seq(Sent)
  BY <1>1, <1>5, AppendInQueue, ConcatProperties DEF RobotInv, BoardType, LinkType
<1>8. PlainOrders(bus' \o queue') = Append(PlainOrders(s), order)
      /\ PlainOrders(s) \in Seq(Pending)
  BY <1>5, <1>7, PlainAppend, PlainSequence
<1>9. Append(PlainOrders(s), order) \o Tail(hold.todo) = PlainOrders(s) \o hold.todo
  <2>. DEFINE p == PlainOrders(s)
              u == hold.todo
  <2>1. /\ p \in Seq(Pending) /\ u \in Seq(Pending) /\ u # <<>> /\ order = u[1]
        /\ order \in Pending /\ Tail(u) \in Seq(Pending)
    BY <1>1, <1>2, <1>8
  <2>. HIDE DEF order, p, u
  <2>2. /\ Append(p, order) \in Seq(Pending) /\ Len(Append(p, order)) = Len(p) + 1
        /\ \A k \in 1..Len(p) : Append(p, order)[k] = p[k]
        /\ Append(p, order)[Len(p) + 1] = order
        /\ Len(p) \in Nat /\ Len(u) \in Nat \ {0} /\ Len(Tail(u)) = Len(u) - 1
        /\ \A k \in 1..Len(u) - 1 : Tail(u)[k] = u[k + 1]
    BY <2>1, AppendProperties, LenProperties, HeadTailProperties, EmptySeq
  <2>. DEFINE a == Append(p, order) \o Tail(u)
              b == p \o u
  <2>3. /\ a \in Seq(Pending) /\ Len(a) = Len(p) + Len(u)
        /\ \A k \in 1..Len(p) + Len(u) :
             a[k] = IF k <= Len(p) + 1 THEN Append(p, order)[k]
                    ELSE Tail(u)[k - (Len(p) + 1)]
    <3>1. Len(p) + 1 + (Len(u) - 1) = Len(p) + Len(u)
      BY <2>2
    <3>. QED  BY <2>1, <2>2, <3>1, ConcatProperties
  <2>4. /\ b \in Seq(Pending) /\ Len(b) = Len(p) + Len(u)
        /\ \A k \in 1..Len(p) + Len(u) : b[k] = IF k <= Len(p) THEN p[k] ELSE u[k - Len(p)]
    BY <2>1, ConcatProperties
  <2>. HIDE DEF a, b
  <2>5. ASSUME NEW k \in 1..Len(p) + Len(u) PROVE a[k] = b[k]
    <3>1. CASE k <= Len(p)
      BY <2>2, <2>3, <2>4, <3>1
    <3>2. CASE k = Len(p) + 1
      BY <2>1, <2>2, <2>3, <2>4, <3>2
    <3>3. CASE k > Len(p) + 1
      <4>1. k - (Len(p) + 1) \in 1..Len(u) - 1 /\ k - (Len(p) + 1) + 1 = k - Len(p)
        BY <2>2, <3>3
      <4>. QED  BY <2>2, <2>3, <2>4, <3>3, <4>1
    <3>. QED  BY <2>2, <3>1, <3>2, <3>3
  <2>6. a = b
    BY <2>3, <2>4, <2>5, SeqEqual
  <2>. QED  BY <2>6 DEF a, b, p, u
<1>10. Path' = Path
  BY <1>6, <1>8, <1>9 DEF Path
<1>. QED  BY <1>1, <1>5, <1>6, <1>10

(* What is transmitted is the first order of the path. *)
LEMMA PathTransmitted ==
  ASSUME RobotInv, Transmit
  PROVE  Path # <<>> /\ Head(Path) = Plain(Head(bus)) /\ Path' = Tail(Path)
<1>. DEFINE s == bus \o queue
<1>1. /\ bus \in Seq(Sent) /\ queue \in Seq(Sent) /\ hold.todo \in Seq(Pending)
      /\ bus # <<>> /\ bus' = Tail(bus) /\ queue' = queue /\ hold' = hold
  BY DEF RobotInv, BoardType, LinkType, Transmit, board
<1>2. s \in Seq(Sent) /\ s # <<>> /\ Head(s) = Head(bus) /\ Tail(s) = bus' \o queue'
  BY <1>1, TailOfBus, ConcatProperties
<1>. HIDE DEF s
<1>3. /\ PlainOrders(s) \in Seq(Pending) /\ PlainOrders(s) # <<>>
      /\ Head(PlainOrders(s)) = Plain(Head(bus))
      /\ Tail(PlainOrders(s)) = PlainOrders(bus' \o queue')
  BY <1>2, PlainSequence, PlainTail
<1>4. /\ PlainOrders(s) \o hold.todo # <<>>
      /\ Head(PlainOrders(s) \o hold.todo) = Plain(Head(bus))
      /\ Tail(PlainOrders(s) \o hold.todo) = PlainOrders(bus' \o queue') \o hold.todo
  <2>. DEFINE p == PlainOrders(s)
  <2>1. p \in Seq(Pending) /\ p # <<>>
    BY <1>3
  <2>. HIDE DEF p
  <2>2. p \o hold.todo # <<>> /\ Head(p \o hold.todo) = Head(p)
        /\ Tail(p \o hold.todo) = Tail(p) \o hold.todo
    BY <1>1, <2>1, TailOfBus
  <2>. QED  BY <1>3, <2>2 DEF p
<1>. QED  BY <1>1, <1>4 DEF Path, s

-----------------------------------------------------------------------------
(* Where the reflex is in its life. *)
Following ==
  \/ hold.pc \in {"period", "loop1", "loop3", "check"}
  \/ hold.pc = "queue" /\ hold.next \in {"check", "period"}

(* The reflex has orders left only while it queues them, has touched the    *)
(* ground only while it follows the hand, and is signalled only in its      *)
(* sleep; the supervisor has no frames left when it awaits an uplink.       *)
Shape ==
  /\ woken \in BOOLEAN
  /\ hold.pc # "queue" => hold.todo = <<>>
  /\ hold.pc = "queue" => /\ hold.todo # <<>>
                          /\ hold.next \in {"third", "loop1", "check", "period"}
  /\ hold.touched => Following
  /\ woken => Sleeping
  /\ sup.pc = "uplink" => sup.frames = <<>>

(* The reflex goes to a place, with orders to queue or with none. *)
Goes(from, to, todo) == hold.pc = from /\ hold'.pc = to /\ hold'.todo = todo

Read(i) == [hold.angle EXCEPT ![i] = world[i].angle]

(* What the reflex may do but queue an order. *)
Moves ==
  \/ Goes("start", "first", <<>>) /\ hold'.touched = hold.touched /\ woken' = woken
  \/ /\ woken' = FALSE /\ hold'.touched = hold.touched
     /\ \/ Goes("first", "queue", Configuration) /\ hold'.next = "third"
        \/ Goes("third", "second", <<>>)
        \/ Goes("second", "last", <<>>)
        \/ Goes("last", "boot1", <<>>)
        \/ Goes("period", "loop1", <<>>)
  \/ /\ woken' = woken /\ hold'.touched = hold.touched
     /\ \/ (Goes("boot1", "boot3", <<>>) \/ Goes("loop1", "loop3", <<>>))
             /\ hold'.angle = Read("servo1")
        \/ Goes("boot3", "queue", References(Read("servo3")) \o Enable) /\ hold'.next = "loop1"
        \/ Goes("loop3", "queue", Measurements) /\ hold'.next = "check"
             /\ hold'.angle = Read("servo3")
        \/ Goes("check", "period", <<>>)
        \/ Goes("check", "queue", References(hold.angle)) /\ hold'.next = "period"
             /\ ~hold.touched
  \/ /\ woken' = woken /\ ~hold.touched /\ hold'.touched
     /\ Goes("check", "queue", Stiffen) /\ hold'.next = "period"

(* The reflex, when it queues nothing, makes one of its moves, and what   *)
(* it has still to queue is added to the path.                            *)
LEMMA ReflexMoves ==
  ASSUME RobotInv, Shape, Runs, ~com_queue_order
  PROVE  /\ UNCHANGED <<world, queue, sup, bus, answers, servo, reported>>
         /\ Moves
         /\ hold.todo = <<>>
         /\ hold'.todo \in Seq(Pending) /\ Path' = Path \o hold'.todo
<1>. DEFINE Holds == [pc : Places, todo : Seq(Pending), next : Places,
                      angle : [Servos -> Int], touched : BOOLEAN]
<1>1. hold \in Holds /\ hold' \in Holds
  BY ReflexInStep DEF RobotInv, BoardType
<1>2. UNCHANGED <<bus, answers, servo, reported>>
  BY DEF Runs, Reflex, WakeEarly
<1>3. ASSUME hold.pc # "queue", UNCHANGED <<world, queue, sup>>, Moves
      PROVE  /\ UNCHANGED <<world, queue, sup, bus, answers, servo, reported>>
             /\ Moves
             /\ hold.todo = <<>>
             /\ hold'.todo \in Seq(Pending) /\ Path' = Path \o hold'.todo
  <2>1. hold.todo = <<>>
    BY <1>3 DEF Shape
  <2>2. hold'.todo \in Seq(Pending)
    BY <1>1
  <2>3. Path' = PlainOrders(bus \o queue) \o hold'.todo
    BY <1>2, <1>3 DEF Path
  <2>4. Path = PlainOrders(bus \o queue)
    <3>1. PlainOrders(bus \o queue) \in Seq(Pending)
      BY PathType
    <3>. HIDE DEF PlainOrders
    <3>. QED  BY <2>1, <3>1, ConcatEmptySeq DEF Path
  <2>. HIDE DEF Holds
  <2>. QED  BY <1>2, <1>3, <2>1, <2>2, <2>3, <2>4
<1>4. ASSUME NEW a \in [Servos -> Int] PROVE a = [a EXCEPT !["servo1"] = @] /\ Same(0) \in [Servos -> Int]
  BY <1>4 DEF Same
<1>5. CASE FirstWait
  <2>1. hold.pc = "start" /\ hold' = [hold EXCEPT !.pc = "first"] /\ woken' = woken
        /\ UNCHANGED <<world, queue, sup>>
    BY <1>5 DEF FirstWait
  <2>2. hold.todo = <<>>
    BY <2>1 DEF Shape
  <2>3. Moves
    BY <1>1, <2>1, <2>2 DEF Moves, Goes
  <2>. QED  BY <1>3, <2>1, <2>3
<1>6. CASE WakeUp
  <2>1. /\ hold.pc \in Waits /\ woken' = FALSE /\ hold' = AfterWait(hold.pc)
        /\ UNCHANGED <<world, queue, sup>>
    BY <1>6 DEF WakeUp, Sleeping
  <2>2. hold.todo = <<>> /\ hold.pc # "queue"
    BY <2>1 DEF Shape, Waits
  <2>. HIDE DEF Configuration
  <2>3. Moves
    BY <1>1, <2>1, <2>2 DEF Moves, Goes, AfterWait, Script, Waits
  <2>. QED  BY <1>3, <2>1, <2>2, <2>3
<1>7. ASSUME NEW pc \in {"boot1", "boot3", "loop1", "loop3"}, NEW i \in Servos,
             get_position(pc, i), pc \in {"boot1", "loop1"} <=> i = "servo1"
      PROVE  UNCHANGED <<world, queue, sup>> /\ Moves /\ hold.pc # "queue"
  <2>. DEFINE h == [hold EXCEPT !.angle[i] = world[i].angle]
  <2>1. /\ hold.pc = pc /\ woken' = woken /\ UNCHANGED <<world, queue, sup>>
        /\ hold' = CASE pc = "boot1" -> [h EXCEPT !.pc = "boot3"]
                     [] pc = "boot3" -> Script(Forget(h), References(h.angle) \o Enable, "loop1")
                     [] pc = "loop1" -> [h EXCEPT !.pc = "loop3"]
                     [] pc = "loop3" -> Script(h, Measurements, "check")
    BY <1>7 DEF get_position
  <2>2. hold.todo = <<>>
    BY <1>7, <2>1 DEF Shape
  <2>3. /\ h.angle = Read(i) /\ h.todo = <<>> /\ h.touched = hold.touched
        /\ h \in [pc : Places, todo : Seq(Pending), next : Places,
                  angle : [Servos -> Int], touched : BOOLEAN]
    <3>1. world[i].angle \in Int
      BY DEF RobotInv, BoardType
    <3>. QED  BY <1>1, <2>2, <3>1 DEF Read
  <2>. HIDE DEF h
  <2>4. i \in {"servo1", "servo3"}
    BY DEF Servos
  <2>5. Moves
    <3>1. CASE pc = "boot1"
      BY <1>7, <2>1, <2>3, <3>1 DEF Moves, Goes
    <3>2. CASE pc = "loop1"
      BY <1>7, <2>1, <2>3, <3>2 DEF Moves, Goes
    <3>3. CASE pc = "boot3"
      <4>1. i = "servo3" /\ hold' = Script(Forget(h), References(Read("servo3")) \o Enable, "loop1")
        BY <1>7, <2>1, <2>3, <2>4, <3>3
      <4>2. Forget(h) = [h EXCEPT !.angle = Same(0)]
        BY DEF Forget
      <4>. HIDE DEF References, Enable
      <4>. QED  BY <2>1, <2>3, <3>3, <4>1, <4>2 DEF Moves, Goes, Script
    <3>4. CASE pc = "loop3"
      <4>1. i = "servo3" /\ hold' = Script(h, Measurements, "check")
        BY <1>7, <2>1, <2>4, <3>4
      <4>. HIDE DEF Measurements
      <4>. QED  BY <2>1, <2>3, <3>4, <4>1 DEF Moves, Goes, Script
    <3>. QED  BY <3>1, <3>2, <3>3, <3>4
  <2>. QED  BY <2>1, <2>5
<1>8. CASE GetPositions
  BY <1>3, <1>7, <1>8 DEF GetPositions, Servos
<1>9. CASE get_collision
  <2>1. /\ hold.pc = "check" /\ woken' = woken /\ UNCHANGED <<world, queue, sup>>
        /\ hold' = IF hold.touched THEN [Forget(hold) EXCEPT !.pc = "period"]
                   ELSE IF collision THEN Script(Forget(Touch(hold)), Stiffen, "period")
                   ELSE Script(Forget(hold), References(hold.angle), "period")
    BY <1>9 DEF get_collision
  <2>2. hold.todo = <<>>
    BY <2>1 DEF Shape
  <2>. HIDE DEF Stiffen, References
  <2>3. Moves
    BY <1>1, <2>1, <2>2 DEF Moves, Goes, Script, Forget, Touch
  <2>. QED  BY <1>3, <2>1, <2>3
<1>. QED  BY <1>5, <1>6, <1>8, <1>9 DEF Runs, Reflex, Hold, Wake, WakeEarly, SpuriousWake

(* None of the reflex's scripts is empty. *)
LEMMA ScriptsNotEmpty ==
  /\ Measurements # <<>> /\ Configuration # <<>> /\ Stiffen # <<>>
  /\ \A angle \in [Servos -> Int] : References(angle) # <<>> /\ References(angle) \o Enable # <<>>
<1>1. ASSUME NEW order, NEW par, NEW val PROVE Both(order, par, val) # <<>>
  BY DEF Both
<1>2. ASSUME NEW order \in Kinds \union {"WRITE"}, NEW par \in Infos, NEW val \in [Servos -> Int],
             NEW s \in Seq(Pending)
      PROVE  Both(order, par, val) \o s # <<>>
  <2>1. Both(order, par, val) \in Seq(Pending)
    BY BothType
  <2>. QED  BY <1>1, <2>1, ConcatEqualIffEmpty
<1>3. ASSUME NEW s \in Seq(Pending), NEW t \in Seq(Pending), t # <<>> PROVE s \o t # <<>>
  BY <1>3, ConcatEqualIffEmpty
<1>4. /\ {"position", "channel", "max_torque", "int_limit", "ref"} \subseteq Infos
      /\ {"GET", "WRITE"} \subseteq Kinds \union {"WRITE"}
      /\ Same(0) \in [Servos -> Int] /\ Same(high_max_torque) \in [Servos -> Int]
      /\ Same(high_integral_limit) \in [Servos -> Int]
  BY DEF Infos, Params, Measures, Kinds, Same, high_max_torque, high_integral_limit
<1>5. Measurements # <<>>
  BY <1>2, <1>4, BothType DEF Measurements
<1>6. Stiffen # <<>>
  BY <1>2, <1>4, BothType DEF Stiffen
<1>7. Configuration # <<>>
  <2>1. /\ {"mod_fact", "kp", "ki", "int_limit", "max_torque"} \subseteq Infos
        /\ Same(100) \in [Servos -> Int] /\ Gain(30, 10) \in [Servos -> Int]
        /\ Gain(30, 5) \in [Servos -> Int] /\ Same(low_integral_limit) \in [Servos -> Int]
        /\ Same(low_max_torque) \in [Servos -> Int]
    BY DEF Infos, Params, Same, Gain, Servos, low_integral_limit, low_max_torque
  <2>2. /\ Both("WRITE", "mod_fact", Same(100)) \in Seq(Pending)
        /\ Both("WRITE", "kp", Gain(30, 10)) \in Seq(Pending)
        /\ Both("WRITE", "ki", Gain(30, 5)) \in Seq(Pending)
        /\ Both("WRITE", "int_limit", Same(low_integral_limit)) \in Seq(Pending)
        /\ Both("WRITE", "max_torque", Same(low_max_torque)) \in Seq(Pending)
    BY <1>4, <2>1, BothType
  <2>3. \A s, t \in Seq(Pending) : s \o t \in Seq(Pending)
    BY ConcatProperties
  <2>. QED  BY <1>3, <1>5, <2>2, <2>3, ScriptsType DEF Configuration
<1>8. ASSUME NEW angle \in [Servos -> Int]
      PROVE  References(angle) # <<>> /\ References(angle) \o Enable # <<>>
  <2>1. References(angle) # <<>>
    BY <1>1 DEF References
  <2>2. References(angle) \in Seq(Pending) /\ Enable \in Seq(Pending)
    BY ScriptsType
  <2>. QED  BY <2>1, <2>2, ConcatEqualIffEmpty
<1>. QED  BY <1>5, <1>6, <1>7, <1>8

(* The angles that the reflex reads and holds are integers. *)
LEMMA ReadType ==
  ASSUME RobotInv, NEW i \in Servos
  PROVE  Read(i) \in [Servos -> Int] /\ hold.angle \in [Servos -> Int]
BY DEF RobotInv, BoardType, Read

(* The reflex starts with nothing to queue. *)
LEMMA InitShape == Init => Shape
<1>. SUFFICES ASSUME Init PROVE Shape
  OBVIOUS
<1>1. /\ hold.pc = "start" /\ hold.todo = <<>> /\ hold.touched = FALSE /\ woken = FALSE
      /\ sup.frames = <<>>
  BY DEF Init, InitBoard
<1>. QED  BY <1>1 DEF Shape

(* Every step keeps the shape of the reflex. *)
LEMMA StepShape == RobotInv /\ Shape /\ [Next]_vars => Shape'
<1>. SUFFICES ASSUME RobotInv, Shape, [Next]_vars PROVE Shape'
  OBVIOUS
<1>1. ASSUME UNCHANGED <<hold, woken, sup>> PROVE Shape'
  BY <1>1 DEF Shape, Following, Sleeping
<1>2. CASE Uplink
  BY <1>2 DEF Uplink, op_new_period, Shape, Following, Sleeping, RobotInv, BoardType
<1>3. CASE Downlink
  BY <1>3 DEF Downlink, com_downlink, Shape, Following, Sleeping, RobotInv, BoardType
<1>4. CASE ReceiveFrame
  BY <1>4 DEF ReceiveFrame, op_recv_frame, Shape, Following, Sleeping, RobotInv, BoardType
<1>5. CASE Reflex /\ com_queue_order
  <2>1. /\ hold.pc = "queue" /\ hold.todo \in Seq(Pending) /\ hold.todo # <<>>
        /\ hold' = IF Len(hold.todo) > 1 THEN [hold EXCEPT !.todo = Tail(hold.todo)]
                   ELSE [hold EXCEPT !.todo = <<>>, !.pc = hold.next]
        /\ woken' = woken /\ sup' = sup
    BY <1>5 DEF com_queue_order, RobotInv, BoardType
  <2>2. Len(hold.todo) > 1 => Tail(hold.todo) # <<>>
    <3>. DEFINE n == Len(hold.todo)
                rest == Tail(hold.todo)
    <3>1. n \in Nat /\ Len(rest) = n - 1
      BY <2>1, HeadTailProperties, LenProperties
    <3>2. rest = <<>> => Len(rest) = 0
      BY EmptySeq
    <3>. HIDE DEF n, rest
    <3>3. n > 1 => rest # <<>>
      BY <3>1, <3>2
    <3>. QED  BY <3>3 DEF n, rest
  <2>3. ~woken
    BY <2>1 DEF Shape, Sleeping, Waits
  <2>. QED  BY <2>1, <2>2, <2>3 DEF Shape, Following, RobotInv, BoardType
<1>6. CASE Runs /\ ~com_queue_order
  <2>1. Moves /\ sup' = sup
    BY <1>6, ReflexMoves
  <2>2. /\ Read("servo3") \in [Servos -> Int] /\ hold.angle \in [Servos -> Int]
    BY ReadType DEF Servos
  <2>3. hold'.pc = "queue" => hold'.todo # <<>>
    <3>. HIDE DEF References, Enable, Measurements, Configuration, Stiffen
    <3>. QED  BY <2>1, <2>2, ScriptsNotEmpty DEF Moves, Goes
  <2>. HIDE DEF References, Enable, Measurements, Configuration, Stiffen
  <2>4. hold.touched => Following
    BY DEF Shape
  <2>5. hold'.pc # "queue" => hold'.todo = <<>>
    BY <2>1 DEF Moves, Goes
  <2>6. hold'.pc = "queue" => hold'.next \in {"third", "loop1", "check", "period"}
    BY <2>1 DEF Moves, Goes
  <2>7. hold'.touched => Following'
    BY <2>1, <2>4 DEF Moves, Goes, Following
  <2>8. woken' \in BOOLEAN /\ (woken' => Sleeping')
    <3>1. CASE woken' = FALSE
      BY <3>1
    <3>2. CASE woken' # FALSE
      <4>1. woken' = woken /\ hold.pc \in {"start", "boot1", "loop1", "boot3", "loop3", "check"}
        BY <2>1, <3>2 DEF Moves, Goes
      <4>2. ~Sleeping
        BY <4>1 DEF Sleeping, Waits
      <4>. QED  BY <4>1, <4>2 DEF Shape
    <3>. QED  BY <3>1, <3>2
  <2>. QED  BY <2>1, <2>3, <2>5, <2>6, <2>7, <2>8 DEF Shape
<1>7. CASE Collide
  BY <1>1, <1>7 DEF Collide, update_collision
<1>8. CASE Transmit
  BY <1>1, <1>8 DEF Transmit, board
<1>9. CASE UNCHANGED vars
  BY <1>1, <1>9 DEF vars, board
<1>10. CASE UplinkFails
  BY <1>10 DEF UplinkFails, UplinkError, Shape, Following, Sleeping
<1>. QED  BY <1>2, <1>3, <1>4, <1>5, <1>6, <1>7, <1>8, <1>9, <1>10, EarlyQueuesNothing
          DEF Next, Runs

-----------------------------------------------------------------------------
(* How far the first measurement of a servo has come: heard by the world,   *)
(* among the frames of this period, in the answers of the next one or about *)
(* to be, or only asked for.                                                *)
Requests(i) ==
  {ord \in Sent \union Pending : ord.servo = i /\ ord.order = "GET" /\ ord.par = "position"}

Heard(i) == world[i].angle \in reported[i]

Arriving(i) == Heard(i) \/ Meets(sup.frames, Requests(i))

Answering(i) ==
  \/ Arriving(i)
  \/ Meets(answers, Requests(i))
  \/ Meets(bus, Requests(i))
  \/ sup.pc = "frames" /\ Meets(queue, Requests(i))

Asked(i) == Answering(i) \/ Meets(queue, Requests(i))

(* The three signals that the reflex awaits after its first orders are      *)
(* enough for the first measurement to have been heard.                     *)
Stage(i) ==
  /\ hold.pc = "queue" /\ hold.next = "third" => Asked(i) \/ Meets(hold.todo, Requests(i))
  /\ hold.pc = "third" => Asked(i) /\ (woken => Answering(i))
  /\ hold.pc = "second" => Answering(i) /\ (woken => Arriving(i))
  /\ hold.pc = "last" => Arriving(i) /\ (woken => Heard(i))
  /\ hold.pc \in {"boot1", "boot3", "loop1", "loop3", "check", "period"} => Heard(i)
  /\ hold.pc = "queue" /\ hold.next # "third" => Heard(i)

(* What the servos answer is what they measured. *)
Reports ==
  {ord \in Sent : ord.order = "GET" /\ ord.par = "position" => ord.val \in reported[ord.servo]}

(* An angle that a servo has measured, or that the world began with when a  *)
(* fault has let the reflex go on too early.                                *)
Usable(i, n) == n \in reported[i] \/ (faults > 0 /\ n = 0)

(* The angles that the reflex holds are usable ones. *)
AnglesHeld ==
  /\ hold.pc \in {"boot3", "loop3"} => Usable("servo1", hold.angle["servo1"])
  /\ hold.pc = "check" \/ (hold.pc = "queue" /\ hold.next = "check") =>
       \A i \in Servos : Usable(i, hold.angle[i])

Angles == {n \in Nat : n <= 4095}

Measured ==
  /\ faults \in Nat
  /\ reported \in [Servos -> SUBSET Angles]
  /\ sup.frames \in Seq(Reports) /\ answers \in Seq(Reports)
  /\ \A i \in Servos : Heard(i) \/ world[i].angle = 0
  /\ faults = 0 => \A i \in Servos : Stage(i)
  /\ AnglesHeld

(* At first nothing has been asked or answered. *)
LEMMA InitMeasured == Init => Measured
<1>. SUFFICES ASSUME Init PROVE Measured
  OBVIOUS
<1>1. /\ hold.pc = "start" /\ sup.frames = <<>> /\ answers = <<>>
      /\ reported = [i \in Servos |-> {}] /\ faults = 0
      /\ \A i \in Servos : world[i].angle = 0
  BY DEF Init, InitBoard
<1>2. <<>> \in Seq(Reports)
  BY EmptySeq
<1>. QED  BY <1>1, <1>2 DEF Measured, Stage, AnglesHeld

(* Faults are only counted. *)
LEMMA FaultsGrow ==
  ASSUME faults \in Nat, [Next]_vars
  PROVE  /\ faults' \in Nat /\ faults' >= faults
         /\ faults' = faults \/ UplinkFails \/ WakeEarly
         /\ faults' = 0 => faults = 0 /\ ~UplinkFails /\ ~WakeEarly
<1>1. CASE UplinkFails \/ WakeEarly
  <2>1. faults' = faults + 1
    BY <1>1 DEF UplinkFails, WakeEarly
  <2>. QED  BY <1>1, <2>1
<1>2. CASE ~(UplinkFails \/ WakeEarly)
  <2>1. faults' = faults
    BY <1>2 DEF Next, Uplink, ReceiveFrame, Downlink, Transmit, Reflex, Collide, vars
  <2>. QED  BY <1>2, <2>1
<1>. QED  BY <1>1, <1>2

(* What has been measured is kept; every servo's answers say it. *)
LEMMA ReportedGrows ==
  ASSUME RobotInv, Measured, [Next]_vars
  PROVE  /\ reported' \in [Servos -> SUBSET Angles]
         /\ \A i \in Servos : reported[i] \subseteq reported'[i]
         /\ Reports \subseteq Reports'
<1>1. reported \in [Servos -> SUBSET Angles]
  BY DEF Measured
<1>2. /\ reported' \in [Servos -> SUBSET Angles]
      /\ \A i \in Servos : reported[i] \subseteq reported'[i]
  <2>1. CASE reported' = reported
    BY <1>1, <2>1
  <2>2. CASE Transmit
    <3>. DEFINE ord == Head(bus)
    <3>1. ord \in Sent
      BY <2>2, HeadAccepted DEF Transmit
    <3>2. ord.servo \in Servos
      BY <3>1 DEF Sent
    <3>. HIDE DEF ord
    <3>3. ASSUME NEW count \in Counts[ord.servo], HandleGet(ord, count)
          PROVE  /\ reported' \in [Servos -> SUBSET Angles]
                 /\ \A i \in Servos : reported[i] \subseteq reported'[i]
      <4>1. count \in Angles
        BY <3>2, CountsAssumption DEF Angles
      <4>. HIDE DEF Angles
      <4>2. reported' = reported
            \/ reported' = [reported EXCEPT ![ord.servo] = @ \union {count}]
        BY <3>3 DEF HandleGet
      <4>. QED  BY <1>1, <3>2, <4>1, <4>2
    <3>4. CASE HandleWrite(ord) \/ HandlePid(ord)
      BY <2>1, <3>4 DEF HandleWrite, HandlePid
    <3>. QED  BY <2>2, <3>3, <3>4 DEF Transmit, ord
  <2>. QED  BY <2>1, <2>2 DEF Next, Uplink, UplinkFails, ReceiveFrame, Downlink, Reflex,
                              WakeEarly, Collide, vars
<1>3. Reports \subseteq Reports'
  <2>. SUFFICES ASSUME NEW x \in Reports PROVE x \in Reports'
    OBVIOUS
  <2>1. x \in Sent /\ x.servo \in Servos
        /\ (x.order = "GET" /\ x.par = "position" => x.val \in reported[x.servo])
    BY DEF Reports, Sent
  <2>2. x.order = "GET" /\ x.par = "position" => x.val \in reported'[x.servo]
    BY <1>2, <2>1
  <2>. QED  BY <2>1, <2>2 DEF Reports
<1>. QED  BY <1>2, <1>3

(* The position an answer carries is one the servo has reported. *)
LEMMA AnswersReport ==
  ASSUME RobotInv, Measured, [Next]_vars
  PROVE  sup'.frames \in Seq(Reports') /\ answers' \in Seq(Reports')
<1>1. sup.frames \in Seq(Reports') /\ answers \in Seq(Reports') /\ <<>> \in Seq(Reports')
  BY ReportedGrows, SeqMonotonic, EmptySeq DEF Measured
<1>2. CASE Uplink
  BY <1>1, <1>2 DEF Uplink, op_new_period
<1>3. CASE ReceiveFrame
  <2>1. /\ sup.frames # <<>> /\ sup' = [sup EXCEPT !.frames = Tail(sup.frames)]
        /\ answers' = answers
    BY <1>3 DEF ReceiveFrame, op_recv_frame
  <2>2. Tail(sup.frames) \in Seq(Reports')
    BY <1>1, <2>1, HeadTailProperties
  <2>. QED  BY <1>1, <2>1, <2>2 DEF RobotInv, BoardType
<1>4. CASE Transmit
  <2>. DEFINE ord == Head(bus)
  <2>1. /\ ord \in Sent /\ ord.servo \in Servos
        /\ sup' = sup
    BY <1>4, HeadAccepted DEF Transmit, board, Sent
  <2>2. \/ \E count \in Counts[ord.servo] : HandleGet(ord, count)
        \/ HandleWrite(ord)
        \/ HandlePid(ord)
    BY <1>4 DEF Transmit
  <2>. HIDE DEF ord
  <2>3. ASSUME NEW count \in Counts[ord.servo], HandleGet(ord, count)
        PROVE  answers' \in Seq(Reports')
    <3>. DEFINE x == [ord EXCEPT !.val = count]
    <3>1. count \in Int
      BY <2>1, CountsAssumption
    <3>2. /\ x \in Sent /\ x.servo = ord.servo /\ x.par = ord.par /\ x.val = count
      BY <2>1, <3>1 DEF Sent
    <3>3. answers' = Append(answers, x)
          /\ (ord.par = "position" => reported' = [reported EXCEPT ![ord.servo] = @ \union {count}])
      BY <2>3 DEF HandleGet
    <3>. HIDE DEF x
    <3>4. ord.par = "position" => count \in reported'[ord.servo]
      BY <2>1, <3>3 DEF Measured
    <3>5. x \in Reports'
      BY <3>2, <3>4 DEF Reports
    <3>. QED  BY <1>1, <3>3, <3>5, AppendProperties
  <2>4. ASSUME HandleWrite(ord)
        PROVE  answers' \in Seq(Reports')
    <3>1. PICK echo \in Int :
            /\ [ord EXCEPT !.val = echo] \in Sent
            /\ \/ answers' = Append(answers, [ord EXCEPT !.val = echo])
               \/ answers' = answers
      BY <2>1, <2>4, WriteAnswer
    <3>. DEFINE x == [ord EXCEPT !.val = echo]
    <3>2. ord.order \in WriteOrders /\ (answers' = Append(answers, x) \/ answers' = answers)
      BY <2>4, <3>1 DEF HandleWrite
    <3>3. x \in Sent /\ x.order = ord.order
      BY <2>1, <3>1 DEF Sent
    <3>. HIDE DEF x
    <3>4. x \in Reports'
      BY <3>2, <3>3 DEF Reports, WriteOrders
    <3>. QED  BY <1>1, <3>2, <3>4, AppendProperties
  <2>5. HandlePid(ord) => answers' \in Seq(Reports')
    BY <1>1 DEF HandlePid
  <2>. QED  BY <1>1, <2>1, <2>2, <2>3, <2>4, <2>5
<1>5. CASE Downlink
  BY <1>1, <1>5 DEF Downlink, com_downlink, RobotInv, BoardType
<1>6. CASE Runs
  <2>1. sup' = sup
    BY <1>6 DEF Runs, Reflex, Hold, FirstWait, Wake, WakeUp, com_queue_order, GetPositions,
            get_position, get_collision, WakeEarly, SpuriousWake
  <2>. QED  BY <1>1, <1>6, <2>1 DEF Runs, Reflex, WakeEarly
<1>7. CASE Collide
  BY <1>1, <1>7 DEF Collide, update_collision
<1>8. CASE UNCHANGED vars
  BY <1>1, <1>8 DEF vars, board
<1>9. CASE UplinkFails
  BY <1>1, <1>9 DEF UplinkFails, UplinkError
<1>. QED  BY <1>2, <1>3, <1>4, <1>5, <1>6, <1>7, <1>8, <1>9 DEF Next, Runs

(* An uplink brings a measurement one stage nearer. *)
LEMMA UplinkBrings ==
  ASSUME RobotInv, Shape, Uplink, NEW i \in Servos
  PROVE  /\ Asked(i) => Answering(i)'
         /\ Answering(i) => Arriving(i)'
         /\ Arriving(i) => Heard(i)'
<1>1. /\ bus = <<>> /\ bus' = <<>> /\ answers' = <<>> /\ queue' = queue
      /\ sup.frames = <<>> /\ sup.pc = "uplink"
      /\ sup' = [pc |-> "frames", frames |-> answers]
      /\ world' = world /\ reported' = reported
  BY DEF Uplink, op_new_period, Shape
<1>2. ~Meets(<<>>, Requests(i)) /\ Requests(i)' = Requests(i)
  BY EmptyMeets DEF Requests
<1>3. Heard(i)' <=> Heard(i)
  BY <1>1 DEF Heard
<1>4. Asked(i) => Heard(i) \/ Meets(answers, Requests(i)) \/ Meets(queue, Requests(i))
  BY <1>1, <1>2 DEF Asked, Answering, Arriving
<1>5. Answering(i) => Heard(i) \/ Meets(answers, Requests(i))
  BY <1>1, <1>2 DEF Answering, Arriving
<1>6. Arriving(i) => Heard(i)
  BY <1>1, <1>2 DEF Arriving
<1>7. Arriving(i)' <=> Heard(i) \/ Meets(answers, Requests(i))
  BY <1>1, <1>2, <1>3 DEF Arriving
<1>8. Answering(i)' <=> Arriving(i)' \/ Meets(queue, Requests(i))
  <2>1. /\ Meets(answers, Requests(i))' <=> FALSE
        /\ Meets(bus, Requests(i))' <=> FALSE
        /\ Meets(queue, Requests(i))' <=> Meets(queue, Requests(i))
        /\ sup'.pc = "frames"
    BY <1>1, <1>2 DEF Meets
  <2>. QED  BY <2>1 DEF Answering
<1>. QED  BY <1>3, <1>4, <1>5, <1>6, <1>7, <1>8

(* The other steps take none away. *)
LEMMA FrameHeard ==
  ASSUME RobotInv, Measured, ReceiveFrame, NEW i \in Servos
  PROVE  /\ Heard(i) => Heard(i)'
         /\ Arriving(i) => Arriving(i)'
         /\ Heard(i)' \/ world'[i].angle = world[i].angle
<1>. DEFINE f == Head(sup.frames)
            w == world[f.servo]
            Board == [polarity : Bits, reg : Registers, max_torque : Int, angle : Int]
<1>1. /\ sup.frames \in Seq(Sent) /\ sup.frames # <<>>
      /\ world' = [world EXCEPT ![f.servo] = Learn(w, f)]
      /\ sup' = [sup EXCEPT !.frames = Tail(sup.frames)]
      /\ reported' = reported
  BY DEF ReceiveFrame, op_recv_frame, RobotInv, BoardType
<1>2. f \in Reports /\ f \in Sent
  BY <1>1, HeadTailProperties DEF Measured
<1>3. f.servo \in Servos /\ f.val \in Int /\ w \in Board
  BY <1>2 DEF Sent, RobotInv, BoardType
<1>4. Learn(w, f).angle = IF f.order = "GET" /\ f.par = "position" THEN f.val ELSE w.angle
  <2>. HIDE DEF f, w
  <2>1. "GET" \notin WriteOrders
    BY DEF WriteOrders
  <2>. QED  BY <1>3, <2>1
            DEF Learn, update_position, update_register, update_max_torque
<1>. HIDE DEF f
<1>5. world'[i].angle = IF f.servo = i /\ f.order = "GET" /\ f.par = "position" THEN f.val
                        ELSE world[i].angle
  BY <1>1, <1>3, <1>4 DEF RobotInv, BoardType
<1>6. f.order = "GET" /\ f.par = "position" => f.val \in reported[f.servo]
  BY <1>2 DEF Reports
<1>7. Heard(i) => Heard(i)'
  BY <1>1, <1>5, <1>6 DEF Heard
<1>8. f \in Requests(i) => Heard(i)'
  BY <1>1, <1>5, <1>6 DEF Heard, Requests
<1>9. Meets(sup.frames, Requests(i)) => f \in Requests(i) \/ Meets(Tail(sup.frames), Requests(i))
  BY <1>1, TailMeets DEF f
<1>10. Meets(Tail(sup.frames), Requests(i)) => Meets(sup.frames, Requests(i))'
  <2>1. sup'.frames = Tail(sup.frames)
    BY <1>1 DEF RobotInv, BoardType
  <2>. QED  BY <2>1 DEF Meets, Requests
<1>11. Heard(i)' \/ world'[i].angle = world[i].angle
  BY <1>1, <1>5, <1>6 DEF Heard
<1>. QED  BY <1>7, <1>8, <1>9, <1>10, <1>11 DEF Arriving

(* A request that leaves the bus leaves an answer. *)
LEMMA OrderAnswered ==
  ASSUME RobotInv, Measured, Transmit, NEW i \in Servos
  PROVE  /\ Heard(i) => Heard(i)'
         /\ Meets(bus, Requests(i)) => Meets(bus, Requests(i))' \/ Meets(answers, Requests(i))'
         /\ Meets(answers, Requests(i)) => Meets(answers, Requests(i))'
<1>. DEFINE ord == Head(bus)
<1>1. /\ bus \in Seq(Sent) /\ bus # <<>> /\ bus' = Tail(bus) /\ world' = world
      /\ answers \in Seq(Sent) /\ ord \in Sent /\ ord.servo \in Servos
  BY HeadAccepted DEF Transmit, board, RobotInv, LinkType, Sent
<1>2. Heard(i) => Heard(i)'
  BY <1>1, ReportedGrows DEF Heard, Next
<1>3. Requests(i)' = Requests(i)
  BY DEF Requests
<1>4. Meets(bus, Requests(i)) => ord \in Requests(i) \/ Meets(bus, Requests(i))'
  <2>1. Meets(bus, Requests(i)) => ord \in Requests(i) \/ Meets(Tail(bus), Requests(i))
    BY <1>1, TailMeets
  <2>. QED  BY <1>1, <1>3, <2>1 DEF Meets
<1>5. \/ \E count \in Counts[ord.servo] : HandleGet(ord, count)
      \/ HandleWrite(ord)
      \/ HandlePid(ord)
  BY DEF Transmit
<1>. HIDE DEF ord
<1>6. ASSUME NEW count \in Counts[ord.servo], HandleGet(ord, count)
      PROVE  /\ Meets(answers, Requests(i)) => Meets(answers, Requests(i))'
             /\ ord \in Requests(i) => Meets(answers, Requests(i))'
  <2>. DEFINE x == [ord EXCEPT !.val = count]
  <2>1. count \in Int
    BY <1>1, CountsAssumption
  <2>2. /\ x \in Sent /\ x.servo = ord.servo /\ x.par = ord.par /\ x.order = ord.order
    BY <1>1, <2>1 DEF Sent
  <2>3. ord \in Requests(i) => x \in Requests(i)
    BY <2>2 DEF Requests
  <2>4. answers' = Append(answers, x)
    BY <1>6 DEF HandleGet
  <2>. HIDE DEF x
  <2>5. Meets(Append(answers, x), Requests(i)) <=> Meets(answers, Requests(i)) \/ x \in Requests(i)
    BY <1>1, <2>2, AppendMeets
  <2>6. Meets(answers, Requests(i))' <=> Meets(Append(answers, x), Requests(i))
    BY <1>3, <2>4 DEF Meets
  <2>. QED  BY <2>3, <2>5, <2>6
<1>7. ASSUME HandleWrite(ord)
      PROVE  /\ Meets(answers, Requests(i)) => Meets(answers, Requests(i))'
             /\ ord \notin Requests(i)
  <2>1. PICK echo \in Int :
          /\ [ord EXCEPT !.val = echo] \in Sent
          /\ \/ answers' = Append(answers, [ord EXCEPT !.val = echo])
             \/ answers' = answers
    BY <1>1, <1>7, WriteAnswer
  <2>. DEFINE x == [ord EXCEPT !.val = echo]
  <2>2. ord.order \in WriteOrders /\ (answers' = Append(answers, x) \/ answers' = answers)
    BY <1>7, <2>1 DEF HandleWrite
  <2>3. x \in Sent
    BY <2>1
  <2>. HIDE DEF x
  <2>4. Meets(Append(answers, x), Requests(i)) <=> Meets(answers, Requests(i)) \/ x \in Requests(i)
    BY <1>1, <2>3, AppendMeets
  <2>5. Meets(answers, Requests(i)) => Meets(answers, Requests(i))'
    BY <1>3, <2>2, <2>4 DEF Meets
  <2>6. ord \notin Requests(i)
    BY <2>2 DEF Requests, WriteOrders
  <2>. QED  BY <2>5, <2>6
<1>8. ASSUME HandlePid(ord)
      PROVE  /\ Meets(answers, Requests(i)) => Meets(answers, Requests(i))'
             /\ ord \notin Requests(i)
  <2>1. answers' = answers /\ ord.order = "PID_POS"
    BY <1>8 DEF HandlePid
  <2>2. Meets(answers, Requests(i)) => Meets(answers, Requests(i))'
    BY <1>3, <2>1 DEF Meets
  <2>. QED  BY <2>1, <2>2 DEF Requests
<1>. QED  BY <1>2, <1>4, <1>5, <1>6, <1>7, <1>8

(* Between uplinks no measurement falls back to an earlier stage, unless   *)
(* an uplink fails.                                                        *)
LEMMA StagesKept ==
  ASSUME RobotInv, Shape, Measured, [Next]_vars, ~Uplink, ~UplinkFails, ~WakeEarly,
         NEW i \in Servos
  PROVE  /\ Heard(i) => Heard(i)'
         /\ Arriving(i) => Arriving(i)'
         /\ Answering(i) => Answering(i)'
         /\ Asked(i) => Asked(i)'
<1>1. Requests(i)' = Requests(i)
  BY DEF Requests
<1>2. ASSUME UNCHANGED <<sup, answers, bus, queue, reported>>,
             world'[i].angle = world[i].angle
      PROVE  /\ Heard(i) => Heard(i)'
             /\ Arriving(i) => Arriving(i)'
             /\ Answering(i) => Answering(i)'
             /\ Asked(i) => Asked(i)'
  BY <1>1, <1>2 DEF Heard, Arriving, Answering, Asked, Meets
<1>3. CASE ReceiveFrame
  <2>1. /\ UNCHANGED <<answers, bus, queue>>
        /\ sup'.pc = sup.pc
    BY <1>3 DEF ReceiveFrame, op_recv_frame, RobotInv, BoardType
  <2>2. /\ Meets(answers, Requests(i))' <=> Meets(answers, Requests(i))
        /\ Meets(bus, Requests(i))' <=> Meets(bus, Requests(i))
        /\ Meets(queue, Requests(i))' <=> Meets(queue, Requests(i))
    BY <1>1, <2>1 DEF Meets
  <2>. QED  BY <1>3, <2>1, <2>2, FrameHeard DEF Answering, Asked
<1>4. CASE Transmit
  <2>1. /\ UNCHANGED <<sup, queue, world>>
    BY <1>4 DEF Transmit, board
  <2>2. /\ Meets(queue, Requests(i))' <=> Meets(queue, Requests(i))
        /\ Meets(sup.frames, Requests(i))' <=> Meets(sup.frames, Requests(i))
    BY <1>1, <2>1 DEF Meets
  <2>3. Arriving(i) => Arriving(i)'
    BY <1>4, <2>2, OrderAnswered DEF Arriving
  <2>4. Answering(i) => Answering(i)'
    BY <1>4, <2>1, <2>2, <2>3, OrderAnswered DEF Answering
  <2>. QED  BY <1>4, <2>2, <2>3, <2>4, OrderAnswered DEF Asked
<1>5. CASE Downlink
  <2>1. /\ sup.pc = "frames" /\ sup'.frames = sup.frames /\ bus' = bus \o queue
        /\ bus \in Seq(Sent) /\ queue \in Seq(Sent)
        /\ UNCHANGED <<world, answers, reported>>
    BY <1>5 DEF Downlink, com_downlink, RobotInv, BoardType, LinkType
  <2>2. Meets(bus \o queue, Requests(i)) <=> Meets(bus, Requests(i)) \/ Meets(queue, Requests(i))
    BY <2>1, ConcatMeets
  <2>3. /\ Meets(bus, Requests(i))' <=> Meets(bus, Requests(i)) \/ Meets(queue, Requests(i))
        /\ Meets(answers, Requests(i))' <=> Meets(answers, Requests(i))
        /\ Meets(sup.frames, Requests(i))' <=> Meets(sup.frames, Requests(i))
    BY <1>1, <2>1, <2>2 DEF Meets
  <2>4. Heard(i) <=> Heard(i)'
    BY <2>1 DEF Heard
  <2>. QED  BY <2>3, <2>4 DEF Arriving, Answering, Asked
<1>6. CASE Reflex /\ com_queue_order
  <2>1. /\ UNCHANGED <<sup, answers, bus, reported>>
    BY <1>6 DEF Reflex, com_queue_order
  <2>2. PICK x \in Sent : queue' = Append(queue, x)
    BY <1>6, <2>1, PathQueued
  <2>3. Meets(queue, Requests(i)) => Meets(queue, Requests(i))'
    <3>1. queue \in Seq(Sent)
      BY DEF RobotInv, BoardType
    <3>2. Meets(queue, Requests(i)) => Meets(queue', Requests(i))
      BY <2>2, <3>1, AppendMeets
    <3>. QED  BY <1>1, <3>2 DEF Meets
  <2>4. world'[i].angle = world[i].angle
    <3>1. world' = [world EXCEPT ![Head(hold.todo).servo].polarity =
                      NextPolarity(world[Head(hold.todo).servo].polarity, Head(hold.todo).order)]
      BY <1>6 DEF com_queue_order
    <3>. QED  BY <3>1 DEF RobotInv, BoardType
  <2>5. /\ Meets(answers, Requests(i))' <=> Meets(answers, Requests(i))
        /\ Meets(bus, Requests(i))' <=> Meets(bus, Requests(i))
        /\ Meets(sup.frames, Requests(i))' <=> Meets(sup.frames, Requests(i))
    BY <1>1, <2>1 DEF Meets
  <2>6. Heard(i) <=> Heard(i)'
    BY <2>1, <2>4 DEF Heard
  <2>. QED  BY <2>1, <2>3, <2>5, <2>6 DEF Arriving, Answering, Asked
<1>7. CASE Reflex /\ ~com_queue_order
  <2>1. UNCHANGED <<world, queue, sup, bus, answers, servo, reported>>
    BY <1>7, ReflexMoves DEF Runs
  <2>. QED  BY <1>2, <2>1
<1>8. CASE Collide
  BY <1>2, <1>8 DEF Collide, update_collision
<1>9. CASE UNCHANGED vars
  BY <1>2, <1>9 DEF vars, board
<1>. QED  BY <1>3, <1>4, <1>5, <1>6, <1>7, <1>8, <1>9 DEF Next

(* Before anything else the reflex asks both servos for their positions. *)
LEMMA PositionsAsked ==
  ASSUME NEW i \in Servos
  PROVE  Meets(Configuration, Requests(i)) /\ Meets(Measurements, Requests(i))
<1>1. /\ {"position", "channel", "mod_fact", "kp", "ki", "int_limit", "max_torque"} \subseteq Infos
      /\ {"GET", "WRITE"} \subseteq Kinds \union {"WRITE"}
  BY DEF Infos, Params, Measures, Kinds
<1>2. /\ Same(0) \in [Servos -> Int] /\ Same(100) \in [Servos -> Int]
      /\ Gain(30, 10) \in [Servos -> Int] /\ Gain(30, 5) \in [Servos -> Int]
      /\ Same(low_integral_limit) \in [Servos -> Int] /\ Same(low_max_torque) \in [Servos -> Int]
  BY DEF Same, Gain, Servos, low_integral_limit, low_max_torque
<1>3. /\ Both("GET", "position", Same(0)) \in Seq(Pending)
      /\ Both("GET", "channel", Same(0)) \in Seq(Pending)
      /\ Both("WRITE", "mod_fact", Same(100)) \in Seq(Pending)
      /\ Both("WRITE", "kp", Gain(30, 10)) \in Seq(Pending)
      /\ Both("WRITE", "ki", Gain(30, 5)) \in Seq(Pending)
      /\ Both("WRITE", "int_limit", Same(low_integral_limit)) \in Seq(Pending)
      /\ Both("WRITE", "max_torque", Same(low_max_torque)) \in Seq(Pending)
  BY <1>1, <1>2, BothType
<1>4. Meets(Both("GET", "position", Same(0)), Requests(i))
  <2>. DEFINE b == Both("GET", "position", Same(0))
              x == Order(i, "GET", "position", 0)
  <2>1. x \in Pending /\ x.servo = i /\ x.order = "GET" /\ x.par = "position"
    BY <1>1 DEF Order, Pending, Tags, Pids
  <2>2. x \in Requests(i)
    BY <2>1 DEF Requests
  <2>3. Len(b) = 2 /\ b[1] = Order("servo1", "GET", "position", 0)
        /\ b[2] = Order("servo3", "GET", "position", 0)
    BY DEF Both, Same, Servos
  <2>4. \E k \in 1..2 : b[k] = x
    <3>1. CASE i = "servo1"
      BY <2>3, <3>1
    <3>2. CASE i = "servo3"
      BY <2>3, <3>2
    <3>. QED  BY <3>1, <3>2 DEF Servos
  <2>. HIDE DEF b, x
  <2>. QED  BY <2>2, <2>3, <2>4 DEF Meets, b
<1>5. Meets(Measurements, Requests(i)) /\ Measurements \in Seq(Pending)
  BY <1>3, <1>4, ConcatMeets, ScriptsType DEF Measurements
<1>6. \A s \in Seq(Pending) : Meets(s \o Measurements, Requests(i))
  BY <1>5, ConcatMeets
<1>7. \A s, t \in Seq(Pending) : s \o t \in Seq(Pending)
  BY ConcatProperties
<1>. QED  BY <1>3, <1>5, <1>6, <1>7 DEF Configuration

(* A wait of the reflex that ends without a fault was signalled. *)
LEMMA Signalled == Reflex /\ hold.pc \in Waits => woken
BY DEF Reflex, Hold, FirstWait, Wake, com_queue_order, GetPositions, get_position,
       get_collision, Waits

(* Every wait of the reflex brings the measurement one stage further. *)
LEMMA StageStep ==
  ASSUME RobotInv, Shape, Measured, [Next]_vars, faults' = 0, NEW i \in Servos
  PROVE  Stage(i)'
<1>1. Stage(i) /\ ~UplinkFails /\ ~WakeEarly
  BY FaultsGrow DEF Measured
<1>2. Requests(i)' = Requests(i)
  BY DEF Requests
<1>3. CASE Uplink
  <2>1. hold' = hold /\ hold.pc = hold'.pc /\ woken' = (woken \/ Sleeping)
    BY <1>3 DEF Uplink, op_new_period
  <2>2. /\ Asked(i) => Answering(i)'
        /\ Answering(i) => Arriving(i)'
        /\ Arriving(i) => Heard(i)'
    BY <1>3, UplinkBrings
  <2>3. /\ Heard(i) => Heard(i)'
        /\ Answering(i)' => Asked(i)'
    BY <1>3 DEF Uplink, op_new_period, Heard, Arriving, Answering, Asked
  <2>4. Arriving(i)' => Answering(i)'
    BY DEF Answering
  <2>5. Meets(hold.todo, Requests(i))' <=> Meets(hold.todo, Requests(i))
    BY <1>2, <2>1 DEF Meets
  <2>. HIDE DEF Heard, Arriving, Answering, Asked
  <2>6. woken => woken'
    BY <2>1 DEF Shape
  <2>7. /\ hold'.pc = "queue" /\ hold'.next = "third" => Asked(i)' \/ Meets(hold.todo, Requests(i))'
        /\ hold'.pc = "third" => Asked(i)' /\ Answering(i)'
        /\ hold'.pc = "second" => Answering(i)' /\ Arriving(i)'
    <3>1. /\ hold.pc = "queue" /\ hold.next = "third" => Asked(i) \/ Meets(hold.todo, Requests(i))
          /\ hold.pc = "third" => Asked(i)
          /\ hold.pc = "second" => Answering(i)
      BY <1>1 DEF Stage
    <3>. QED  BY <2>1, <2>2, <2>3, <2>4, <2>5, <3>1
  <2>8. /\ hold'.pc = "last" => Arriving(i)' /\ Heard(i)'
        /\ hold'.pc \in {"boot1", "boot3", "loop1", "loop3", "check", "period"} => Heard(i)'
        /\ hold'.pc = "queue" /\ hold'.next # "third" => Heard(i)'
    <3>1. Heard(i)' => Arriving(i)'
      BY DEF Arriving
    <3>. QED  BY <1>1, <2>1, <2>2, <2>3, <3>1 DEF Stage
  <2>. QED  BY <2>7, <2>8 DEF Stage
<1>4. CASE ~Uplink
  <2>1. /\ Heard(i) => Heard(i)'
        /\ Arriving(i) => Arriving(i)'
        /\ Answering(i) => Answering(i)'
        /\ Asked(i) => Asked(i)'
    BY <1>1, <1>4, StagesKept
  <2>2. /\ Heard(i)' => Arriving(i)' 
        /\ Arriving(i)' => Answering(i)' 
        /\ Answering(i)' => Asked(i)'
    BY DEF Arriving, Answering, Asked
  <2>. HIDE DEF Heard, Arriving, Answering, Asked
  <2>3. ASSUME UNCHANGED <<hold, woken>> PROVE Stage(i)'
    <3>1. Meets(hold.todo, Requests(i))' <=> Meets(hold.todo, Requests(i))
      BY <1>2, <2>3 DEF Meets
    <3>. QED  BY <1>1, <2>1, <2>3, <3>1 DEF Stage
  <2>4. CASE Reflex /\ com_queue_order
    <3>1. /\ hold.pc = "queue" /\ hold.todo # <<>> /\ hold.todo \in Seq(Pending)
          /\ \/ hold'.pc = "queue" /\ hold'.next = hold.next
             \/ hold'.pc = hold.next /\ hold'.todo = <<>>
          /\ woken' = woken
      BY <2>4 DEF com_queue_order, RobotInv, BoardType
    <3>2. ~woken /\ hold.next \in {"third", "loop1", "check", "period"}
      BY <3>1 DEF Shape, Sleeping, Waits
    <3>3. Heard(i) \/ hold.next = "third"
      BY <1>1, <3>1 DEF Stage
    <3>4. hold.next = "third" => Asked(i)' \/ Meets(hold.todo, Requests(i))'
      <4>1. bus' = bus
        BY <2>4 DEF Reflex
      <4>2. PICK x \in Sent : queue' = Append(queue, x) /\ Plain(x) = Head(hold.todo)
        BY <2>4, <4>1, PathQueued
      <4>3. hold'.todo = Tail(hold.todo) /\ queue \in Seq(Sent)
        BY <2>4, <4>1, PathQueued DEF RobotInv, BoardType
      <4>4. Meets(hold.todo, Requests(i)) =>
              Head(hold.todo) \in Requests(i) \/ Meets(Tail(hold.todo), Requests(i))
        BY <3>1, TailMeets
      <4>5. Head(hold.todo) \in Requests(i) => x \in Requests(i)
        <5>1. /\ Plain(x).servo = x.servo /\ Plain(x).par = x.par
              /\ Plain(x).order = IF x.order \in WriteOrders THEN "WRITE" ELSE x.order
          BY PlainPending
        <5>. QED  BY <4>2, <5>1 DEF Requests
      <4>6. x \in Requests(i) => Meets(queue', Requests(i))
        BY <4>2, <4>3, AppendMeets
      <4>7. x \in Requests(i) => Asked(i)'
        BY <1>2, <4>6 DEF Asked, Meets
      <4>8. Meets(Tail(hold.todo), Requests(i)) => Meets(hold.todo, Requests(i))'
        BY <1>2, <4>3 DEF Meets
      <4>. QED  BY <1>1, <2>1, <3>1, <4>4, <4>5, <4>7, <4>8 DEF Stage
    <3>5. hold'.todo = <<>> => ~Meets(hold.todo, Requests(i))'
      BY EmptyMeets DEF Meets
    <3>. QED  BY <2>1, <3>1, <3>2, <3>3, <3>4, <3>5 DEF Stage
  <2>5. CASE Reflex /\ ~com_queue_order
    <3>1. Moves /\ (hold.pc \in Waits => woken)
      BY <2>5, ReflexMoves, Signalled DEF Runs
    <3>2. hold'.todo = Configuration => Meets(hold.todo, Requests(i))'
      BY <1>2, PositionsAsked DEF Meets
    <3>. HIDE DEF References, Enable, Measurements, Configuration, Stiffen
    <3>3. ~(hold.pc = "start" /\ woken)
      BY DEF Shape, Sleeping, Waits
    <3>4. \/ hold'.pc = "first"
          \/ hold'.pc = "queue" /\ hold'.next = "third" /\ hold'.todo = Configuration
          \/ hold.pc = "third" /\ hold'.pc = "second" /\ woken /\ woken' = FALSE
          \/ hold.pc = "second" /\ hold'.pc = "last" /\ woken /\ woken' = FALSE
          \/ hold.pc = "last" /\ hold'.pc = "boot1" /\ woken
          \/ /\ hold.pc \in {"boot1", "boot3", "loop1", "loop3", "check", "period"}
             /\ \/ hold'.pc \in {"boot3", "loop1", "loop3", "check", "period"}
                \/ hold'.pc = "queue" /\ hold'.next # "third"
      BY <3>1 DEF Moves, Goes, Waits
    <3>. QED  BY <1>1, <2>1, <2>2, <3>2, <3>4 DEF Stage
  <2>6. CASE ReceiveFrame \/ Downlink \/ Transmit \/ Collide
    BY <2>3, <2>6 DEF ReceiveFrame, op_recv_frame, Downlink, com_downlink, Transmit, board,
                      Collide, update_collision
  <2>7. CASE UNCHANGED vars
    BY <2>3, <2>7 DEF vars, board
  <2>. QED  BY <1>1, <1>4, <2>4, <2>5, <2>6, <2>7 DEF Next
<1>. QED  BY <1>3, <1>4

(* The world's angles are measured ones, or zeros. *)
LEMMA WorldStep ==
  ASSUME RobotInv, Shape, Measured, [Next]_vars, NEW i \in Servos
  PROVE  Heard(i)' \/ world'[i].angle = 0
<1>1. Heard(i) \/ world[i].angle = 0
  BY DEF Measured
<1>2. ASSUME world'[i].angle = world[i].angle PROVE Heard(i)' \/ world'[i].angle = 0
  <2>1. reported[i] \subseteq reported'[i]
    BY ReportedGrows
  <2>. QED  BY <1>1, <1>2, <2>1 DEF Heard
<1>3. CASE ReceiveFrame
  BY <1>1, <1>3, FrameHeard
<1>4. CASE Reflex /\ com_queue_order
  <2>1. world' = [world EXCEPT ![Head(hold.todo).servo].polarity =
                    NextPolarity(world[Head(hold.todo).servo].polarity, Head(hold.todo).order)]
    BY <1>4 DEF com_queue_order
  <2>. QED  BY <1>2, <2>1 DEF RobotInv, BoardType
<1>5. CASE Runs /\ ~com_queue_order
  BY <1>2, <1>5, ReflexMoves
<1>6. CASE Uplink \/ UplinkFails \/ Downlink \/ Transmit \/ Collide \/ UNCHANGED vars
  BY <1>2, <1>6 DEF Uplink, op_new_period, UplinkFails, UplinkError, Downlink, com_downlink,
                    Transmit, board, Collide, update_collision, vars
<1>. QED  BY <1>3, <1>4, <1>5, <1>6, EarlyQueuesNothing DEF Next, Runs

(* When the reflex reads the world's angles they are usable. *)
LEMMA WorldUsable ==
  ASSUME Measured, hold.pc \in {"boot1", "boot3", "loop1", "loop3"}, NEW i \in Servos
  PROVE  Usable(i, world[i].angle)
<1>1. CASE faults = 0
  <2>1. Stage(i)
    BY <1>1 DEF Measured
  <2>. QED  BY <2>1 DEF Stage, Heard, Usable
<1>2. CASE faults # 0
  <2>1. faults > 0 /\ (Heard(i) \/ world[i].angle = 0)
    BY <1>2 DEF Measured
  <2>. QED  BY <2>1 DEF Heard, Usable
<1>. QED  BY <1>1, <1>2

(* The angles the reflex holds for its references remain usable ones.     *)
LEMMA AnglesStep ==
  ASSUME RobotInv, Shape, Measured, [Next]_vars
  PROVE  AnglesHeld'
<1>1. /\ faults \in Nat /\ faults' \in Nat /\ faults' >= faults
      /\ \A i \in Servos : reported[i] \subseteq reported'[i]
      /\ AnglesHeld
  BY ReportedGrows, FaultsGrow DEF Measured
<1>2. "servo1" \in Servos /\ \A i \in Servos : i = "servo1" \/ i = "servo3"
  BY DEF Servos
<1>3. ASSUME NEW i \in Servos, NEW n, Usable(i, n)
      PROVE  n \in reported'[i] \/ (faults' > 0 /\ n = 0)
  BY <1>1, <1>3 DEF Usable
<1>4. ASSUME hold' = hold PROVE AnglesHeld'
  BY <1>1, <1>2, <1>3, <1>4 DEF AnglesHeld, Usable
<1>5. CASE Reflex /\ com_queue_order
  <2>1. /\ hold.pc = "queue" /\ hold'.angle = hold.angle
        /\ \/ hold'.pc = "queue" /\ hold'.next = hold.next
           \/ hold'.pc = hold.next
    BY <1>5 DEF com_queue_order, RobotInv, BoardType
  <2>2. hold.next \in {"third", "loop1", "check", "period"}
    BY <2>1 DEF Shape
  <2>3. hold'.pc \notin {"boot3", "loop3"}
    BY <2>1, <2>2
  <2>4. /\ hold'.pc = "check" => hold.next = "check"
        /\ hold'.pc = "queue" /\ hold'.next = "check" => hold.next = "check"
    BY <2>1, <2>2
  <2>5. hold.next = "check" => \A i \in Servos : Usable(i, hold'.angle[i])
    BY <1>1, <2>1 DEF AnglesHeld
  <2>. QED  BY <1>3, <2>3, <2>4, <2>5 DEF AnglesHeld, Usable
<1>6. CASE Runs /\ ~com_queue_order
  <2>1. Moves /\ UNCHANGED reported
    BY <1>6, ReflexMoves
  <2>2. hold.pc \in {"boot1", "boot3", "loop1", "loop3"} =>
          \A i \in Servos : Usable(i, world[i].angle)
    BY WorldUsable
  <2>3. hold.angle \in [Servos -> Int]
    BY <1>2, ReadType
  <2>. HIDE DEF References, Enable, Measurements, Configuration, Stiffen
  <2>4. /\ hold'.pc \in {"boot3", "loop3"} =>
             hold.pc \in {"boot1", "loop1"} /\ hold'.angle = Read("servo1")
        /\ hold'.pc = "check" => FALSE
        /\ hold'.pc = "queue" /\ hold'.next = "check" =>
             hold.pc = "loop3" /\ hold'.angle = Read("servo3")
    BY <2>1 DEF Moves, Goes
  <2>5. /\ Read("servo1")["servo1"] = world["servo1"].angle
        /\ Read("servo3")["servo3"] = world["servo3"].angle
        /\ Read("servo3")["servo1"] = hold.angle["servo1"]
    BY <2>3 DEF Read, Servos
  <2>6. hold'.pc \in {"boot3", "loop3"} => Usable("servo1", hold'.angle["servo1"])
    BY <1>2, <2>2, <2>4, <2>5
  <2>7. hold'.pc = "queue" /\ hold'.next = "check" =>
          \A i \in Servos : Usable(i, hold'.angle[i])
    <3>1. hold.pc = "loop3" => Usable("servo1", hold.angle["servo1"])
      BY <1>1 DEF AnglesHeld
    <3>. QED  BY <1>2, <2>2, <2>4, <2>5, <3>1
  <2>. QED  BY <1>2, <1>3, <2>4, <2>6, <2>7 DEF AnglesHeld, Usable
<1>7. CASE Uplink \/ UplinkFails \/ ReceiveFrame \/ Downlink \/ Transmit \/ Collide
  BY <1>4, <1>7 DEF Uplink, op_new_period, UplinkFails, UplinkError, ReceiveFrame,
                    op_recv_frame, Downlink, com_downlink, Transmit, board, Collide,
                    update_collision
<1>8. CASE UNCHANGED vars
  BY <1>4, <1>8 DEF vars, board
<1>. QED  BY <1>5, <1>6, <1>7, <1>8, EarlyQueuesNothing DEF Next, Runs

(* Every step keeps the measurements on their way in time. *)
LEMMA StepMeasured == RobotInv /\ Shape /\ Measured /\ [Next]_vars => Measured'
<1>. SUFFICES ASSUME RobotInv, Shape, Measured, [Next]_vars PROVE Measured'
  OBVIOUS
<1>1. faults' \in Nat
  BY FaultsGrow DEF Measured
<1>2. \A i \in Servos : Heard(i)' \/ world'[i].angle = 0
  BY WorldStep
<1>3. faults' = 0 => \A i \in Servos : Stage(i)'
  BY StageStep
<1>. QED  BY <1>1, <1>2, <1>3, ReportedGrows, AnswersReport, AnglesStep DEF Measured

-----------------------------------------------------------------------------
(* What the reflex's scripts are made of. *)
Measuring == {ord \in Pending : ord.order = "GET"}

(* A WRITE that says which register it is for, of a value that is a byte    *)
(* other than zero.                                                         *)
ByteWrites(pars) ==
  {ord \in Pending : /\ ord.order = "WRITE" /\ ord.par \in pars
                     /\ ord.pid = IF ord.par \in Params THEN "pos" ELSE "none"
                     /\ 0 < ord.val /\ ord.val < 256}

MaxTorques(val) == {ord \in Pending : ord.par = "max_torque" => ord.val = val}

Configuring ==
  Measuring \union
    (ByteWrites({"mod_fact", "kp", "ki", "int_limit", "max_torque"}) \cap MaxTorques(low_max_torque))

Stiffening == ByteWrites({"int_limit", "max_torque"}) \cap MaxTorques(high_max_torque)

Referring(angle) ==
  {ord \in Pending : /\ ord.order = "WRITE" /\ ord.par = "ref" /\ ord.pid = "pos"
                     /\ ord.val = AngleToSend(angle[ord.servo])}

Enabling == {ord \in Pending : ord.order = "PID_POS" /\ ord.par = "on"}

(* A pair of orders is in the set that either is in. *)
LEMMA BothIn ==
  ASSUME NEW S, NEW order, NEW par, NEW val,
         \A i \in Servos : Order(i, order, par, val[i]) \in S
  PROVE  Both(order, par, val) \in Seq(S)
<1>1. Order("servo1", order, par, val["servo1"]) \in S
      /\ Order("servo3", order, par, val["servo3"]) \in S
  BY DEF Servos
<1>. QED  BY <1>1 DEF Both

(* One of the two orders is for either servo. *)
LEMMA BothMeet ==
  ASSUME NEW i \in Servos, NEW order, NEW par, NEW val, NEW U,
         Order(i, order, par, val[i]) \in U
  PROVE  Meets(Both(order, par, val), U)
<1>. DEFINE b == Both(order, par, val)
            x(j) == Order(j, order, par, val[j])
<1>1. Len(b) = 2 /\ b[1] = x("servo1") /\ b[2] = x("servo3")
  BY DEF Both
<1>. HIDE DEF b, x
<1>2. x(i) \in U
  BY DEF x
<1>3. CASE i = "servo1"
  BY <1>1, <1>2, <1>3 DEF Meets, b
<1>4. CASE i = "servo3"
  BY <1>1, <1>2, <1>4 DEF Meets, b
<1>. QED  BY <1>3, <1>4 DEF Servos

(* What an order of the reflex is made of. *)
LEMMA OrderFields ==
  ASSUME NEW i \in Servos, NEW order \in Kinds \union {"WRITE"}, NEW par \in Infos, NEW val \in Int
  PROVE  LET ord == Order(i, order, par, val)
         IN  /\ ord \in Pending
             /\ ord.servo = i /\ ord.order = order /\ ord.par = par /\ ord.val = val
             /\ ord.pid = IF par \in Params THEN "pos" ELSE "none"
BY DEF Order, Pending, Tags, Pids

(* A WRITE of a byte, and of a torque, is in its set. *)
LEMMA ByteWriteIn ==
  ASSUME NEW par \in {"mod_fact", "kp", "ki", "int_limit", "max_torque"},
         NEW val \in [Servos -> Int], \A i \in Servos : 0 < val[i] /\ val[i] < 256
  PROVE  \A i \in Servos :
           LET ord == Order(i, "WRITE", par, val[i])
           IN  /\ \A pars : par \in pars => ord \in ByteWrites(pars)
               /\ \A v : (par = "max_torque" => val[i] = v) => ord \in MaxTorques(v)
<1>1. par \in Infos /\ "WRITE" \in Kinds \union {"WRITE"}
  BY DEF Infos, Params
<1>. SUFFICES ASSUME NEW i \in Servos
              PROVE  LET ord == Order(i, "WRITE", par, val[i])
                     IN  /\ \A pars : par \in pars => ord \in ByteWrites(pars)
                         /\ \A v : (par = "max_torque" => val[i] = v) => ord \in MaxTorques(v)
  OBVIOUS
<1>. DEFINE ord == Order(i, "WRITE", par, val[i])
<1>2. /\ ord \in Pending /\ ord.order = "WRITE" /\ ord.par = par /\ ord.val = val[i]
      /\ ord.pid = IF par \in Params THEN "pos" ELSE "none"
  <2>1. val[i] \in Int
    OBVIOUS
  <2>. QED  BY <1>1, <2>1, OrderFields
<1>. HIDE DEF ord
<1>3. \A pars : par \in pars => ord \in ByteWrites(pars)
  BY <1>2 DEF ByteWrites
<1>4. \A v : (par = "max_torque" => val[i] = v) => ord \in MaxTorques(v)
  BY <1>2 DEF MaxTorques
<1>. QED  BY <1>3, <1>4 DEF ord

(* Which orders each script of the reflex is made of. *)
LEMMA ScriptsIn ==
  /\ Measurements \in Seq(Measuring)
  /\ Configuration \in Seq(Configuring)
  /\ Stiffen \in Seq(Stiffening)
  /\ Enable \in Seq(Enabling)
  /\ \A angle \in [Servos -> Int] : References(angle) \in Seq(Referring(angle))
<1>1. /\ {"position", "channel", "mod_fact", "kp", "ki", "int_limit", "max_torque", "ref", "on"}
           \subseteq Infos
      /\ {"GET", "PID_POS", "WRITE"} \subseteq Kinds \union {"WRITE"}
  BY DEF Infos, Measures, Params, Kinds
<1>2. Measurements \in Seq(Measuring)
  <2>1. ASSUME NEW par \in {"position", "channel"}
        PROVE  Both("GET", par, Same(0)) \in Seq(Measuring)
    <3>1. ASSUME NEW i \in Servos PROVE Order(i, "GET", par, Same(0)[i]) \in Measuring
      <4>1. Same(0)[i] \in Int
        BY DEF Same
      <4>. QED  BY <1>1, <4>1, OrderFields DEF Measuring
    <3>. QED  BY <3>1, BothIn
  <2>. QED  BY <2>1, ConcatProperties DEF Measurements
<1>3. /\ Same(100) \in [Servos -> Int] /\ Gain(30, 10) \in [Servos -> Int]
      /\ Gain(30, 5) \in [Servos -> Int] /\ Same(low_integral_limit) \in [Servos -> Int]
      /\ Same(low_max_torque) \in [Servos -> Int]
      /\ Same(high_max_torque) \in [Servos -> Int]
      /\ Same(high_integral_limit) \in [Servos -> Int]
      /\ \A i \in Servos : 0 < Same(100)[i] /\ Same(100)[i] < 256
      /\ \A i \in Servos : 0 < Gain(30, 10)[i] /\ Gain(30, 10)[i] < 256
      /\ \A i \in Servos : 0 < Gain(30, 5)[i] /\ Gain(30, 5)[i] < 256
      /\ \A i \in Servos : 0 < Same(low_integral_limit)[i] /\ Same(low_integral_limit)[i] < 256
      /\ \A i \in Servos : 0 < Same(low_max_torque)[i] /\ Same(low_max_torque)[i] < 256
      /\ \A i \in Servos : 0 < Same(high_max_torque)[i] /\ Same(high_max_torque)[i] < 256
      /\ \A i \in Servos : 0 < Same(high_integral_limit)[i] /\ Same(high_integral_limit)[i] < 256
      /\ \A i \in Servos : Same(low_max_torque)[i] = low_max_torque
      /\ \A i \in Servos : Same(high_max_torque)[i] = high_max_torque
  BY DEF Same, Gain, Servos, low_integral_limit, low_max_torque, high_integral_limit,
         high_max_torque
<1>4. ASSUME NEW par \in {"mod_fact", "kp", "ki", "int_limit", "max_torque"},
             NEW val \in [Servos -> Int], \A i \in Servos : 0 < val[i] /\ val[i] < 256
      PROVE  /\ (par = "max_torque" => \A i \in Servos : val[i] = low_max_torque)
                  => Both("WRITE", par, val) \in Seq(Configuring)
             /\ par \in {"int_limit", "max_torque"}
                  /\ (par = "max_torque" => \A i \in Servos : val[i] = high_max_torque)
                  => Both("WRITE", par, val) \in Seq(Stiffening)
  <2>1. ASSUME par = "max_torque" => \A i \in Servos : val[i] = low_max_torque
        PROVE  Both("WRITE", par, val) \in Seq(Configuring)
    <3>1. \A i \in Servos : Order(i, "WRITE", par, val[i]) \in Configuring
      BY <1>4, <2>1, ByteWriteIn DEF Configuring
    <3>. QED  BY <3>1, BothIn
  <2>2. ASSUME par \in {"int_limit", "max_torque"},
               par = "max_torque" => \A i \in Servos : val[i] = high_max_torque
        PROVE  Both("WRITE", par, val) \in Seq(Stiffening)
    <3>1. \A i \in Servos : Order(i, "WRITE", par, val[i]) \in Stiffening
      BY <1>4, <2>2, ByteWriteIn DEF Stiffening
    <3>. QED  BY <3>1, BothIn
  <2>. QED  BY <2>1, <2>2
<1>5. Configuration \in Seq(Configuring)
  <2>1. /\ Both("WRITE", "mod_fact", Same(100)) \in Seq(Configuring)
        /\ Both("WRITE", "kp", Gain(30, 10)) \in Seq(Configuring)
        /\ Both("WRITE", "ki", Gain(30, 5)) \in Seq(Configuring)
        /\ Both("WRITE", "int_limit", Same(low_integral_limit)) \in Seq(Configuring)
    <3>1. ASSUME NEW par \in {"mod_fact", "kp", "ki", "int_limit"}, NEW val \in [Servos -> Int],
                 \A i \in Servos : 0 < val[i] /\ val[i] < 256
          PROVE  Both("WRITE", par, val) \in Seq(Configuring)
      BY <1>4, <3>1
    <3>. QED  BY <1>3, <3>1
  <2>2. Both("WRITE", "max_torque", Same(low_max_torque)) \in Seq(Configuring)
    BY <1>3, <1>4
  <2>3. Measurements \in Seq(Configuring)
    BY <1>2, SeqMonotonic DEF Configuring
  <2>. QED  BY <2>1, <2>2, <2>3, ConcatProperties DEF Configuration
<1>6. Stiffen \in Seq(Stiffening)
  <2>1. /\ Both("WRITE", "max_torque", Same(high_max_torque)) \in Seq(Stiffening)
        /\ Both("WRITE", "int_limit", Same(high_integral_limit)) \in Seq(Stiffening)
    BY <1>3, <1>4
  <2>. QED  BY <2>1, ConcatProperties DEF Stiffen
<1>7. Enable \in Seq(Enabling)
  <2>1. ASSUME NEW i \in Servos PROVE Order(i, "PID_POS", "on", Same(0)[i]) \in Enabling
    <3>1. Same(0)[i] \in Int
      BY DEF Same
    <3>. QED  BY <1>1, <3>1, OrderFields DEF Enabling
  <2>. QED  BY <2>1, BothIn DEF Enable
<1>8. ASSUME NEW angle \in [Servos -> Int]
      PROVE  References(angle) \in Seq(Referring(angle))
  <2>. DEFINE val == [i \in Servos |-> AngleToSend(angle[i])]
  <2>1. ASSUME NEW i \in Servos PROVE Order(i, "WRITE", "ref", val[i]) \in Referring(angle)
    <3>1. val[i] = AngleToSend(angle[i]) /\ val[i] \in Int
      BY <2>1, AngleNear
    <3>2. "ref" \in Params
      BY DEF Params
    <3>. HIDE DEF val
    <3>. DEFINE ord == Order(i, "WRITE", "ref", val[i])
    <3>3. /\ ord \in Pending /\ ord.servo = i /\ ord.order = "WRITE" /\ ord.par = "ref"
          /\ ord.pid = "pos" /\ ord.val = val[i]
      <4>1. "ref" \in Infos /\ "WRITE" \in Kinds \union {"WRITE"} /\ val[i] \in Int
        BY <1>1, <3>1
      <4>2. /\ ord \in Pending /\ ord.servo = i /\ ord.order = "WRITE" /\ ord.par = "ref"
            /\ ord.pid = (IF "ref" \in Params THEN "pos" ELSE "none") /\ ord.val = val[i]
        BY <4>1 DEF Order, Pending, Tags, Pids
      <4>. QED  BY <3>2, <4>2
    <3>. HIDE DEF ord
    <3>4. ord \in Referring(angle)
      BY <3>1, <3>3 DEF Referring
    <3>. QED  BY <3>4 DEF ord
  <2>. QED  BY <2>1, BothIn DEF References
<1>. QED  BY <1>2, <1>5, <1>6, <1>7, <1>8

-----------------------------------------------------------------------------
(* What a servo needs before its position controller is switched on. *)
Needed == {"ref", "kp", "ki", "int_limit", "max_torque"}

(* A value that the servo has measured, to a count, or the zero of a fault. *)
Near(i, v) == (\E n \in reported[i] : v \in {n - 1, n}) \/ (faults > 0 /\ v = 0)

InForce(i, par) ==
  CASE par = "ref" -> servo[i].has_been_set /\ Near(i, servo[i].reg["pos"]["ref"])
    [] par = "max_torque" -> servo[i].max_torque > 0
    [] OTHER -> servo[i].reg["pos"][par] > 0

(* The orders that the reflex means to give. *)
Meant ==
  {ord \in Pending :
     /\ ord.order = "WRITE" =>
          /\ ord.par \in Needed \union {"mod_fact"}
          /\ ord.pid = IF ord.par \in Params THEN "pos" ELSE "none"
          /\ ord.par = "ref" => Near(ord.servo, ord.val) /\ 0 <= ord.val /\ ord.val < 65536
          /\ ord.par # "ref" => 0 < ord.val /\ ord.val < 256
          /\ ord.par = "max_torque" => ord.val \in {low_max_torque, high_max_torque}
     /\ ord.order = "PID_POS" => ord.par = "on"}

Settings(i, par) ==
  {ord \in Pending : ord.servo = i /\ ord.order = "WRITE" /\ ord.par = par}

Switches(i) == {ord \in Pending : ord.servo = i /\ ord.order = "PID_POS"}

(* What a servo needs is in force or comes before the order that switches   *)
(* it on; and once the reflex has begun, its gains and limits are in force  *)
(* or on their way.                                                         *)
Prepared(i, par) ==
  /\ InForce(i, par) \/ Preceded(Path, Switches(i), Settings(i, par))
  /\ servo[i].enabled => InForce(i, par)
  /\ par # "ref" /\ hold.pc \notin {"start", "first"} =>
       InForce(i, par) \/ Meets(Path, Settings(i, par))

Ready == Path \in Seq(Meant) /\ \A i \in Servos : \A par \in Needed : Prepared(i, par)

(* At first nothing is on its way. *)
LEMMA InitPath == Init => Path = <<>>
<1>. SUFFICES ASSUME Init PROVE Path = <<>>
  OBVIOUS
<1>1. bus \o queue = <<>> /\ hold.todo = <<>>
  <2>1. <<>> \in Seq(Sent)
    BY EmptySeq
  <2>. QED  BY <2>1, ConcatEmptySeq DEF Init, InitBoard
<1>2. PlainOrders(<<>>) \in Seq(Pending) /\ Len(PlainOrders(<<>>)) = 0
  <2>1. <<>> \in Seq(Sent)
    BY EmptySeq
  <2>. QED  BY <2>1, PlainSequence, EmptySeq
<1>3. PlainOrders(<<>>) = <<>>
  BY <1>2, EmptySeq
<1>. QED  BY <1>1, <1>3, ConcatEmptySeq DEF Path

(* At first nothing is switched on and nothing on its way. *)
LEMMA InitReady == Init => Ready
<1>. SUFFICES ASSUME Init PROVE Ready
  OBVIOUS
<1>1. Path = <<>>
  BY InitPath
<1>2. \A i \in Servos : servo[i].enabled = FALSE
  BY DEF Init
<1>3. hold.pc = "start"
  BY DEF Init, InitBoard
<1>4. \A U, V : Preceded(<<>>, U, V)
  BY DEF Preceded
<1>. QED  BY <1>1, <1>2, <1>3, <1>4, EmptySeq DEF Ready, Prepared

(* What has been measured remains so, and so do the faults. *)
Later ==
  /\ faults \in Nat /\ faults' \in Nat /\ faults' >= faults
  /\ \A i \in Servos : reported[i] \subseteq reported'[i]

LEMMA StepLater == RobotInv /\ Measured /\ [Next]_vars => Later
BY FaultsGrow, ReportedGrows DEF Later, Measured

(* A reference that was near a measurement remains so. *)
LEMMA NearLater ==
  ASSUME Later, NEW i \in Servos, NEW v, Near(i, v)
  PROVE  (\E n \in reported'[i] : v \in {n - 1, n}) \/ (faults' > 0 /\ v = 0)
<1>1. reported[i] \subseteq reported'[i] /\ (faults > 0 => faults' > 0)
  BY DEF Later
<1>. QED  BY <1>1 DEF Near

(* What an accepted WRITE does, and what it leaves alone. *)
LEMMA WriteEffect ==
  ASSUME RobotInv, NEW ord \in Sent, HandleWrite(ord),
         Accepts(servo[ord.servo].polarity, ord.order), Plain(ord) \in Meant
  PROVE  /\ ord.servo \in Servos /\ ord.val \in Int /\ ord.order \in WriteOrders
         /\ Plain(ord).servo = ord.servo /\ Plain(ord).order = "WRITE"
         /\ Plain(ord).par = ord.par /\ Plain(ord).val = ord.val
         /\ ord.par \in Needed \union {"mod_fact"}
         /\ ord.pid = IF ord.par \in Params THEN "pos" ELSE "none"
         /\ ord.par = "ref" => Near(ord.servo, ord.val)
         /\ ord.par # "ref" => 0 < ord.val /\ ord.val < 256
         /\ ord.par = "max_torque" => ord.val \in {5, 100}
         /\ Payload(ord.par, ord.pid, ord.val) = ord.val
         /\ WrittenBack(ord.par, ord.pid, ord.val) = {ord.val}
         /\ \A i \in Servos :
              /\ \A pid \in Pids, par \in Params :
                   servo'[i].reg[pid][par] =
                     IF i = ord.servo /\ pid = "pos" /\ par = ord.par THEN ord.val
                     ELSE servo[i].reg[pid][par]
              /\ servo'[i].max_torque =
                   IF i = ord.servo /\ ord.par = "max_torque" THEN MaxTorque(ord.val)
                   ELSE servo[i].max_torque
              /\ servo'[i].has_been_set =
                   (servo[i].has_been_set \/ (i = ord.servo /\ ord.par = "ref"))
              /\ servo'[i].enabled = servo[i].enabled
<1>. DEFINE j == ord.servo
            s == servo[j]
            v == Payload(ord.par, ord.pid, ord.val)
            Servo1 == [polarity : Bits, reg : Registers, max_torque : Int,
                       enabled : BOOLEAN, has_been_set : BOOLEAN]
<1>1. /\ j \in Servos /\ ord.val \in Int /\ ord.order \in WriteOrders
      /\ servo' = [servo EXCEPT ![j] = Written(s, ord)]
      /\ servo \in [Servos -> Servo1] /\ s \in Servo1
  BY DEF HandleWrite, RobotInv, LinkType, Sent
<1>2. /\ Plain(ord).servo = j /\ Plain(ord).order = "WRITE"
      /\ Plain(ord).par = ord.par /\ Plain(ord).val = ord.val
      /\ ord.par \in Needed \union {"mod_fact"}
      /\ ord.pid = IF ord.par \in Params THEN "pos" ELSE "none"
      /\ ord.par = "ref" => Near(j, ord.val) /\ 0 <= ord.val /\ ord.val < 65536
      /\ ord.par # "ref" => 0 < ord.val /\ ord.val < 256
      /\ ord.par = "max_torque" => ord.val \in {5, 100}
  BY <1>1, PlainPending DEF Meant, low_max_torque, high_max_torque
<1>3. v = ord.val /\ WrittenBack(ord.par, ord.pid, ord.val) = {ord.val}
  <2>1. \A n \in Int : /\ 0 < n /\ n < 256 => n % 256 = n
                       /\ 0 <= n /\ n < 65536 => n % 65536 = n
    OBVIOUS
  <2>2. 0 <= ord.val /\ ord.val < 65536 /\ (ord.par # "ref" => 0 < ord.val /\ ord.val < 256)
    BY <1>1, <1>2
  <2>3. ~(ord.par = "ref" /\ ord.pid = "tor")
    BY <1>2 DEF Params
  <2>4. v = IF ord.par \in {"int_limit", "mod_fact", "max_torque"} THEN ord.val % 256
            ELSE ord.val % 65536
    BY <2>3 DEF Payload
  <2>5. ord.par \in {"int_limit", "mod_fact", "max_torque"} => ord.val % 256 = ord.val
    <3>1. ord.par # "ref" => ord.val % 256 = ord.val
      BY <1>1, <2>1, <2>2
    <3>. QED  BY <3>1
  <2>6. ord.val % 65536 = ord.val
    BY <1>1, <2>1, <2>2
  <2>. QED  BY <2>3, <2>4, <2>5, <2>6 DEF WrittenBack
<1>4. /\ Written(s, ord).reg = NewReg(s.reg, ord.par, ord.pid, ord.val)
      /\ Written(s, ord).max_torque = NewMaxTorque(s.max_torque, ord.par, ord.val)
      /\ Written(s, ord).has_been_set = (s.has_been_set \/ ord.par = "ref")
      /\ Written(s, ord).enabled = s.enabled
  <2>1. Written(s, ord) = [s EXCEPT !.polarity = 1 - @,
                                    !.reg = NewReg(s.reg, ord.par, ord.pid, v),
                                    !.max_torque = NewMaxTorque(s.max_torque, ord.par, v),
                                    !.has_been_set = @ \/ ord.par = "ref"]
    BY DEF Written
  <2>. HIDE DEF s, v
  <2>. QED  BY <1>1, <1>3, <2>1
<1>5. \A pid \in Pids, p \in Params :
        NewReg(s.reg, ord.par, ord.pid, ord.val)[pid][p] =
          IF pid = "pos" /\ p = ord.par THEN ord.val ELSE s.reg[pid][p]
  <2>1. s.reg \in [Pids -> [Params -> Int]]
    BY <1>1 DEF Registers
  <2>2. "pos" \in Pids
    BY DEF Pids
  <2>. HIDE DEF s
  <2>. QED  BY <1>2, <2>1, <2>2 DEF NewReg
<1>6. NewMaxTorque(s.max_torque, ord.par, ord.val) =
        IF ord.par = "max_torque" THEN MaxTorque(ord.val) ELSE s.max_torque
  BY DEF NewMaxTorque
<1>7. \A i \in Servos : servo'[i] = IF i = j THEN Written(s, ord) ELSE servo[i]
  BY <1>1
<1>8. \A i \in Servos : servo[i].has_been_set \in BOOLEAN /\ (i = j => servo[i] = s)
  BY <1>1
<1>9. \A i \in Servos :
        /\ \A pid \in Pids, par \in Params :
             servo'[i].reg[pid][par] =
               IF i = j /\ pid = "pos" /\ par = ord.par THEN ord.val ELSE servo[i].reg[pid][par]
        /\ servo'[i].max_torque =
             IF i = j /\ ord.par = "max_torque" THEN MaxTorque(ord.val) ELSE servo[i].max_torque
        /\ servo'[i].enabled = servo[i].enabled
  <2>. HIDE DEF s, j, v
  <2>. QED  BY <1>4, <1>5, <1>6, <1>7, <1>8
<1>10. \A i \in Servos :
         servo'[i].has_been_set = (servo[i].has_been_set \/ (i = j /\ ord.par = "ref"))
  <2>. HIDE DEF s, j, v
  <2>. QED  BY <1>4, <1>7, <1>8
<1>. QED  BY <1>1, <1>2, <1>3, <1>9, <1>10

(* A WRITE puts its register in force and leaves the others alone. *)
LEMMA WriteInForce ==
  ASSUME RobotInv, NEW ord \in Sent, HandleWrite(ord),
         Accepts(servo[ord.servo].polarity, ord.order), Plain(ord) \in Meant,
         Later,
         NEW i \in Servos, NEW par \in Needed
  PROVE  /\ InForce(i, par) => InForce(i, par)'
         /\ Plain(ord) \in Settings(i, par) => InForce(i, par)'
         /\ servo'[i].enabled = servo[i].enabled
<1>. DEFINE hit == i = ord.servo /\ ord.par = par
<1>1. /\ Plain(ord) \in Settings(i, par) => hit
      /\ servo'[i].enabled = servo[i].enabled
  BY WriteEffect DEF Settings
<1>2. "pos" \in Pids /\ {"ref", "kp", "ki", "int_limit"} \subseteq Params
  BY DEF Pids, Params
<1>3. InForce(i, par) \/ hit => InForce(i, par)'
  <2>1. CASE par = "ref"
    <3>1. servo'[i].reg["pos"][par] = IF hit THEN ord.val ELSE servo[i].reg["pos"][par]
      BY <1>2, <2>1, WriteEffect
    <3>2. /\ InForce(i, par)' <=> /\ servo'[i].has_been_set
                                  /\ Near(i, servo[i].reg["pos"]["ref"])'
          /\ InForce(i, par) <=> servo[i].has_been_set /\ Near(i, servo[i].reg["pos"]["ref"])
      BY <2>1 DEF InForce
    <3>3. \A w : Near(i, w) =>
            (\E n \in reported'[i] : w \in {n - 1, n}) \/ (faults' > 0 /\ w = 0)
      BY NearLater
    <3>4. Near(i, servo[i].reg["pos"]["ref"])' <=>
            \/ \E n \in reported'[i] : servo'[i].reg["pos"]["ref"] \in {n - 1, n}
            \/ faults' > 0 /\ servo'[i].reg["pos"]["ref"] = 0
      BY DEF Near
    <3>5. CASE hit
      <4>1. servo'[i].reg["pos"]["ref"] = ord.val /\ servo'[i].has_been_set
        BY <2>1, <3>1, <3>5, WriteEffect
      <4>2. Near(i, ord.val)
        BY <2>1, <3>5, WriteEffect
      <4>. QED  BY <3>2, <3>3, <3>4, <4>1, <4>2
    <3>6. CASE ~hit
      <4>1. servo'[i].reg["pos"]["ref"] = servo[i].reg["pos"]["ref"]
            /\ (servo[i].has_been_set => servo'[i].has_been_set)
        BY <2>1, <3>1, <3>6, WriteEffect
      <4>. QED  BY <3>2, <3>3, <3>4, <3>6, <4>1
    <3>. QED  BY <3>5, <3>6
  <2>2. CASE par = "max_torque"
    <3>1. /\ InForce(i, par)' <=> servo'[i].max_torque > 0
          /\ InForce(i, par) <=> servo[i].max_torque > 0
      BY <2>2 DEF InForce
    <3>2. MaxTorque(5) > 0 /\ MaxTorque(100) > 0
      BY DEF MaxTorque
    <3>. QED  BY <2>2, <3>1, <3>2, WriteEffect
  <2>3. CASE par \in {"kp", "ki", "int_limit"}
    <3>1. /\ InForce(i, par)' <=> servo'[i].reg["pos"][par] > 0
          /\ InForce(i, par) <=> servo[i].reg["pos"][par] > 0
      BY <2>3 DEF InForce
    <3>2. servo'[i].reg["pos"][par] =
            IF i = ord.servo /\ par = ord.par THEN ord.val ELSE servo[i].reg["pos"][par]
      BY <1>2, <2>3, WriteEffect
    <3>. QED  BY <2>3, <3>1, <3>2, WriteEffect
  <2>. QED  BY <2>1, <2>2, <2>3 DEF Needed
<1>. QED  BY <1>1, <1>3

(* A reference that was good remains good.                                *)
LEMMA MeantGrows ==
  ASSUME Later
  PROVE  Meant \subseteq Meant'
<1>. SUFFICES ASSUME NEW ord \in Meant PROVE ord \in Meant'
  OBVIOUS
<1>1. ord.servo \in Servos /\ ord \in Pending
  BY DEF Meant, Pending
<1>2. Near(ord.servo, ord.val) => Near(ord.servo, ord.val)'
  BY <1>1, NearLater DEF Near
<1>. QED  BY <1>1, <1>2 DEF Meant

(* A setting remains in force while its register is left alone. *)
LEMMA InForceKept ==
  ASSUME NEW i \in Servos, NEW par \in Needed, Later,
         UNCHANGED <<servo[i].reg, servo[i].max_torque, servo[i].has_been_set>>
  PROVE  InForce(i, par) => InForce(i, par)'
<1>1. Near(i, servo[i].reg["pos"]["ref"]) => Near(i, servo[i].reg["pos"]["ref"])'
  <2>. DEFINE v == servo[i].reg["pos"]["ref"]
  <2>1. v' = v
    OBVIOUS
  <2>2. Near(i, v) => (\E n \in reported'[i] : v \in {n - 1, n}) \/ (faults' > 0 /\ v = 0)
    BY NearLater
  <2>. QED  BY <2>1, <2>2 DEF Near
<1>2. CASE par = "ref"
  BY <1>1, <1>2 DEF InForce
<1>3. CASE par # "ref"
  BY <1>3 DEF InForce
<1>. QED  BY <1>2, <1>3

(* What is transmitted is handled, and the rest is prepared as before. *)
LEMMA TransmitReady ==
  ASSUME RobotInv, Measured, Ready, Transmit
  PROVE  Ready'
<1>. DEFINE ord == Head(bus)
            p == Plain(ord)
<1>1. /\ ord \in Sent /\ ord.servo \in Servos
      /\ ord.order \in WriteOrders => Accepts(servo[ord.servo].polarity, ord.order)
  BY HeadAccepted DEF Transmit, Sent
<1>2. /\ Path \in Seq(Pending) /\ Path # <<>> /\ Head(Path) = p /\ Path' = Tail(Path)
      /\ hold' = hold
  BY PathType, PathTransmitted DEF Transmit, board
<1>3. Later
  BY StepLater DEF Next
<1>4. p \in Meant /\ Path' \in Seq(Meant')
  <2>1. Path \in Seq(Meant)
    BY DEF Ready
  <2>2. Head(Path) \in Meant /\ Tail(Path) \in Seq(Meant)
    BY <1>2, <2>1, HeadTailProperties
  <2>3. Tail(Path) \in Seq(Meant')
    BY <1>3, <2>2, MeantGrows, SeqMonotonic
  <2>. QED  BY <1>2, <2>2, <2>3
<1>5. /\ p \in Pending /\ p.servo = ord.servo /\ p.par = ord.par
      /\ p.order = IF ord.order \in WriteOrders THEN "WRITE" ELSE ord.order
  BY <1>1, PlainPending
<1>6. \/ \E count \in Counts[ord.servo] : HandleGet(ord, count)
      \/ HandleWrite(ord)
      \/ HandlePid(ord)
  BY DEF Transmit
<1>. HIDE DEF ord, p
<1>7. ASSUME NEW i \in Servos, NEW par \in Needed
      PROVE  Prepared(i, par)'
  <2>. DEFINE U == Switches(i)
              V == Settings(i, par)
  <2>1. /\ Switches(i)' = U /\ Settings(i, par)' = V
    BY DEF Switches, Settings
  <2>2. /\ InForce(i, par) \/ Preceded(Path, U, V)
        /\ servo[i].enabled => InForce(i, par)
        /\ par # "ref" /\ hold.pc \notin {"start", "first"} => InForce(i, par) \/ Meets(Path, V)
    BY DEF Ready, Prepared
  <2>3. /\ Preceded(Path, U, V) => p \in V \/ (p \notin U /\ Preceded(Path', U, V))
        /\ Meets(Path, V) => p \in V \/ Meets(Path', V)
    BY <1>2, TailPreceded, TailMeets
  <2>4. ASSUME InForce(i, par) => InForce(i, par)',
               p \in V => InForce(i, par)',
               servo'[i].enabled => servo[i].enabled \/ p \in U
        PROVE  Prepared(i, par)'
    <3>1. InForce(i, par)' \/ (p \notin U /\ Preceded(Path', U, V))
      BY <2>2, <2>3, <2>4
    <3>2. servo'[i].enabled => InForce(i, par)'
      BY <2>2, <2>4, <3>1
    <3>3. par # "ref" /\ hold'.pc \notin {"start", "first"} => InForce(i, par)' \/ Meets(Path', V)
      BY <1>2, <2>2, <2>3, <2>4
    <3>4. /\ Preceded(Path, Switches(i), Settings(i, par))' <=> Preceded(Path', U, V)
          /\ Meets(Path, Settings(i, par))' <=> Meets(Path', V)
      BY <2>1 DEF Preceded, Meets
    <3>. HIDE DEF U, V
    <3>. QED  BY <3>1, <3>2, <3>3, <3>4 DEF Prepared
  <2>5. ASSUME NEW count \in Counts[ord.servo], HandleGet(ord, count)
        PROVE  Prepared(i, par)'
    <3>1. servo' = servo /\ ord.order = "GET"
      BY <2>5 DEF HandleGet
    <3>2. InForce(i, par) => InForce(i, par)'
      BY <1>3, <3>1, InForceKept
    <3>3. p \notin V
      BY <1>5, <3>1 DEF Settings, WriteOrders
    <3>. QED  BY <2>4, <3>1, <3>2, <3>3
  <2>6. CASE HandleWrite(ord)
    <3>1. ord.order \in WriteOrders
      BY <2>6 DEF HandleWrite
    <3>2. /\ InForce(i, par) => InForce(i, par)'
          /\ p \in V => InForce(i, par)'
          /\ servo'[i].enabled = servo[i].enabled
      BY <1>1, <1>3, <1>4, <2>6, <3>1, WriteInForce DEF p
    <3>. QED  BY <2>4, <3>2
  <2>7. CASE HandlePid(ord)
    <3>1. /\ ord.order = "PID_POS"
          /\ servo' = [servo EXCEPT ![ord.servo].enabled = ord.par # "off",
                                    ![ord.servo].has_been_set = @ /\ ord.par # "off"]
      BY <2>7 DEF HandlePid
    <3>2. p.order = "PID_POS" /\ ord.par = "on"
      BY <1>4, <1>5, <3>1 DEF Meant, WriteOrders
    <3>. DEFINE s == servo[ord.servo]
                on == ord.par # "off"
                set == s.has_been_set /\ ord.par # "off"
                t == [s EXCEPT !.enabled = on, !.has_been_set = set]
    <3>3. servo' = [servo EXCEPT ![ord.servo] = t]
      BY <3>1
    <3>4. s \in [polarity : Bits, reg : Registers, max_torque : Int,
                 enabled : BOOLEAN, has_been_set : BOOLEAN]
      BY <1>1 DEF RobotInv, LinkType
    <3>5. set = s.has_been_set
      BY <3>2, <3>4
    <3>. HIDE DEF s, on, set
    <3>6. t.reg = s.reg /\ t.max_torque = s.max_torque /\ t.has_been_set = s.has_been_set
      BY <3>4, <3>5
    <3>. HIDE DEF t
    <3>7. servo'[i] = IF i = ord.servo THEN t ELSE servo[i]
      BY <1>1, <3>3 DEF RobotInv, LinkType
    <3>8. UNCHANGED <<servo[i].reg, servo[i].max_torque, servo[i].has_been_set>>
      BY <3>6, <3>7 DEF s
    <3>9. InForce(i, par) => InForce(i, par)'
      BY <1>3, <3>8, InForceKept
    <3>10. p \notin V
      BY <3>2 DEF Settings
    <3>11. servo'[i].enabled => servo[i].enabled \/ p \in U
      BY <1>5, <3>2, <3>7 DEF Switches
    <3>. QED  BY <2>4, <3>9, <3>10, <3>11
  <2>. QED  BY <1>6, <2>5, <2>6, <2>7
<1>. QED  BY <1>4, <1>7 DEF Ready

(* A path through one set meets nothing of a disjoint one. *)
LEMMA NoneMet ==
  ASSUME NEW S, NEW s \in Seq(S), NEW U, S \cap U = {}
  PROVE  ~Meets(s, U)
<1>1. \A k \in 1..Len(s) : s[k] \in S
  BY ElementOfSeq
<1>. QED  BY <1>1 DEF Meets

(* The scripts mean what they should. *)
LEMMA ScriptsMeant ==
  ASSUME Measured
  PROVE
  /\ Measurements \in Seq(Meant) /\ Configuration \in Seq(Meant)
  /\ Stiffen \in Seq(Meant) /\ Enable \in Seq(Meant)
  /\ \A angle \in [Servos -> Int] :
       (\A i \in Servos : Usable(i, angle[i])) => References(angle) \in Seq(Meant)
<1>1. /\ {"mod_fact", "kp", "ki", "int_limit", "max_torque", "ref"} \subseteq Needed \union {"mod_fact"}
      /\ low_max_torque = 5 /\ high_max_torque = 100
  BY DEF Needed, low_max_torque, high_max_torque
<1>2. Measuring \subseteq Meant
  BY DEF Measuring, Meant
<1>3. Configuring \subseteq Meant
  <2>1. ByteWrites({"mod_fact", "kp", "ki", "int_limit", "max_torque"}) \cap
          MaxTorques(low_max_torque) \subseteq Meant
    BY <1>1 DEF ByteWrites, MaxTorques, Meant
  <2>. QED  BY <1>2, <2>1 DEF Configuring
<1>4. Stiffening \subseteq Meant
  BY <1>1 DEF Stiffening, ByteWrites, MaxTorques, Meant
<1>5. Enabling \subseteq Meant
  BY DEF Enabling, Meant
<1>6. ASSUME NEW angle \in [Servos -> Int], \A i \in Servos : Usable(i, angle[i])
      PROVE  Referring(angle) \subseteq Meant
  <2>. SUFFICES ASSUME NEW ord \in Referring(angle) PROVE ord \in Meant
    OBVIOUS
  <2>1. /\ ord \in Pending /\ ord.order = "WRITE" /\ ord.par = "ref" /\ ord.pid = "pos"
        /\ ord.val = AngleToSend(angle[ord.servo]) /\ ord.servo \in Servos
    BY DEF Referring, Pending
  <2>. DEFINE n == angle[ord.servo]
  <2>2. Usable(ord.servo, n) /\ reported[ord.servo] \subseteq Angles
    BY <1>6, <2>1 DEF Measured
  <2>. HIDE DEF n
  <2>3. ord.val = AngleToSend(n)
    BY <2>1 DEF n
  <2>4. Near(ord.servo, ord.val) /\ 0 <= ord.val /\ ord.val < 65536
    <3>1. CASE n = 0
      BY <2>2, <2>3, <3>1, AngleZero DEF Usable, Near
    <3>2. CASE n # 0
      <4>1. n \in reported[ord.servo] /\ n \in Nat /\ n <= 4095
        BY <2>2, <3>2 DEF Usable, Angles
      <4>2. ord.val \in {n - 1, n}
        BY <2>3, <4>1, AngleNear
      <4>. QED  BY <3>2, <4>1, <4>2 DEF Near
    <3>. QED  BY <3>1, <3>2
  <2>5. "ref" \in Params
    BY DEF Params
  <2>. QED  BY <1>1, <2>1, <2>4, <2>5 DEF Meant
<1>. QED  BY <1>2, <1>3, <1>4, <1>5, <1>6, ScriptsIn, SeqMonotonic

(* Only the last of the reflex's first scripts switches the controllers on. *)
LEMMA ScriptsSwitch ==
  ASSUME NEW i \in Servos
  PROVE  /\ ~Meets(Measurements, Switches(i)) /\ ~Meets(Configuration, Switches(i))
         /\ ~Meets(Stiffen, Switches(i))
         /\ \A angle \in [Servos -> Int] : ~Meets(References(angle), Switches(i))
<1>1. /\ Measuring \cap Switches(i) = {} /\ Configuring \cap Switches(i) = {}
      /\ Stiffening \cap Switches(i) = {}
      /\ \A angle : Referring(angle) \cap Switches(i) = {}
  BY DEF Measuring, Configuring, Stiffening, Referring, ByteWrites, Switches
<1>. QED  BY <1>1, ScriptsIn, NoneMet

(* The references of a loop set both servos' references. *)
LEMMA ReferencesSet ==
  ASSUME NEW i \in Servos, NEW angle \in [Servos -> Int]
  PROVE  Meets(References(angle), Settings(i, "ref"))
<1>. DEFINE val == [j \in Servos |-> AngleToSend(angle[j])]
            x == Order(i, "WRITE", "ref", val[i])
<1>1. val[i] \in Int
  BY AngleNear
<1>. HIDE DEF val
<1>2. x \in Pending /\ x.servo = i /\ x.order = "WRITE" /\ x.par = "ref"
  BY <1>1 DEF Order, Pending, Tags, Pids, Infos, Params, Kinds
<1>. HIDE DEF x
<1>3. x \in Settings(i, "ref")
  BY <1>2 DEF Settings
<1>4. Meets(Both("WRITE", "ref", val), Settings(i, "ref"))
  BY <1>3, BothMeet DEF x
<1>. QED  BY <1>4 DEF References, val

(* The configuration sets everything a servo needs but its reference. *)
LEMMA ConfigurationSets ==
  ASSUME NEW i \in Servos, NEW par \in Needed, par # "ref"
  PROVE  Meets(Configuration, Settings(i, par))
<1>. DEFINE V == Settings(i, par)
            B(p, val) == Both("WRITE", p, val)
<1>1. ASSUME NEW val \in [Servos -> Int]
      PROVE  Meets(B(par, val), V)
  <2>. DEFINE x == Order(i, "WRITE", par, val[i])
  <2>1. val[i] \in Int /\ par \in Infos
    BY DEF Needed, Infos, Params
  <2>2. x \in Pending /\ x.servo = i /\ x.order = "WRITE" /\ x.par = par
    BY <2>1 DEF Order, Pending, Tags, Pids, Kinds
  <2>. HIDE DEF x
  <2>3. x \in V
    BY <2>2 DEF Settings
  <2>. HIDE DEF V
  <2>. QED  BY <2>3, BothMeet DEF x
<1>2. /\ Same(100) \in [Servos -> Int] /\ Gain(30, 10) \in [Servos -> Int]
      /\ Gain(30, 5) \in [Servos -> Int] /\ Same(low_integral_limit) \in [Servos -> Int]
      /\ Same(low_max_torque) \in [Servos -> Int]
  BY DEF Same, Gain, Servos, low_integral_limit, low_max_torque
<1>3. {"mod_fact", "kp", "ki", "int_limit", "max_torque"} \subseteq Infos
      /\ "WRITE" \in Kinds \union {"WRITE"}
  BY DEF Infos, Params
<1>4. /\ B("mod_fact", Same(100)) \in Seq(Pending) /\ B("kp", Gain(30, 10)) \in Seq(Pending)
      /\ B("ki", Gain(30, 5)) \in Seq(Pending)
      /\ B("int_limit", Same(low_integral_limit)) \in Seq(Pending)
      /\ B("max_torque", Same(low_max_torque)) \in Seq(Pending)
      /\ Measurements \in Seq(Pending)
  BY <1>2, <1>3, BothType, ScriptsType
<1>5. Configuration = B("mod_fact", Same(100)) \o B("kp", Gain(30, 10)) \o B("ki", Gain(30, 5))
                        \o B("int_limit", Same(low_integral_limit))
                        \o B("max_torque", Same(low_max_torque)) \o Measurements
  BY DEF Configuration
<1>6. \/ Meets(B("kp", Gain(30, 10)), V) \/ Meets(B("ki", Gain(30, 5)), V)
      \/ Meets(B("int_limit", Same(low_integral_limit)), V)
      \/ Meets(B("max_torque", Same(low_max_torque)), V)
  BY <1>1, <1>2 DEF Needed
<1>7. \A s, t \in Seq(Pending) : /\ s \o t \in Seq(Pending)
                                 /\ Meets(s \o t, V) <=> Meets(s, V) \/ Meets(t, V)
  BY ConcatProperties, ConcatMeets
<1>. DEFINE fact == B("mod_fact", Same(100))
            kp == B("kp", Gain(30, 10))
            ki == B("ki", Gain(30, 5))
            limit == B("int_limit", Same(low_integral_limit))
            torque == B("max_torque", Same(low_max_torque))
<1>. HIDE DEF B, V, fact, kp, ki, limit, torque
<1>8. Configuration = ((((fact \o kp) \o ki) \o limit) \o torque) \o Measurements
  BY <1>5 DEF fact, kp, ki, limit, torque
<1>9. fact \in Seq(Pending) /\ kp \in Seq(Pending) /\ ki \in Seq(Pending)
      /\ limit \in Seq(Pending) /\ torque \in Seq(Pending) /\ Measurements \in Seq(Pending)
  BY <1>4 DEF fact, kp, ki, limit, torque
<1>10. Meets(kp, V) \/ Meets(ki, V) \/ Meets(limit, V) \/ Meets(torque, V)
  BY <1>6 DEF fact, kp, ki, limit, torque
<1>11. /\ fact \o kp \in Seq(Pending) /\ (fact \o kp) \o ki \in Seq(Pending)
       /\ ((fact \o kp) \o ki) \o limit \in Seq(Pending)
       /\ (((fact \o kp) \o ki) \o limit) \o torque \in Seq(Pending)
  BY <1>7, <1>9
<1>12. Meets(Configuration, V)
  BY <1>7, <1>8, <1>9, <1>10, <1>11
<1>. QED  BY <1>12 DEF V

(* A script added to the path keeps readiness, if it puts each setting    *)
(* ahead of the switch.                                                   *)
LEMMA ScriptReady ==
  ASSUME RobotInv, Ready, Later, UNCHANGED servo, NEW x \in Seq(Meant),
         Path' = Path \o x,
         \A i \in Servos : \A par \in Needed :
           /\ \/ InForce(i, par) \/ Meets(Path, Settings(i, par))
              \/ ~Meets(x, Switches(i))
              \/ Preceded(Path', Switches(i), Settings(i, par))
           /\ par # "ref" /\ hold'.pc \notin {"start", "first"} =>
                hold.pc \notin {"start", "first"} \/ Meets(x, Settings(i, par))
  PROVE  Ready'
<1>1. Path \in Seq(Meant)
  BY DEF Ready
<1>2. Path' \in Seq(Meant')
  <2>1. Path \o x \in Seq(Meant)
    BY <1>1, ConcatProperties
  <2>. QED  BY <2>1, MeantGrows, SeqMonotonic
<1>3. ASSUME NEW i \in Servos, NEW par \in Needed
      PROVE  Prepared(i, par)'
  <2>. DEFINE U == Switches(i)
              V == Settings(i, par)
  <2>1. /\ InForce(i, par) \/ Preceded(Path, U, V)
        /\ servo[i].enabled => InForce(i, par)
        /\ par # "ref" /\ hold.pc \notin {"start", "first"} => InForce(i, par) \/ Meets(Path, V)
    BY DEF Ready, Prepared
  <2>2. InForce(i, par) => InForce(i, par)'
    BY InForceKept
  <2>3. Meets(Path', V) <=> Meets(Path, V) \/ Meets(x, V)
    BY <1>1, ConcatMeets
  <2>4. InForce(i, par) \/ Preceded(Path', U, V)
    BY <1>1, <2>1, ConcatPreceded
  <2>5. /\ Preceded(Path, Switches(i), Settings(i, par))' <=> Preceded(Path', U, V)
        /\ Meets(Path, Settings(i, par))' <=> Meets(Path', V)
    BY DEF Preceded, Meets, Switches, Settings
  <2>6. servo'[i].enabled => servo[i].enabled
    OBVIOUS
  <2>. HIDE DEF U, V
  <2>7. par # "ref" /\ hold'.pc \notin {"start", "first"} => InForce(i, par) \/ Meets(Path', V)
    BY <2>1, <2>3 DEF V
  <2>. QED  BY <2>1, <2>2, <2>4, <2>5, <2>6, <2>7 DEF Prepared
<1>. QED  BY <1>2, <1>3 DEF Ready

(* An empty script: the path stays as it is. *)
LEMMA PathSame ==
  ASSUME RobotInv, Ready, Later, UNCHANGED servo, Path' = Path,
         hold.pc \notin {"start", "first"} \/ hold'.pc \in {"start", "first"}
  PROVE  Ready'
<1>1. Path = Path \o <<>> /\ <<>> \in Seq(Meant)
  BY PathType, ConcatEmptySeq, EmptySeq
<1>2. \A U : ~Meets(<<>>, U)
  BY EmptyMeets
<1>. QED  BY <1>1, <1>2, ScriptReady

(* The scripts that the reflex adds keep readiness. *)
LEMMA ReflexReady ==
  ASSUME RobotInv, Shape, Measured, Ready, Runs, ~com_queue_order
  PROVE  Ready'
<1>1. /\ Moves /\ UNCHANGED servo /\ Later
      /\ Path' = Path \o hold'.todo
  BY ReflexMoves, StepLater DEF Runs, Next
<1>2. \A i \in Servos : \A par \in Needed :
        par # "ref" /\ hold.pc \notin {"start", "first"} =>
          InForce(i, par) \/ Meets(Path, Settings(i, par))
  BY DEF Ready, Prepared
<1>3. \A i \in Servos : hold.angle \in [Servos -> Int] /\ Read(i) \in [Servos -> Int]
  BY ReadType
<1>4. "servo1" \in Servos /\ "servo3" \in Servos /\ \A i \in Servos : i = "servo1" \/ i = "servo3"
  BY DEF Servos
<1>5. ASSUME \/ hold'.todo \in {Measurements, Stiffen}
             \/ hold'.todo = References(hold.angle) /\ hold.pc = "check",
             hold.pc \in {"check", "loop3"}
      PROVE  Ready'
  <2>1. hold'.todo \in Seq(Meant)
    <3>1. hold.pc = "check" => \A i \in Servos : Usable(i, hold.angle[i])
      BY DEF Measured, AnglesHeld
    <3>. QED  BY <1>3, <1>4, <1>5, <3>1, ScriptsMeant
  <2>2. \A i \in Servos : ~Meets(hold'.todo, Switches(i))
    BY <1>3, <1>4, <1>5, ScriptsSwitch
  <2>. QED  BY <1>1, <1>5, <2>1, <2>2, ScriptReady
<1>6. ASSUME hold'.todo = Configuration PROVE Ready'
  <2>1. Configuration \in Seq(Meant)
    BY ScriptsMeant
  <2>2. \A i \in Servos : ~Meets(Configuration, Switches(i))
    BY ScriptsSwitch
  <2>3. \A i \in Servos : \A par \in Needed : par # "ref" => Meets(Configuration, Settings(i, par))
    BY ConfigurationSets
  <2>. QED  BY <1>1, <1>6, <2>1, <2>2, <2>3, ScriptReady
<1>7. ASSUME hold'.todo = References(Read("servo3")) \o Enable, hold.pc = "boot3" PROVE Ready'
  <2>. DEFINE refs == References(Read("servo3"))
  <2>1. \A i \in Servos : Usable(i, Read("servo3")[i])
    <3>1. Usable("servo1", hold.angle["servo1"])
      BY <1>7 DEF Measured, AnglesHeld
    <3>2. Usable("servo3", world["servo3"].angle)
      BY <1>4, <1>7, WorldUsable
    <3>3. Read("servo3")["servo1"] = hold.angle["servo1"]
          /\ Read("servo3")["servo3"] = world["servo3"].angle
      BY <1>3, <1>4 DEF Read
    <3>. QED  BY <1>4, <3>1, <3>2, <3>3
  <2>2. refs \in Seq(Meant) /\ Enable \in Seq(Meant) /\ refs \o Enable \in Seq(Meant)
    <3>1. refs \in Seq(Meant) /\ Enable \in Seq(Meant)
      BY <1>3, <1>4, <2>1, ScriptsMeant
    <3>. QED  BY <3>1, ConcatProperties
  <2>3. \A i \in Servos : Meets(refs, Settings(i, "ref")) /\ ~Meets(refs, Switches(i))
    BY <1>3, <1>4, ReferencesSet, ScriptsSwitch
  <2>. HIDE DEF refs
  <2>4. Path \in Seq(Meant) /\ (Path \o refs) \o Enable = Path \o (refs \o Enable)
        /\ Path \o refs \in Seq(Meant)
    <3>1. Path \in Seq(Meant)
      BY DEF Ready
    <3>. QED  BY <2>2, <3>1, ConcatAssociative, ConcatProperties
  <2>5. \A i \in Servos : InForce(i, "ref") \/ Preceded(Path', Switches(i), Settings(i, "ref"))
    <3>. SUFFICES ASSUME NEW i \in Servos
                  PROVE  InForce(i, "ref") \/ Preceded(Path', Switches(i), Settings(i, "ref"))
      OBVIOUS
    <3>1. InForce(i, "ref") \/ Preceded(Path, Switches(i), Settings(i, "ref"))
      BY DEF Ready, Prepared, Needed
    <3>2. InForce(i, "ref") \/ Preceded(Path \o refs, Switches(i), Settings(i, "ref"))
      BY <2>2, <2>3, <2>4, <3>1, ConcatPreceded
    <3>3. Meets(Path \o refs, Settings(i, "ref"))
      BY <2>2, <2>3, <2>4, ConcatMeets
    <3>4. InForce(i, "ref") \/ Preceded((Path \o refs) \o Enable, Switches(i), Settings(i, "ref"))
      BY <2>2, <2>4, <3>2, <3>3, ConcatPreceded
    <3>. QED  BY <1>1, <1>7, <2>4, <3>4 DEF refs
  <2>. QED  BY <1>1, <1>2, <1>7, <2>2, <2>5, ScriptReady DEF refs
<1>8. ASSUME hold'.todo = <<>>,
             (hold.pc = "start" /\ hold'.pc = "first") \/ hold.pc \notin {"start", "first"}
      PROVE  Ready'
  <2>1. Path' = Path
    BY <1>1, <1>8, PathType, ConcatEmptySeq
  <2>. QED  BY <1>1, <1>8, <2>1, PathSame
<1>. HIDE DEF References, Enable, Measurements, Configuration, Stiffen
<1>9. \/ hold'.todo = <<>>
           /\ (\/ hold.pc = "start" /\ hold'.pc = "first"
               \/ hold.pc \notin {"start", "first"})
      \/ hold'.todo = Configuration
      \/ hold'.todo = References(Read("servo3")) \o Enable /\ hold.pc = "boot3"
      \/ /\ hold'.todo \in {Measurements, Stiffen} /\ hold.pc \in {"check", "loop3"}
      \/ hold'.todo = References(hold.angle) /\ hold.pc = "check"
  BY <1>1 DEF Moves, Goes
<1>. QED  BY <1>5, <1>6, <1>7, <1>8, <1>9

(* Every step keeps readiness. *)
LEMMA StepReady == RobotInv /\ Shape /\ Measured /\ Ready /\ [Next]_vars => Ready'
<1>. SUFFICES ASSUME RobotInv, Shape, Measured, Ready, [Next]_vars PROVE Ready'
  OBVIOUS
<1>1. Later
  BY StepLater
<1>2. ASSUME bus' \o queue' = bus \o queue, UNCHANGED <<hold, servo>> PROVE Ready'
  <2>1. Path' = Path
    BY <1>2 DEF Path, PlainOrders
  <2>. QED  BY <1>2, <1>1, <2>1, PathSame
<1>3. CASE Reflex /\ com_queue_order
  <2>1. Path' = Path /\ UNCHANGED servo
    BY <1>3, PathQueued DEF Reflex
  <2>2. hold.pc = "queue"
    BY <1>3 DEF com_queue_order
  <2>. QED  BY <1>1, <2>1, <2>2, PathSame
<1>4. CASE Runs /\ ~com_queue_order
  BY <1>4, ReflexReady
<1>5. CASE Transmit
  BY <1>5, TransmitReady
<1>6. CASE Downlink
  <2>1. bus' = bus \o queue /\ queue' = <<>> /\ UNCHANGED <<hold, servo>>
    BY <1>6 DEF Downlink, com_downlink
  <2>2. bus' \o queue' = bus \o queue
    BY <2>1, PathType, ConcatEmptySeq
  <2>. QED  BY <1>2, <2>1, <2>2
<1>7. CASE Uplink \/ UplinkFails \/ ReceiveFrame \/ Collide
  BY <1>2, <1>7 DEF Uplink, op_new_period, UplinkFails, UplinkError, ReceiveFrame,
                    op_recv_frame, Collide, update_collision
<1>8. CASE UNCHANGED vars
  BY <1>2, <1>8 DEF vars, board
<1>. QED  BY <1>3, <1>4, <1>5, <1>6, <1>7, <1>8, EarlyQueuesNothing DEF Next, Runs

(* Whatever the interleaving, a servo's position controller is switched on  *)
(* only with the reflex's gains and limits and with a reference that was    *)
(* measured; or, after a wait that ended without a signal or an uplink that *)
(* failed, and only then, with the zero that the world began with           *)
(* (reflex_hold.c: main_loop).                                              *)
THEOREM ReadyWhenSwitchedOn == Spec => []SwitchedOnReady
<1>1. Ready => SwitchedOnReady
  BY DEF Ready, Prepared, InForce, Near, Needed, SwitchedOnReady
<1>. QED  BY <1>1, InitInStep, StepInStep, InitShape, StepShape, InitMeasured, StepMeasured,
             InitReady, StepReady, PTL DEF Spec

-----------------------------------------------------------------------------
(* The orders that make a servo stiff, and those that would make it move or *)
(* loosen it.                                                               *)
Tightening(i) ==
  {ord \in Pending : /\ ord.servo = i /\ ord.order = "WRITE"
                     /\ ord.par = "max_torque" /\ ord.val = high_max_torque}

Loosening(i) ==
  {ord \in Pending : /\ ord.servo = i /\ ord.order = "WRITE"
                     /\ \/ ord.par = "ref"
                        \/ ord.par = "max_torque" /\ ord.val # high_max_torque}

(* Nothing that loosens a servo is on its way to it once it is stiff, nor   *)
(* behind an order that makes it so; and nothing makes it stiff before the  *)
(* reflex has seen the robot touch the ground.                              *)
Stiffness ==
  \A i \in Servos :
    /\ NoneAfter(Path, Tightening(i), Loosening(i))
    /\ Stiff(i) => ~Meets(Path, Loosening(i))
    /\ ~hold.touched => ~Stiff(i) /\ ~Meets(Path, Tightening(i))

(* At first no servo is stiff. *)
LEMMA InitStiffness == Init => Stiffness
<1>. SUFFICES ASSUME Init PROVE Stiffness
  OBVIOUS
<1>1. Path = <<>>
  BY InitPath
<1>2. \A i \in Servos : servo[i].max_torque = 0
  BY DEF Init
<1>3. \A U : ~Meets(<<>>, U)
  BY EmptyMeets
<1>. QED  BY <1>1, <1>2, <1>3, UnmetNoneAfter DEF Stiffness, Stiff

(* How an order changes stiffness. *)
LEMMA TransmitStiff ==
  ASSUME RobotInv, Ready, Transmit, NEW i \in Servos
  PROVE  LET p == Head(Path)
         IN  /\ Stiff(i)' => Stiff(i) \/ p \in Tightening(i)
             /\ Stiff(i) /\ p \notin Loosening(i) =>
                  Stiff(i)' /\ servo'[i].reg["pos"]["ref"] = servo[i].reg["pos"]["ref"]
<1>. DEFINE ord == Head(bus)
            p == Plain(ord)
<1>1. /\ ord \in Sent /\ ord.servo \in Servos
      /\ ord.order \in WriteOrders => Accepts(servo[ord.servo].polarity, ord.order)
  BY HeadAccepted DEF Transmit, Sent
<1>2. /\ Path # <<>> /\ Head(Path) = p
  BY PathTransmitted
<1>3. p \in Meant /\ p \in Pending
  <2>1. Path \in Seq(Meant)
    BY DEF Ready
  <2>. QED  BY <1>1, <1>2, <2>1, HeadTailProperties, PlainPending
<1>4. \/ \E count \in Counts[ord.servo] : HandleGet(ord, count)
      \/ HandleWrite(ord)
      \/ HandlePid(ord)
  BY DEF Transmit
<1>. HIDE DEF ord, p
<1>5. ASSUME UNCHANGED <<servo[i].reg, servo[i].max_torque>>
      PROVE  /\ Stiff(i)' <=> Stiff(i)
             /\ servo'[i].reg["pos"]["ref"] = servo[i].reg["pos"]["ref"]
  BY <1>5 DEF Stiff
<1>6. CASE \E count \in Counts[ord.servo] : HandleGet(ord, count)
  BY <1>2, <1>5, <1>6 DEF HandleGet
<1>7. CASE HandlePid(ord)
  <2>1. servo' = [servo EXCEPT ![ord.servo].enabled = ord.par # "off",
                               ![ord.servo].has_been_set = @ /\ ord.par # "off"]
    BY <1>7 DEF HandlePid
  <2>2. UNCHANGED <<servo[i].reg, servo[i].max_torque>>
    BY <1>1, <2>1 DEF RobotInv, LinkType
  <2>. QED  BY <1>2, <1>5, <2>2
<1>8. CASE HandleWrite(ord)
  <2>1. ord.order \in WriteOrders
    BY <1>8 DEF HandleWrite
  <2>2. /\ p.servo = ord.servo /\ p.order = "WRITE" /\ p.par = ord.par /\ p.val = ord.val
        /\ ord.par = "max_torque" => ord.val \in {5, 100}
        /\ servo'[i].max_torque =
             IF i = ord.servo /\ ord.par = "max_torque" THEN MaxTorque(ord.val)
             ELSE servo[i].max_torque
    BY <1>1, <1>3, <1>8, <2>1, WriteEffect DEF p
  <2>3. \A par \in Params : ~(i = ord.servo /\ par = ord.par) =>
          servo'[i].reg["pos"][par] = servo[i].reg["pos"][par]
    <3>1. "pos" \in Pids
      BY DEF Pids
    <3>. QED  BY <1>1, <1>3, <1>8, <2>1, <3>1, WriteEffect DEF p
  <2>4. MaxTorque(5) # 512 /\ MaxTorque(100) = 512 /\ high_max_torque = 100
    BY DEF MaxTorque, high_max_torque
  <2>5. Stiff(i)' => Stiff(i) \/ p \in Tightening(i)
    BY <1>3, <2>2, <2>4 DEF Stiff, Tightening
  <2>6. ASSUME Stiff(i), p \notin Loosening(i)
        PROVE  Stiff(i)' /\ servo'[i].reg["pos"]["ref"] = servo[i].reg["pos"]["ref"]
    <3>1. Stiff(i)'
      BY <1>3, <2>2, <2>4, <2>6 DEF Stiff, Loosening
    <3>2. ~(i = ord.servo /\ "ref" = ord.par)
      BY <1>3, <2>2, <2>6 DEF Loosening
    <3>3. "ref" \in Params
      BY DEF Params
    <3>. QED  BY <2>3, <3>1, <3>2, <3>3
  <2>. QED  BY <1>2, <2>5, <2>6
<1>. QED  BY <1>4, <1>6, <1>7, <1>8

(* Only the last script tightens, and it loosens nothing. *)
LEMMA ScriptsTighten ==
  ASSUME NEW i \in Servos
  PROVE  /\ ~Meets(Measurements, Tightening(i)) /\ ~Meets(Measurements, Loosening(i))
         /\ ~Meets(Configuration, Tightening(i))
         /\ ~Meets(Stiffen, Loosening(i))
         /\ \A angle \in [Servos -> Int] :
              /\ ~Meets(References(angle), Tightening(i))
              /\ ~Meets(References(angle) \o Enable, Tightening(i))
<1>1. low_max_torque # high_max_torque
  BY DEF low_max_torque, high_max_torque
<1>2. /\ Measuring \cap Tightening(i) = {} /\ Measuring \cap Loosening(i) = {}
      /\ Enabling \cap Tightening(i) = {}
      /\ \A angle : Referring(angle) \cap Tightening(i) = {}
  BY DEF Measuring, Referring, Enabling, Tightening, Loosening
<1>3. Configuring \cap Tightening(i) = {}
  BY <1>1, <1>2 DEF Configuring, ByteWrites, MaxTorques, Tightening
<1>4. Stiffening \cap Loosening(i) = {}
  BY DEF Stiffening, ByteWrites, MaxTorques, Loosening
<1>5. /\ ~Meets(Enable, Tightening(i))
      /\ \A angle \in [Servos -> Int] : ~Meets(References(angle), Tightening(i))
  BY <1>2, ScriptsIn, NoneMet
<1>6. ASSUME NEW angle \in [Servos -> Int] PROVE ~Meets(References(angle) \o Enable, Tightening(i))
  <2>1. References(angle) \in Seq(Pending) /\ Enable \in Seq(Pending)
    BY ScriptsType
  <2>. QED  BY <1>5, <2>1, ConcatMeets
<1>. QED  BY <1>2, <1>3, <1>4, <1>5, <1>6, ScriptsIn, NoneMet

(* Every step keeps stiffness. *)
LEMMA StepStiffness ==
  RobotInv /\ Shape /\ Measured /\ Ready /\ Stiffness /\ [Next]_vars => Stiffness'
<1>. SUFFICES ASSUME RobotInv, Shape, Measured, Ready, Stiffness, [Next]_vars,
                     NEW i \in Servos
              PROVE  /\ NoneAfter(Path, Tightening(i), Loosening(i))'
                     /\ Stiff(i)' => ~Meets(Path, Loosening(i))'
                     /\ ~hold'.touched => ~Stiff(i)' /\ ~Meets(Path, Tightening(i))'
  BY DEF Stiffness
<1>. DEFINE T == Tightening(i)
            L == Loosening(i)
            Goal == /\ NoneAfter(Path', T, L)
                    /\ Stiff(i)' => ~Meets(Path', L)
                    /\ ~hold'.touched => ~Stiff(i)' /\ ~Meets(Path', T)
<1>1. /\ NoneAfter(Path, T, L)
      /\ Stiff(i) => ~Meets(Path, L)
      /\ ~hold.touched => ~Stiff(i) /\ ~Meets(Path, T)
  BY DEF Stiffness
<1>2. SUFFICES Goal
  <2>1. /\ NoneAfter(Path, Tightening(i), Loosening(i))' <=> NoneAfter(Path', T, L)
        /\ Meets(Path, Loosening(i))' <=> Meets(Path', L)
        /\ Meets(Path, Tightening(i))' <=> Meets(Path', T)
    BY DEF NoneAfter, Meets, Tightening, Loosening
  <2>. HIDE DEF T, L
  <2>. QED  BY <2>1
<1>. HIDE DEF T, L
<1>3. ASSUME Path' = Path, servo' = servo, hold'.touched = hold.touched PROVE Goal
  <2>1. Stiff(i)' <=> Stiff(i)
    BY <1>3 DEF Stiff
  <2>. QED  BY <1>1, <1>3, <2>1
<1>4. ASSUME bus' \o queue' = bus \o queue, UNCHANGED <<hold, servo>> PROVE Goal
  <2>1. Path' = Path
    BY <1>4 DEF Path, PlainOrders
  <2>. QED  BY <1>3, <1>4, <2>1
<1>5. CASE Reflex /\ com_queue_order
  <2>1. Path' = Path /\ servo' = servo
    BY <1>5, PathQueued DEF Reflex
  <2>2. hold'.touched = hold.touched
    BY <1>5 DEF com_queue_order, RobotInv, BoardType
  <2>. QED  BY <1>3, <2>1, <2>2
<1>6. CASE Runs /\ ~com_queue_order
  <2>. DEFINE x == hold'.todo
  <2>1. /\ Moves /\ servo' = servo /\ x \in Seq(Pending) /\ Path' = Path \o x
        /\ Path \in Seq(Pending)
    BY <1>6, ReflexMoves, PathType
  <2>2. Stiff(i)' <=> Stiff(i)
    BY <2>1 DEF Stiff
  <2>3. ASSUME ~hold.touched, ~hold'.touched, ~Meets(x, T) PROVE Goal
    <3>1. ~Meets(Path', T)
      BY <1>1, <2>1, <2>3, ConcatMeets
    <3>. QED  BY <1>1, <2>2, <2>3, <3>1, UnmetNoneAfter
  <2>4. ASSUME hold'.touched, ~Meets(x, L) PROVE Goal
    <3>1. NoneAfter(Path', T, L)
      BY <1>1, <2>1, <2>4, ConcatNoneAfter
    <3>2. Stiff(i)' => ~Meets(Path', L)
      BY <1>1, <2>1, <2>2, <2>4, ConcatMeets
    <3>. QED  BY <2>4, <3>1, <3>2
  <2>5. \A U : ~Meets(<<>>, U)
    BY EmptyMeets
  <2>6. hold.touched => hold.pc \in {"period", "loop1", "loop3", "check", "queue"}
    BY DEF Shape, Following
  <2>7. hold.touched \in BOOLEAN /\ hold'.touched \in BOOLEAN
    BY <1>6, ReflexInStep DEF RobotInv, BoardType
  <2>8. hold.angle \in [Servos -> Int] /\ Read("servo3") \in [Servos -> Int]
    BY ReadType DEF Servos
  <2>. HIDE DEF Goal
  <2>9. CASE x = <<>> /\ hold'.touched = hold.touched
    BY <2>3, <2>4, <2>5, <2>7, <2>9
  <2>10. CASE x = Measurements /\ hold'.touched = hold.touched
    BY <2>3, <2>4, <2>7, <2>10, ScriptsTighten DEF T, L
  <2>11. CASE x = Stiffen /\ hold'.touched
    BY <2>4, <2>11, ScriptsTighten DEF L
  <2>12. CASE x = Configuration /\ ~hold.touched /\ ~hold'.touched
    BY <2>3, <2>12, ScriptsTighten DEF T
  <2>13. CASE x = References(hold.angle) /\ ~hold.touched /\ ~hold'.touched
    BY <2>3, <2>8, <2>13, ScriptsTighten DEF T
  <2>14. CASE x = References(Read("servo3")) \o Enable /\ ~hold.touched /\ ~hold'.touched
    BY <2>3, <2>8, <2>14, ScriptsTighten DEF T
  <2>. HIDE DEF References, Enable, Measurements, Configuration, Stiffen
  <2>. QED  BY <2>1, <2>6, <2>7, <2>9, <2>10, <2>11, <2>12, <2>13, <2>14 DEF Moves, Goes
<1>7. CASE Transmit
  <2>. DEFINE p == Head(Path)
  <2>1. /\ Path \in Seq(Pending) /\ Path # <<>> /\ Path' = Tail(Path) /\ hold' = hold
    BY <1>7, PathType, PathTransmitted DEF Transmit, board
  <2>2. /\ NoneAfter(Path', T, L) /\ (p \in T => ~Meets(Path', L))
        /\ Meets(Path, L) <=> p \in L \/ Meets(Path', L)
        /\ Meets(Path, T) <=> p \in T \/ Meets(Path', T)
    BY <1>1, <2>1, TailNoneAfter, TailMeets
  <2>3. Stiff(i)' => Stiff(i) \/ p \in T
    BY <1>7, TransmitStiff DEF T
  <2>. HIDE DEF p
  <2>. QED  BY <1>1, <2>1, <2>2, <2>3
<1>8. CASE Downlink
  <2>1. bus' = bus \o queue /\ queue' = <<>> /\ UNCHANGED <<hold, servo>>
    BY <1>8 DEF Downlink, com_downlink
  <2>2. bus' \o queue' = bus \o queue
    BY <2>1, PathType, ConcatEmptySeq
  <2>. QED  BY <1>4, <2>1, <2>2
<1>9. CASE Uplink \/ UplinkFails \/ ReceiveFrame \/ Collide
  BY <1>4, <1>9 DEF Uplink, op_new_period, UplinkFails, UplinkError, ReceiveFrame,
                    op_recv_frame, Collide, update_collision
<1>10. CASE UNCHANGED vars
  BY <1>4, <1>10 DEF vars, board
<1>. QED  BY <1>5, <1>6, <1>7, <1>8, <1>9, <1>10, EarlyQueuesNothing DEF Next, Runs

(* Once its torque limit is the high one a servo keeps its reference and    *)
(* its stiffness: the references queued before the robot touched the ground *)
(* arrive before the order that stiffens it, and none is queued after it    *)
(* (reflex_hold.c: main_loop).                                              *)
THEOREM StiffStays == Spec => StiffHolds
<1>. DEFINE Holds == \A i \in Servos : Stiff(i) =>
                       servo'[i].reg["pos"]["ref"] = servo[i].reg["pos"]["ref"] /\ Stiff(i)'
<1>1. RobotInv /\ Shape /\ Measured /\ Ready /\ Stiffness /\ [Next]_vars => [Holds]_vars
  <2>. SUFFICES ASSUME RobotInv, Ready, Stiffness, Next, NEW i \in Servos, Stiff(i)
                PROVE  servo'[i].reg["pos"]["ref"] = servo[i].reg["pos"]["ref"] /\ Stiff(i)'
    OBVIOUS
  <2>1. CASE servo' = servo
    BY <2>1 DEF Stiff
  <2>2. CASE Transmit
    <3>1. Path # <<>> /\ Path \in Seq(Pending) /\ ~Meets(Path, Loosening(i))
      BY <2>2, PathTransmitted, PathType DEF Stiffness
    <3>2. Head(Path) \notin Loosening(i)
      BY <3>1, TailMeets
    <3>. QED  BY <2>2, <3>2, TransmitStiff
  <2>. QED  BY <2>1, <2>2 DEF Next, Uplink, UplinkFails, ReceiveFrame, Downlink, Reflex,
                              WakeEarly, Collide
<1>. QED  BY <1>1, InitInStep, StepInStep, InitShape, StepShape, InitMeasured, StepMeasured,
             InitReady, StepReady, InitStiffness, StepStiffness, PTL DEF Spec, StiffHolds

-----------------------------------------------------------------------------
(* What the servos have answered and the world has not yet heard, in the    *)
(* order in which it will.                                                  *)
Echo == sup.frames \o answers

(* The echo of a WRITE names the register that was set.                     *)
Echoes ==
  {ord \in Sent : ord.order \in WriteOrders =>
     /\ ord.par \in Params \union {"max_torque"}
     /\ ord.pid = IF ord.par \in Params THEN "pos" ELSE "none"}

(* Registers by their names; the maximum torque belongs to no controller. *)
IsName(pid, par) == (pid \in Pids /\ par \in Params) \/ (pid = "none" /\ par = "max_torque")

Value(s, pid, par) == IF par = "max_torque" THEN s.max_torque ELSE s.reg[pid][par]

EchoOf(i, pid, par) ==
  {ord \in Sent : ord.servo = i /\ ord.order \in WriteOrders /\ ord.pid = pid /\ ord.par = par}

(* The value that the world will hold when it has heard of a WRITE. *)
Learnt(par, val) == IF par = "max_torque" THEN (val * 512) \div 100 ELSE val

(* The last echo on its way tells what the servo holds; without one, the    *)
(* world holds it already, or the echo was lost with an uplink.             *)
Echoed(i, pid, par) ==
  /\ \A k : LastOf(Echo, EchoOf(i, pid, par), k) =>
       Learnt(par, Echo[k].val) = Value(servo[i], pid, par)
  /\ \/ Meets(Echo, EchoOf(i, pid, par))
     \/ Value(world[i], pid, par) = Value(servo[i], pid, par)
     \/ <<i, pid, par>> \in missed

Told ==
  /\ Echo \in Seq(Echoes)
  /\ \A i \in Servos : \A pid, par : IsName(pid, par) => Echoed(i, pid, par)

(* The answers on their way are well formed. *)
LEMMA EchoType ==
  ASSUME RobotInv
  PROVE  sup.frames \in Seq(Sent) /\ answers \in Seq(Sent) /\ Echo \in Seq(Sent)
BY ConcatProperties DEF RobotInv, BoardType, LinkType, Echo

(* At first the world's registers and the servos' are the same. *)
LEMMA InitTold == Init => Told
<1>. SUFFICES ASSUME Init PROVE Told
  OBVIOUS
<1>1. <<>> \in Seq(Sent) /\ <<>> \in Seq(Echoes)
  BY EmptySeq
<1>2. Echo = <<>>
  BY <1>1, ConcatEmptySeq DEF Init, InitBoard, Echo
<1>3. \A U, k : ~LastOf(<<>>, U, k)
  BY DEF LastOf
<1>4. ASSUME NEW i \in Servos, NEW pid, NEW par
      PROVE  Value(world[i], pid, par) = Value(servo[i], pid, par)
  <2>1. /\ world[i].reg = InitReg /\ servo[i].reg = InitReg
        /\ world[i].max_torque = 0 /\ servo[i].max_torque = 0
    BY <1>4 DEF Init, InitBoard
  <2>. HIDE DEF InitReg
  <2>. QED  BY <2>1 DEF Value
<1>. QED  BY <1>1, <1>2, <1>3, <1>4 DEF Told, Echoed

(* A step that changes no register and no answer keeps what is told. *)
LEMMA ToldSame ==
  ASSUME Told, Echo' = Echo, missed' = missed,
         \A i \in Servos :
           UNCHANGED <<world[i].reg, world[i].max_torque, servo[i].reg, servo[i].max_torque>>
  PROVE  Told'
<1>1. ASSUME NEW i \in Servos, NEW pid, NEW par, IsName(pid, par)
      PROVE  Echoed(i, pid, par)'
  <2>1. Echoed(i, pid, par)
    BY <1>1 DEF Told
  <2>2. /\ Value(world[i], pid, par)' = Value(world[i], pid, par)
        /\ Value(servo[i], pid, par)' = Value(servo[i], pid, par)
    BY <1>1 DEF Value
  <2>3. EchoOf(i, pid, par)' = EchoOf(i, pid, par)
    BY DEF EchoOf
  <2>. DEFINE U == EchoOf(i, pid, par)
  <2>4. /\ \A k : LastOf(Echo, EchoOf(i, pid, par), k)' <=> LastOf(Echo, U, k)
        /\ Meets(Echo, EchoOf(i, pid, par))' <=> Meets(Echo, U)
    BY <2>3 DEF LastOf, Meets
  <2>. HIDE DEF U
  <2>5. /\ \A k : LastOf(Echo, U, k) => Learnt(par, Echo[k].val) = Value(servo[i], pid, par)
        /\ \/ Meets(Echo, U) \/ Value(world[i], pid, par) = Value(servo[i], pid, par)
           \/ <<i, pid, par>> \in missed
    BY <2>1 DEF Echoed, U
  <2>6. \A k : Learnt(par, Echo[k].val)' = Learnt(par, Echo[k].val)
    BY DEF Learnt
  <2>. QED  BY <2>2, <2>4, <2>5, <2>6 DEF Echoed
<1>2. Echoes' = Echoes
  BY DEF Echoes
<1>. QED  BY <1>1, <1>2 DEF Told, IsName

(* The world holds what it has heard. *)
LEMMA LearnEffect ==
  ASSUME NEW f \in Echoes, NEW pid, NEW par, IsName(pid, par),
         NEW w \in [polarity : Bits, reg : Registers, max_torque : Int, angle : Int]
  PROVE  Value(Learn(w, f), pid, par) =
           IF f \in EchoOf(f.servo, pid, par) THEN Learnt(par, f.val) ELSE Value(w, pid, par)
<1>1. f \in Sent /\ "GET" \notin WriteOrders /\ "max_torque" \notin Params /\ "pos" \in Pids
  BY DEF Echoes, WriteOrders, Params, Pids
<1>2. f \in EchoOf(f.servo, pid, par) <=> f.order \in WriteOrders /\ f.pid = pid /\ f.par = par
  BY <1>1 DEF EchoOf
<1>3. w.reg \in [Pids -> [Params -> Int]]
  BY DEF Registers
<1>4. CASE f.order \notin WriteOrders
  <2>1. Learn(w, f).reg = w.reg /\ Learn(w, f).max_torque = w.max_torque
    BY <1>4 DEF Learn, update_position
  <2>. QED  BY <1>2, <1>4, <2>1 DEF Value
<1>5. CASE f.order \in WriteOrders /\ f.par \in Params
  <2>1. f.pid = "pos"
    BY <1>5 DEF Echoes
  <2>2. Learn(w, f) = [w EXCEPT !.reg = [w.reg EXCEPT !["pos"][f.par] = f.val]]
    BY <1>1, <1>5, <2>1 DEF Learn, update_register, NewReg
  <2>3. /\ Learn(w, f).reg = [w.reg EXCEPT !["pos"][f.par] = f.val]
        /\ Learn(w, f).max_torque = w.max_torque
    BY <2>2
  <2>4. CASE par = "max_torque"
    BY <1>1, <1>2, <1>5, <2>3, <2>4 DEF Value
  <2>5. CASE par # "max_torque"
    <3>1. pid \in Pids /\ par \in Params
      BY <2>5 DEF IsName
    <3>2. Learn(w, f).reg[pid][par] =
            IF pid = "pos" /\ par = f.par THEN f.val ELSE w.reg[pid][par]
      BY <1>1, <1>3, <1>5, <2>3, <3>1
    <3>. QED  BY <1>2, <1>5, <2>1, <2>5, <3>2 DEF Value, Learnt
  <2>. QED  BY <2>4, <2>5
<1>6. CASE f.order \in WriteOrders /\ f.par \notin Params
  <2>1. f.par = "max_torque" /\ f.pid = "none"
    BY <1>6 DEF Echoes
  <2>2. Learn(w, f) = [w EXCEPT !.max_torque = (f.val * 512) \div 100]
    BY <1>1, <1>6, <2>1 DEF Learn, update_max_torque
  <2>3. /\ Learn(w, f).reg = w.reg
        /\ Learn(w, f).max_torque = (f.val * 512) \div 100
    BY <2>2
  <2>. QED  BY <1>1, <1>2, <1>6, <2>1, <2>3 DEF Value, Learnt, IsName
<1>. QED  BY <1>4, <1>5, <1>6

(* The register that a frame names, and those that some frames name. *)
LEMMA NamedFrame ==
  ASSUME NEW f, NEW i, NEW pid, NEW par, <<i, pid, par>> \in Named(<<f>>)
  PROVE  f.order \in WriteOrders /\ f.servo = i /\ f.pid = pid /\ f.par = par
BY DEF Named

LEMMA MetNamed ==
  ASSUME NEW s \in Seq(Sent), NEW i, NEW pid, NEW par, Meets(s, EchoOf(i, pid, par))
  PROVE  <<i, pid, par>> \in Named(s)
<1>1. PICK k \in 1..Len(s) : s[k] \in EchoOf(i, pid, par)
  BY DEF Meets
<1>2. DOMAIN s = 1..Len(s)
  BY LenProperties
<1>3. k \in DOMAIN s /\ s[k].order \in WriteOrders
      /\ <<i, pid, par>> = <<s[k].servo, s[k].pid, s[k].par>>
  BY <1>1, <1>2 DEF EchoOf
<1>. QED  BY <1>3 DEF Named

(* An answer that arrives tells the world what it carries. *)
LEMMA ReceiveTold ==
  ASSUME RobotInv, Told, ReceiveFrame
  PROVE  Told'
<1>. DEFINE f == Head(sup.frames)
<1>1. /\ sup.frames \in Seq(Sent) /\ sup.frames # <<>> /\ answers \in Seq(Sent)
      /\ world' = [world EXCEPT ![f.servo] = Learn(world[f.servo], f)]
      /\ sup' = [sup EXCEPT !.frames = Tail(sup.frames)]
      /\ answers' = answers /\ servo' = servo /\ missed' = missed \ Named(<<f>>)
  BY DEF ReceiveFrame, op_recv_frame, RobotInv, BoardType, LinkType
<1>2. Echo # <<>> /\ Head(Echo) = f /\ Tail(Echo) = Tail(sup.frames) \o answers
  BY <1>1, TailOfBus DEF Echo
<1>3. sup'.frames = Tail(sup.frames)
  BY <1>1 DEF RobotInv, BoardType
<1>4. Echo' = Tail(Echo)
  BY <1>1, <1>2, <1>3 DEF Echo
<1>5. Echo \in Seq(Echoes)
  BY DEF Told
<1>6. f \in Echoes /\ Tail(Echo) \in Seq(Echoes)
  BY <1>2, <1>5, HeadTailProperties
<1>7. f \in Sent /\ f.servo \in Servos
  BY <1>6 DEF Echoes, Sent
<1>. HIDE DEF f
<1>8. ASSUME NEW i \in Servos, NEW pid, NEW par, IsName(pid, par)
      PROVE  Echoed(i, pid, par)'
  <2>. DEFINE U == EchoOf(i, pid, par)
              v == Value(servo[i], pid, par)
              t == Tail(Echo)
  <2>1. /\ \A k : LastOf(Echo, U, k) => Learnt(par, Echo[k].val) = v
        /\ Meets(Echo, U) \/ Value(world[i], pid, par) = v \/ <<i, pid, par>> \in missed
    BY <1>8 DEF Told, Echoed
  <2>2. Value(world'[i], pid, par) =
          IF f \in U THEN Learnt(par, f.val) ELSE Value(world[i], pid, par)
    <3>1. CASE i = f.servo
      <4>1. world'[i] = Learn(world[i], f)
        BY <1>1, <1>7, <3>1 DEF RobotInv, BoardType
      <4>2. world[i] \in [polarity : Bits, reg : Registers, max_torque : Int, angle : Int]
        BY DEF RobotInv, BoardType
      <4>. QED  BY <1>6, <1>8, <3>1, <4>1, <4>2, LearnEffect
    <3>2. CASE i # f.servo
      <4>1. world'[i] = world[i]
        BY <1>1, <1>7, <3>2 DEF RobotInv, BoardType
      <4>. QED  BY <3>2, <4>1 DEF EchoOf
    <3>. QED  BY <3>1, <3>2
  <2>3. /\ \A k : LastOf(t, U, k) => LastOf(Echo, U, k + 1) /\ Echo[k + 1] = t[k]
        /\ f \in U /\ ~Meets(t, U) => LastOf(Echo, U, 1) /\ Echo[1] = f
        /\ Meets(Echo, U) => f \in U \/ Meets(t, U)
    BY <1>2, <1>5, TailLast, TailMeets
  <2>4. f \in U \/ (<<i, pid, par>> \in missed => <<i, pid, par>> \in missed')
    <3>1. <<i, pid, par>> \in Named(<<f>>) => f \in U
      BY <1>7, NamedFrame DEF EchoOf
    <3>. QED  BY <1>1, <3>1
  <2>5. /\ EchoOf(i, pid, par)' = U
        /\ Value(servo[i], pid, par)' = v
        /\ Value(world[i], pid, par)' = Value(world'[i], pid, par)
    BY <1>1 DEF EchoOf, Value
  <2>6. /\ \A k : LastOf(Echo, EchoOf(i, pid, par), k)' <=> LastOf(t, U, k)
        /\ Meets(Echo, EchoOf(i, pid, par))' <=> Meets(t, U)
        /\ \A k : Learnt(par, Echo[k].val)' = Learnt(par, t[k].val)
    BY <1>4, <2>5 DEF LastOf, Meets, Learnt
  <2>. HIDE DEF U, v, t
  <2>7. \A k : LastOf(t, U, k) => Learnt(par, t[k].val) = v
    BY <2>1, <2>3
  <2>8. Meets(t, U) \/ Value(world'[i], pid, par) = v \/ <<i, pid, par>> \in missed'
    BY <2>1, <2>2, <2>3, <2>4
  <2>. QED  BY <2>5, <2>6, <2>7, <2>8 DEF Echoed
<1>9. Echoes' = Echoes
  BY DEF Echoes
<1>. QED  BY <1>4, <1>6, <1>8, <1>9 DEF Told, IsName

(* An answer comes last. *)
LEMMA AnswerTold ==
  ASSUME RobotInv, Told, NEW x \in Echoes, Echo' = Append(Echo, x), world' = world,
         missed' = missed,
         \A i \in Servos : \A pid, par : IsName(pid, par) =>
           Value(servo'[i], pid, par) =
             IF x \in EchoOf(i, pid, par) THEN Learnt(par, x.val)
             ELSE Value(servo[i], pid, par)
  PROVE  Told'
<1>1. Echo \in Seq(Echoes)
  BY DEF Told
<1>2. Append(Echo, x) \in Seq(Echoes)
  BY <1>1, AppendProperties
<1>3. ASSUME NEW i \in Servos, NEW pid, NEW par, IsName(pid, par)
      PROVE  Echoed(i, pid, par)'
  <2>. DEFINE U == EchoOf(i, pid, par)
              v == Value(servo'[i], pid, par)
              t == Append(Echo, x)
  <2>1. /\ \A k : LastOf(Echo, U, k) => Learnt(par, Echo[k].val) = Value(servo[i], pid, par)
        /\ \/ Meets(Echo, U) \/ Value(world[i], pid, par) = Value(servo[i], pid, par)
           \/ <<i, pid, par>> \in missed
    BY <1>3 DEF Told, Echoed
  <2>2. v = IF x \in U THEN Learnt(par, x.val) ELSE Value(servo[i], pid, par)
    BY <1>3
  <2>3. /\ \A k : LastOf(t, U, k) =>
             IF x \in U THEN t[k] = x ELSE LastOf(Echo, U, k) /\ t[k] = Echo[k]
        /\ Meets(t, U) <=> Meets(Echo, U) \/ x \in U
    BY <1>1, AppendLast, AppendMeets
  <2>4. /\ EchoOf(i, pid, par)' = U
        /\ Value(servo[i], pid, par)' = v
        /\ Value(world[i], pid, par)' = Value(world[i], pid, par)
    BY DEF EchoOf, Value
  <2>5. /\ \A k : LastOf(Echo, EchoOf(i, pid, par), k)' <=> LastOf(t, U, k)
        /\ Meets(Echo, EchoOf(i, pid, par))' <=> Meets(t, U)
        /\ \A k : Learnt(par, Echo[k].val)' = Learnt(par, t[k].val)
    BY <2>4 DEF LastOf, Meets, Learnt
  <2>. HIDE DEF U, v, t
  <2>6. \A k : LastOf(t, U, k) => Learnt(par, t[k].val) = v
    BY <2>1, <2>2, <2>3
  <2>7. Meets(t, U) \/ Value(world[i], pid, par) = v \/ <<i, pid, par>> \in missed
    BY <2>1, <2>2, <2>3
  <2>. QED  BY <2>4, <2>5, <2>6, <2>7 DEF Echoed
<1>4. Echoes' = Echoes
  BY DEF Echoes
<1>. QED  BY <1>2, <1>3, <1>4 DEF Told, IsName

(* A WRITE that is handled leaves an echo that tells it. *)
LEMMA TransmitTold ==
  ASSUME RobotInv, Ready, Told, Transmit
  PROVE  Told'
<1>. DEFINE ord == Head(bus)
<1>1. /\ ord \in Sent /\ ord.servo \in Servos /\ ord.val \in Int
      /\ ord.order \in WriteOrders => Accepts(servo[ord.servo].polarity, ord.order)
  BY HeadAccepted DEF Transmit, Sent
<1>2. Plain(ord) \in Meant
  <2>1. Path \in Seq(Meant) /\ Path # <<>> /\ Head(Path) = Plain(ord)
    BY PathTransmitted DEF Ready
  <2>. QED  BY <2>1, HeadTailProperties
<1>3. world' = world /\ sup' = sup /\ missed' = missed /\ answers \in Seq(Sent) /\ sup.frames \in Seq(Sent)
  BY EchoType DEF Transmit, board
<1>4. ASSUME NEW x \in Sent, answers' = Append(answers, x)
      PROVE  Echo' = Append(Echo, x)
  <2>. DEFINE s == sup.frames
  <2>1. s \in Seq(Sent) /\ s' = s /\ Echo = s \o answers /\ Echo' = s \o answers'
    BY <1>3 DEF Echo
  <2>. HIDE DEF s
  <2>2. s \o Append(answers, x) = Append(s \o answers, x)
    BY <1>3, <2>1, AppendInQueue
  <2>. QED  BY <1>4, <2>1, <2>2
<1>5. \/ \E count \in Counts[ord.servo] : HandleGet(ord, count)
      \/ HandleWrite(ord)
      \/ HandlePid(ord)
  BY DEF Transmit
<1>. HIDE DEF ord
<1>6. ASSUME NEW count \in Counts[ord.servo], HandleGet(ord, count)
      PROVE  Told'
  <2>. DEFINE x == [ord EXCEPT !.val = count]
  <2>1. count \in Int
    BY <1>1, CountsAssumption
  <2>2. /\ x \in Sent /\ x.order = "GET"
        /\ answers' = Append(answers, x) /\ servo' = servo
    BY <1>1, <1>6, <2>1 DEF HandleGet, Sent
  <2>. HIDE DEF x
  <2>3. x \in Echoes /\ \A i, pid, par : x \notin EchoOf(i, pid, par)
    BY <2>2 DEF Echoes, EchoOf, WriteOrders
  <2>4. Echo' = Append(Echo, x)
    BY <1>4, <2>2
  <2>. QED  BY <1>3, <2>2, <2>3, <2>4, AnswerTold
<1>7. CASE HandleWrite(ord)
  <2>1. /\ ord.order \in WriteOrders /\ Accepts(servo[ord.servo].polarity, ord.order)
    BY <1>1, <1>7 DEF HandleWrite
  <2>2. /\ ord.par \in Needed \union {"mod_fact"}
        /\ ord.pid = IF ord.par \in Params THEN "pos" ELSE "none"
        /\ ord.par = "max_torque" => ord.val \in {5, 100}
        /\ Payload(ord.par, ord.pid, ord.val) = ord.val
        /\ WrittenBack(ord.par, ord.pid, ord.val) = {ord.val}
        /\ \A i \in Servos :
             /\ \A pid \in Pids, par \in Params :
                  servo'[i].reg[pid][par] =
                    IF i = ord.servo /\ pid = "pos" /\ par = ord.par THEN ord.val
                    ELSE servo[i].reg[pid][par]
             /\ servo'[i].max_torque =
                  IF i = ord.servo /\ ord.par = "max_torque" THEN MaxTorque(ord.val)
                  ELSE servo[i].max_torque
    BY <1>1, <1>2, <1>7, <2>1, WriteEffect
  <2>. DEFINE x == [ord EXCEPT !.val = ord.val]
  <2>3. answers' = Append(answers, x)
    <3>1. PICK echo \in Int :
            /\ echo \in WrittenBack(ord.par, ord.pid, Payload(ord.par, ord.pid, ord.val))
            /\ answers' = IF Accepts(servo[ord.servo].polarity, ord.order)
                          THEN Append(answers, [ord EXCEPT !.val = echo]) ELSE answers
      BY <1>1, <1>7, WriteAnswer
    <3>2. echo = ord.val
      BY <2>2, <3>1
    <3>. QED  BY <2>1, <3>1, <3>2
  <2>4. x \in Sent /\ x.servo = ord.servo /\ x.order = ord.order /\ x.par = ord.par
        /\ x.pid = ord.pid /\ x.val = ord.val
    BY <1>1, <2>2 DEF Sent
  <2>. HIDE DEF x
  <2>5. x \in Echoes
    BY <2>2, <2>4 DEF Echoes, Needed, Params
  <2>6. ASSUME NEW i \in Servos, NEW pid, NEW par, IsName(pid, par)
        PROVE  Value(servo'[i], pid, par) =
                 IF x \in EchoOf(i, pid, par) THEN Learnt(par, x.val)
                 ELSE Value(servo[i], pid, par)
    <3>1. x \in EchoOf(i, pid, par) <=> ord.servo = i /\ ord.pid = pid /\ ord.par = par
      BY <2>1, <2>4 DEF EchoOf
    <3>2. "max_torque" \notin Params
      BY DEF Params
    <3>3. CASE par = "max_torque"
      <4>1. MaxTorque(5) = (5 * 512) \div 100 /\ MaxTorque(100) = (100 * 512) \div 100
        BY DEF MaxTorque
      <4>2. pid = "none" /\ Value(servo'[i], pid, par) = servo'[i].max_torque
            /\ Value(servo[i], pid, par) = servo[i].max_torque
        BY <2>6, <3>2, <3>3 DEF IsName, Value
      <4>3. CASE ord.servo = i /\ ord.par = par
        <5>1. ord.pid = pid /\ Learnt(par, x.val) = (ord.val * 512) \div 100
          BY <2>2, <2>4, <3>2, <3>3, <4>2, <4>3 DEF Learnt
        <5>2. servo'[i].max_torque = MaxTorque(ord.val) /\ ord.val \in {5, 100}
          BY <2>2, <3>3, <4>3
        <5>. QED  BY <3>1, <4>1, <4>2, <4>3, <5>1, <5>2
      <4>4. CASE ~(ord.servo = i /\ ord.par = par)
        BY <2>2, <3>1, <3>3, <4>2, <4>4
      <4>. QED  BY <4>3, <4>4
    <3>4. CASE par # "max_torque"
      <4>1. pid \in Pids /\ par \in Params
        BY <2>6, <3>4 DEF IsName
      <4>2. Value(servo'[i], pid, par) = servo'[i].reg[pid][par]
            /\ Value(servo[i], pid, par) = servo[i].reg[pid][par]
            /\ Learnt(par, x.val) = ord.val
        BY <2>4, <3>4 DEF Value, Learnt
      <4>3. servo'[i].reg[pid][par] =
              IF i = ord.servo /\ pid = "pos" /\ par = ord.par THEN ord.val
              ELSE servo[i].reg[pid][par]
        BY <2>2, <4>1
      <4>4. ord.par = par => ord.pid = "pos"
        BY <2>2, <4>1
      <4>. QED  BY <3>1, <4>2, <4>3, <4>4
    <3>. QED  BY <3>3, <3>4
  <2>7. Echo' = Append(Echo, x)
    BY <1>4, <2>4, <2>3
  <2>. QED  BY <1>3, <2>5, <2>6, <2>7, AnswerTold
<1>8. CASE HandlePid(ord)
  <2>1. Echo' = Echo
    BY <1>3, <1>8 DEF HandlePid, Echo
  <2>2. servo' = [servo EXCEPT ![ord.servo].enabled = ord.par # "off",
                               ![ord.servo].has_been_set = @ /\ ord.par # "off"]
    BY <1>8 DEF HandlePid
  <2>3. \A i \in Servos : UNCHANGED <<servo[i].reg, servo[i].max_torque>>
    BY <1>1, <2>2 DEF RobotInv, LinkType
  <2>. QED  BY <1>3, <2>1, <2>3, ToldSame
<1>. QED  BY <1>5, <1>6, <1>7, <1>8

(* An uplink that fails loses the first echoes: what they would have told *)
(* is missed, unless a later echo tells it.                               *)
LEMMA FailureTold ==
  ASSUME RobotInv, Shape, Told, UplinkFails
  PROVE  Told'
<1>1. /\ answers \in Seq(Sent) /\ sup.frames \in Seq(Sent) /\ <<>> \in Seq(Sent)
      /\ world' = world /\ servo' = servo /\ sup'.frames = <<>>
      /\ Echo \in Seq(Echoes)
  BY EchoType, EmptySeq DEF UplinkFails, UplinkError, Told
<1>2. PICK lost \in Seq(Sent), kept \in Seq(Sent) :
        Echo = lost \o kept /\ Echo' = kept /\ missed' = missed \union Named(lost)
  <2>1. CASE sup.pc = "uplink" /\ answers' = <<>> /\ missed' = missed \union Named(answers)
    <3>1. sup.frames = <<>>
      BY <2>1 DEF Shape
    <3>2. Echo = answers /\ Echo' = <<>>
      BY <1>1, <2>1, <3>1, ConcatEmptySeq DEF Echo
    <3>3. answers = answers \o <<>>
      BY <1>1, ConcatEmptySeq
    <3>. QED  BY <1>1, <2>1, <3>2, <3>3
  <2>2. CASE answers' = answers /\ missed' = missed \union Named(sup.frames)
    <3>1. Echo' = answers
      BY <1>1, <2>2, ConcatEmptySeq DEF Echo
    <3>. QED  BY <1>1, <2>2, <3>1 DEF Echo
  <2>. QED  BY <2>1, <2>2 DEF UplinkFails
<1>3. ASSUME NEW i \in Servos, NEW pid, NEW par, IsName(pid, par)
      PROVE  Echoed(i, pid, par)'
  <2>. DEFINE U == EchoOf(i, pid, par)
              v == Value(servo[i], pid, par)
  <2>1. /\ \A k : LastOf(Echo, U, k) => Learnt(par, Echo[k].val) = v
        /\ Meets(Echo, U) \/ Value(world[i], pid, par) = v \/ <<i, pid, par>> \in missed
    BY <1>3 DEF Told, Echoed
  <2>2. /\ \A k : LastOf(kept, U, k) =>
             LastOf(Echo, U, Len(lost) + k) /\ Echo[Len(lost) + k] = kept[k]
        /\ Meets(Echo, U) => Meets(lost, U) \/ Meets(kept, U)
    <3>1. Echo = lost \o kept
      BY <1>2
    <3>. HIDE DEF U
    <3>2. \A k : LastOf(kept, U, k) =>
                 LastOf(lost \o kept, U, Len(lost) + k)
                 /\ (lost \o kept)[Len(lost) + k] = kept[k]
      BY ConcatLast
    <3>3. Meets(lost \o kept, U) <=> Meets(lost, U) \/ Meets(kept, U)
      BY ConcatMeets
    <3>. QED  BY <3>1, <3>2, <3>3
  <2>3. Meets(lost, U) => <<i, pid, par>> \in missed'
    BY <1>2, MetNamed
  <2>4. /\ EchoOf(i, pid, par)' = U
        /\ Value(servo[i], pid, par)' = v
        /\ Value(world[i], pid, par)' = Value(world[i], pid, par)
    BY <1>1 DEF EchoOf, Value
  <2>5. /\ \A k : LastOf(Echo, EchoOf(i, pid, par), k)' <=> LastOf(kept, U, k)
        /\ Meets(Echo, EchoOf(i, pid, par))' <=> Meets(kept, U)
        /\ \A k : Learnt(par, Echo[k].val)' = Learnt(par, kept[k].val)
    BY <1>2, <2>4 DEF LastOf, Meets, Learnt
  <2>. HIDE DEF U, v
  <2>6. \A k : LastOf(kept, U, k) => Learnt(par, kept[k].val) = v
    BY <2>1, <2>2
  <2>7. Meets(kept, U) \/ Value(world[i], pid, par) = v \/ <<i, pid, par>> \in missed'
    BY <1>2, <2>1, <2>2, <2>3
  <2>. QED  BY <2>4, <2>5, <2>6, <2>7 DEF Echoed
<1>4. kept \in Seq(Echoes)
  <2>1. \A k \in 1..Len(kept) : kept[k] \in Echoes
    <3>. SUFFICES ASSUME NEW k \in 1..Len(kept) PROVE kept[k] \in Echoes
      OBVIOUS
    <3>1. /\ Len(lost) \in Nat /\ Len(kept) \in Nat /\ Len(Echo) = Len(lost) + Len(kept)
          /\ \A j \in 1..Len(lost) + Len(kept) :
               Echo[j] = IF j <= Len(lost) THEN lost[j] ELSE kept[j - Len(lost)]
      BY <1>2, ConcatProperties, LenProperties
    <3>2. Len(lost) + k \in 1..Len(Echo) /\ Echo[Len(lost) + k] = kept[k]
      BY <3>1
    <3>. QED  BY <1>1, <3>2, ElementOfSeq
  <2>2. kept = [k \in 1..Len(kept) |-> kept[k]] /\ Len(kept) \in Nat
    BY <1>2, LenProperties
  <2>. QED  BY <2>1, <2>2, SeqDef
<1>5. Echoes' = Echoes
  BY DEF Echoes
<1>. QED  BY <1>2, <1>3, <1>4, <1>5 DEF Told, IsName

(* Every step keeps what is told, or on its way to be. *)
LEMMA StepTold == RobotInv /\ Shape /\ Ready /\ Told /\ [Next]_vars => Told'
<1>. SUFFICES ASSUME RobotInv, Shape, Ready, Told, [Next]_vars PROVE Told'
  OBVIOUS
<1>1. ASSUME UNCHANGED <<world, sup, answers, servo, missed>> PROVE Told'
  BY <1>1, ToldSame DEF Echo
<1>2. CASE Uplink
  <2>1. /\ sup.frames = <<>> /\ sup' = [pc |-> "frames", frames |-> answers] /\ answers' = <<>>
        /\ world' = world /\ servo' = servo /\ missed' = missed
    BY <1>2 DEF Uplink, op_new_period, Shape
  <2>2. Echo = answers /\ Echo' = answers
    BY <2>1, EchoType, ConcatEmptySeq DEF Echo
  <2>. QED  BY <2>1, <2>2, ToldSame
<1>3. CASE ReceiveFrame
  BY <1>3, ReceiveTold
<1>4. CASE Transmit
  BY <1>4, TransmitTold
<1>5. CASE Reflex /\ com_queue_order
  <2>1. /\ UNCHANGED <<sup, answers, servo, missed>>
        /\ world' = [world EXCEPT ![Head(hold.todo).servo].polarity =
                       NextPolarity(world[Head(hold.todo).servo].polarity, Head(hold.todo).order)]
    BY <1>5 DEF Reflex, com_queue_order
  <2>. DEFINE j == Head(hold.todo).servo
              b == NextPolarity(world[j].polarity, Head(hold.todo).order)
  <2>2. world' = [world EXCEPT ![j].polarity = b]
    BY <2>1
  <2>. HIDE DEF j, b
  <2>3. \A i \in Servos : UNCHANGED <<world[i].reg, world[i].max_torque>>
    BY <2>2 DEF RobotInv, BoardType
  <2>4. Echo' = Echo
    BY <2>1 DEF Echo
  <2>. QED  BY <2>1, <2>3, <2>4, ToldSame
<1>6. CASE Runs /\ ~com_queue_order
  <2>1. missed' = missed
    BY <1>6 DEF Runs, Reflex, WakeEarly
  <2>. QED  BY <1>1, <1>6, <2>1, ReflexMoves
<1>7. CASE Downlink
  <2>1. sup' = [sup EXCEPT !.pc = "uplink"] /\ UNCHANGED <<world, answers, servo, missed>>
    BY <1>7 DEF Downlink, com_downlink
  <2>2. Echo' = Echo
    BY <2>1 DEF RobotInv, BoardType, Echo
  <2>. QED  BY <2>1, <2>2, ToldSame
<1>8. CASE Collide
  BY <1>1, <1>8 DEF Collide, update_collision
<1>9. CASE UNCHANGED vars
  BY <1>1, <1>9 DEF vars, board
<1>10. CASE UplinkFails
  BY <1>10, FailureTold
<1>. QED  BY <1>2, <1>3, <1>4, <1>5, <1>6, <1>7, <1>8, <1>9, <1>10, EarlyQueuesNothing
          DEF Next, Runs

(* When no order and no answer is on its way, the world holds each servo's  *)
(* polarity, registers and maximum torque, although the two ends set them   *)
(* with different code and nothing is acknowledged; what a failing uplink   *)
(* lost is all that it may miss, and never the polarity (com.c:             *)
(* com_queue_order, world_update.c, and the servo's main.c: task_order).    *)
THEOREM WorldIsTruthful == Spec => []WorldTruthful
<1>1. RobotInv /\ Told => WorldTruthful
  <2>. SUFFICES ASSUME RobotInv, Told, ~InTransit, NEW i \in Servos
                PROVE  /\ world[i].polarity = servo[i].polarity
                       /\ \A pid \in Pids, par \in Params :
                            \/ world[i].reg[pid][par] = servo[i].reg[pid][par]
                            \/ <<i, pid, par>> \in missed
                       /\ \/ world[i].max_torque = servo[i].max_torque
                          \/ <<i, "none", "max_torque">> \in missed
    BY DEF WorldTruthful
  <2>1. bus = <<>> /\ queue = <<>> /\ answers = <<>> /\ sup.frames = <<>>
    BY DEF InTransit
  <2>2. bus \o queue = <<>> /\ Echo = <<>>
    BY <2>1, EchoType, PathType, ConcatEmptySeq DEF Echo
  <2>3. ASSUME NEW pid, NEW par, IsName(pid, par)
        PROVE  \/ Value(world[i], pid, par) = Value(servo[i], pid, par)
               \/ <<i, pid, par>> \in missed
    BY <2>2, <2>3, EmptyMeets DEF Told, Echoed
  <2>4. \/ world[i].max_torque = servo[i].max_torque
        \/ <<i, "none", "max_torque">> \in missed
    <3>1. \/ Value(world[i], "none", "max_torque") = Value(servo[i], "none", "max_torque")
          \/ <<i, "none", "max_torque">> \in missed
      BY <2>3 DEF IsName
    <3>. QED  BY <3>1 DEF Value
  <2>5. ASSUME NEW pid \in Pids, NEW par \in Params
        PROVE  \/ world[i].reg[pid][par] = servo[i].reg[pid][par]
               \/ <<i, pid, par>> \in missed
    <3>1. \/ Value(world[i], pid, par) = Value(servo[i], pid, par)
          \/ <<i, pid, par>> \in missed
      BY <2>3 DEF IsName
    <3>2. par # "max_torque"
      BY DEF Params
    <3>. QED  BY <3>1, <3>2 DEF Value
  <2>6. world[i].polarity = servo[i].polarity
    <3>1. PICK p \in [Nat -> Bits] : p[1] = servo[i].polarity
                                     /\ p[Len(bus \o queue) + 1] = world[i].polarity
      BY DEF RobotInv, InStep, Leads
    <3>2. Len(bus \o queue) + 1 = 1
      BY <2>2
    <3>. QED  BY <3>1, <3>2
  <2>. QED  BY <2>4, <2>5, <2>6
<1>. QED  BY <1>1, InitInStep, StepInStep, InitShape, StepShape, InitMeasured, StepMeasured,
             InitReady, StepReady, InitTold, StepTold, PTL DEF Spec

-----------------------------------------------------------------------------
(* Servo i as a board of registers: of its controllers the reflex uses the *)
(* position controller alone.                                              *)
PosOnly(on) == [p \in Pids |-> p = "pos" /\ on]

Regs(i) == INSTANCE ServoRegisters
           WITH Frames <- Sent, polarity <- servo[i].polarity, reg <- servo[i].reg,
                enabled <- PosOnly(servo[i].enabled),
                has_been_set <- PosOnly(servo[i].has_been_set),
                max_torque <- servo[i].max_torque

(* The copies of the operators on orders that the boards bring.            *)
LEMMA SameOnBoards ==
  ASSUME NEW i \in Servos
  PROVE  /\ \A q, x : Regs(i)!Accepts(q, x) = Accepts(q, x)
         /\ \A x, p : Regs(i)!Writable(x, p) = Writable(x, p)
         /\ \A x, p, v : Regs(i)!Payload(x, p, v) = Payload(x, p, v)
         /\ \A r, x, p, v : Regs(i)!NewReg(r, x, p, v) = NewReg(r, x, p, v)
         /\ \A h, x, p : Regs(i)!NewHasBeenSet(h, x, p) = NewHasBeenSet(h, x, p)
         /\ \A t, x, v : Regs(i)!NewMaxTorque(t, x, v) = NewMaxTorque(t, x, v)
         /\ Regs(i)!Pids = Pids /\ Regs(i)!PidOrder = PidOrder
         /\ Regs(i)!InitReg = InitReg
BY DEF Accepts, Regs!Accepts, WriteOrder, Regs!WriteOrder, Writable, Regs!Writable, Params,
       Regs!Params, Pids, Regs!Pids, Payload, Regs!Payload, ToInt16, Regs!ToInt16, NewReg, Regs!NewReg,
       NewHasBeenSet, Regs!NewHasBeenSet, NewMaxTorque, Regs!NewMaxTorque, MaxTorque,
       Regs!MaxTorque, PidOrder, Regs!PidOrder, InitReg, Regs!InitReg

(* At power-up the servos are as ServoRegisters has them. *)
LEMMA BoardInit == ASSUME Init, NEW i \in Servos PROVE Regs(i)!Init
<1>1. /\ servo[i].polarity = 0 /\ servo[i].reg = InitReg /\ servo[i].max_torque = 0
      /\ servo[i].enabled = FALSE /\ servo[i].has_been_set = FALSE
  BY DEF Init
<1>2. PosOnly(FALSE) = [p \in Pids |-> FALSE]
  BY DEF PosOnly
<1>. QED  BY <1>1, <1>2, SameOnBoards DEF Regs!Init

(* The head of the bus is an order of the reflex.                          *)
LEMMA HeadMeant ==
  ASSUME RobotInv, Ready, Transmit
  PROVE  Head(bus) \in Sent /\ Plain(Head(bus)) \in Meant
<1>1. Path \in Seq(Pending) /\ Path # <<>> /\ Head(Path) = Plain(Head(bus))
  BY PathType, PathTransmitted
<1>2. Head(Path) \in Meant
  BY <1>1, HeadTailProperties DEF Ready
<1>. QED  BY <1>1, <1>2, HeadAccepted DEF Transmit

(* An order changes its own servo by one write or one switch, and no other. *)
LEMMA BoardStep ==
  ASSUME RobotInv, Ready, [Next]_vars, NEW i \in Servos
  PROVE  [Regs(i)!Next]_(Regs(i)!vars)
<1>. SUFFICES Regs(i)!Next \/ UNCHANGED Regs(i)!vars
  OBVIOUS
<1>1. ASSUME servo'[i] = servo[i] PROVE UNCHANGED Regs(i)!vars
  BY <1>1 DEF Regs!vars, PosOnly
<1>2. CASE \/ Uplink \/ UplinkFails \/ ReceiveFrame \/ Downlink \/ Reflex \/ WakeEarly
           \/ Collide \/ UNCHANGED vars
  BY <1>1, <1>2 DEF Uplink, UplinkFails, ReceiveFrame, Downlink, Reflex, WakeEarly, Collide,
                    vars
<1>3. CASE Transmit
  <2>. DEFINE f == Head(bus)
              s == servo[i]
              v == Payload(f.par, f.pid, f.val)
              Servo1 == [polarity : Bits, reg : Registers, max_torque : Int,
                         enabled : BOOLEAN, has_been_set : BOOLEAN]
  <2>1. f \in Sent /\ Plain(f) \in Meant
    BY <1>3, HeadMeant
  <2>2. /\ \/ \E count \in Counts[f.servo] : HandleGet(f, count)
           \/ HandleWrite(f)
           \/ HandlePid(f)
        /\ f.order \in WriteOrders => Accepts(servo[f.servo].polarity, f.order)
    BY <1>3, HeadAccepted DEF Transmit
  <2>3. servo \in [Servos -> Servo1] /\ s \in Servo1 /\ f.servo \in Servos
    BY <2>1 DEF RobotInv, LinkType, Sent
  <2>4. /\ f.order \in WriteOrders => Writable(f.par, f.pid)
        /\ f.par = "ref" => f.pid = "pos" \/ f.order \notin WriteOrders
    BY <2>1, PlainPending DEF Meant, Needed, Writable, Params, Pids
  <2>. HIDE DEF f
  <2>5. CASE \E count \in Counts[f.servo] : HandleGet(f, count)
    BY <1>1, <2>5 DEF HandleGet
  <2>6. CASE HandleWrite(f)
    <3>1. CASE f.servo # i
      <4>1. servo' = [servo EXCEPT ![f.servo] = Written(@, f)]
        BY <2>6 DEF HandleWrite
      <4>. QED  BY <1>1, <2>3, <3>1, <4>1
    <3>2. CASE f.servo = i
      <4>1. /\ f.order \in WriteOrders /\ Accepts(s.polarity, f.order)
            /\ servo' = [servo EXCEPT ![i] = Written(s, f)]
        BY <2>2, <2>6, <3>2 DEF HandleWrite
      <4>2. servo'[i] = Written(s, f)
        BY <2>3, <4>1
      <4>3. Written(s, f) = [s EXCEPT !.polarity = 1 - @,
                                      !.reg = NewReg(s.reg, f.par, f.pid, v),
                                      !.max_torque = NewMaxTorque(s.max_torque, f.par, v),
                                      !.has_been_set = @ \/ f.par = "ref"]
        BY <4>1 DEF Written
      <4>4. /\ servo'[i].polarity = 1 - s.polarity
            /\ servo'[i].reg = NewReg(s.reg, f.par, f.pid, v)
            /\ servo'[i].max_torque = NewMaxTorque(s.max_torque, f.par, v)
            /\ servo'[i].has_been_set = (s.has_been_set \/ f.par = "ref")
            /\ servo'[i].enabled = s.enabled
        <5>. HIDE DEF s, v
        <5>. QED  BY <2>3, <4>2, <4>3
      <4>5. PosOnly(servo'[i].has_been_set)
              = NewHasBeenSet(PosOnly(s.has_been_set), f.par, f.pid)
        <5>1. CASE f.par = "ref"
          <6>1. f.pid = "pos" /\ servo'[i].has_been_set = TRUE
            BY <2>4, <4>1, <4>4, <5>1
          <6>. HIDE DEF s
          <6>. QED  BY <5>1, <6>1 DEF PosOnly, NewHasBeenSet
        <5>2. CASE f.par # "ref"
          <6>1. servo'[i].has_been_set = s.has_been_set
            BY <2>3, <4>4, <5>2
          <6>. QED  BY <5>2, <6>1 DEF NewHasBeenSet
        <5>. QED  BY <5>1, <5>2
      <4>6. Regs(i)!Write(f)
        BY <2>4, <4>1, <4>4, <4>5, SameOnBoards DEF Regs!Write
      <4>. QED  BY <2>1, <4>6 DEF Regs!Next
    <3>. QED  BY <3>1, <3>2
  <2>7. CASE HandlePid(f)
    <3>1. CASE f.servo # i
      <4>1. servo'[i] = servo[i]
        BY <2>3, <2>7, <3>1 DEF HandlePid
      <4>. QED  BY <1>1, <4>1
    <3>2. CASE f.servo = i
      <4>1. /\ f.order = "PID_POS"
            /\ servo'[i].enabled = (f.par # "off")
            /\ servo'[i].has_been_set = (s.has_been_set /\ f.par # "off")
            /\ servo'[i].polarity = s.polarity /\ servo'[i].reg = s.reg
            /\ servo'[i].max_torque = s.max_torque
        BY <2>3, <2>7, <3>2 DEF HandlePid
      <4>2. /\ "pos" \in Pids /\ f.order = PidOrder["pos"]
        BY <4>1 DEF Pids, PidOrder
      <4>3. PosOnly(servo'[i].enabled) = [PosOnly(s.enabled) EXCEPT !["pos"] = f.par # "off"]
        BY <4>1, <4>2 DEF PosOnly
      <4>4. PosOnly(servo'[i].has_been_set)
              = [PosOnly(s.has_been_set) EXCEPT !["pos"] = @ /\ f.par # "off"]
        BY <2>3, <4>1, <4>2 DEF PosOnly
      <4>5. Regs(i)!Switch(f)
        BY <4>1, <4>2, <4>3, <4>4, SameOnBoards DEF Regs!Switch
      <4>. QED  BY <2>1, <4>5 DEF Regs!Next
    <3>. QED  BY <3>1, <3>2
  <2>. QED  BY <2>2, <2>5, <2>6, <2>7
<1>. QED  BY <1>2, <1>3 DEF Next

(* Each servo of the robot does what ServoRegisters allows, as the         *)
(* firmware does (ServoImplementsRegisters): what the reflex is shown to   *)
(* rely on is what the board is shown to promise.                          *)
THEOREM ServosAreBoards == ASSUME NEW i \in Servos PROVE Spec => Regs(i)!Spec
<1>1. RobotInv /\ Ready /\ [Next]_vars => [Regs(i)!Next]_(Regs(i)!vars)
  BY BoardStep
<1>2. Init => Regs(i)!Init
  BY BoardInit
<1>. QED  BY <1>1, <1>2, InitInStep, StepInStep, InitShape, StepShape, InitMeasured,
             StepMeasured, InitReady, StepReady, PTL DEF Spec, Regs!Spec
==============================================================================
