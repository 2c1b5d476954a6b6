--------------------------- MODULE CollisionProofs ---------------------------
(***************************************************************************)
(* For every set of accelerations: the collision expert has no false       *)
(* alarm, although it reads the axes while they are being stored, wakes    *)
(* up for any reason and starts from accelerations nobody measured.        *)
(***************************************************************************)
EXTENDS CollisionExpert, TLAPS

(* The axes are walked in order and within bounds. *)
LEMMA AxesWalked ==
  /\ Len(Axes) = 3
  /\ \A i \in 1..3 : Axes[i] \in Axis
BY DEF Axes, Axis

(* The initial state of the world and of the two threads has its types. *)
LEMMA TypeInit == Init => TypeOK
<1>1. Zero \in [Axis -> Int]
  BY DEF Zero
<1>2. ASSUME Init
      PROVE  /\ lin_acc \in [Axis -> Int]
             /\ frame \in [pc : {"idle", "store", "signal"}, axis : 1..3, acc : [Axis -> Int]]
             /\ expert \in [pc : {"start", "first", "second", "init", "read", "compare", "sleep"},
                            axis : 1..3, acc : [Axis -> Int], prev : [Axis -> Int]]
  BY <1>1, <1>2, Z3 DEF Init, NoSample
<1> QED
  BY <1>2 DEF Init, TypeOK

(* Every step of the supervisor and of the expert keeps the types. *)
LEMMA TypeStep == TypeOK /\ [Next]_vars => TypeOK'
<1> SUFFICES ASSUME TypeOK, [Next]_vars
             PROVE  TypeOK'
  OBVIOUS
<1> USE DEF TypeOK
<1>1. CASE op_new_period
  BY <1>1 DEF op_new_period, Signal, Sleeping
<1>2. ASSUME NEW v \in Samples, op_recv_frame(v)
      PROVE  TypeOK'
  BY <1>2, ExpertAssumption DEF op_recv_frame
<1>3. CASE update_lin_acc
  <2>1. Axes[frame.axis] \in Axis
    BY AxesWalked
  <2>2. lin_acc' \in [Axis -> Int]
    BY <1>3, <2>1 DEF update_lin_acc
  <2>3. frame' \in [pc : {"idle", "store", "signal"}, axis : 1..3, acc : [Axis -> Int]]
    BY <1>3, AxesWalked DEF update_lin_acc, StoreAxis
  <2> QED
    BY <1>3, <2>2, <2>3 DEF update_lin_acc
<1>4. CASE SignalSample
  <2>1. Zero \in [Axis -> Int]
    BY DEF Zero
  <2> QED
    BY <1>4, <2>1 DEF SignalSample, Signal, Sleeping, NoSample
<1>5. CASE FirstWait
  BY <1>5 DEF FirstWait
<1>6. CASE Wake \/ SpuriousWake
  <2>1. expert.pc \in {"first", "second", "sleep"} /\ WakeUp
    BY <1>6 DEF Wake, SpuriousWake, Sleeping
  <2>2. AfterWait[expert.pc] \in {"second", "init", "read"}
    BY <2>1 DEF AfterWait
  <2>3. expert' \in [pc : {"start", "first", "second", "init", "read", "compare", "sleep"},
                     axis : 1..3, acc : [Axis -> Int], prev : [Axis -> Int]]
    BY <2>1, <2>2 DEF WakeUp
  <2> QED
    BY <1>6, <2>1, <2>3 DEF Wake, SpuriousWake, WakeUp
<1>7. CASE get_lin_acc
  <2> DEFINE acc == [expert.acc EXCEPT ![Axes[expert.axis]] = lin_acc[Axes[expert.axis]]]
  <2>1. Axes[expert.axis] \in Axis
    BY AxesWalked
  <2>2. acc \in [Axis -> Int]
    BY <2>1
  <2>3. expert' \in [pc : {"start", "first", "second", "init", "read", "compare", "sleep"},
                     axis : 1..3, acc : [Axis -> Int], prev : [Axis -> Int]]
    <3>1. CASE expert.axis < 3
      <4>1. expert' = [expert EXCEPT !.acc = acc, !.axis = expert.axis + 1]
        BY <1>7, <3>1, AxesWalked DEF get_lin_acc
      <4>2. expert.axis + 1 \in 1..3
        BY <3>1
      <4> QED
        BY ONLY <4>1, <4>2, <2>2, TypeOK DEF TypeOK
    <3>2. CASE ~(expert.axis < 3) /\ expert.pc = "init"
      BY <1>7, <2>2, <3>2, AxesWalked DEF get_lin_acc
    <3>3. CASE ~(expert.axis < 3) /\ expert.pc # "init"
      BY <1>7, <2>2, <3>3, AxesWalked DEF get_lin_acc
    <3> QED
      BY <3>1, <3>2, <3>3
  <2> QED
    BY <1>7, <2>3 DEF get_lin_acc
<1>8. CASE Compare
  BY <1>8 DEF Compare
<1>9. CASE UNCHANGED vars
  BY <1>9 DEF vars
<1> QED
  BY <1>1, <1>2, <1>3, <1>4, <1>5, <1>6, <1>7, <1>8, <1>9
     DEF Next, Supervisor, Expert

(* The world, the sample being stored and the expert's locals have their   *)
(* types; the loops over the axes stop at the third.                       *)
THEOREM ExpertTypeCorrect == Spec => []TypeOK
BY TypeInit, TypeStep, PTL DEF Spec

-----------------------------------------------------------------------------
Measured(a, v) == \E r \in reported : r[a] = v

(* An axis that is not zero was measured, and whatever the expert read      *)
(* after it, or could read now, was measured too.                           *)
AxisInv(a) ==
  /\ lin_acc[a] # 0 => Measured(a, lin_acc[a])
  /\ expert.acc[a] # 0 => Measured(a, expert.acc[a]) /\ Measured(a, lin_acc[a])
  /\ expert.prev[a] # 0 => /\ Measured(a, expert.prev[a])
                           /\ Measured(a, expert.acc[a])
                           /\ Measured(a, lin_acc[a])

MeasuredInv ==
  /\ frame.pc = "store" => frame.acc \in reported
  /\ \A a \in Axis : AxisInv(a)
  /\ NoFalseCollision

(* Before the first sample every axis is zero. *)
LEMMA MeasuredInit == Init => MeasuredInv
BY DEF Init, MeasuredInv, AxisInv, NoFalseCollision, NoSample, Zero

(* No step lets the expert hold a number that was not measured next to one *)
(* that was.                                                               *)
LEMMA MeasuredStep == TypeOK /\ MeasuredInv /\ [Next]_vars => MeasuredInv'
<1> SUFFICES ASSUME TypeOK, MeasuredInv, [Next]_vars
             PROVE  MeasuredInv'
  OBVIOUS
<1>1. CASE op_new_period \/ SignalSample \/ FirstWait \/ UNCHANGED vars
  BY <1>1 DEF op_new_period, SignalSample, FirstWait, vars, NoSample, MeasuredInv,
     AxisInv, Measured, NoFalseCollision, TypeOK
<1>2. ASSUME NEW v \in Samples, op_recv_frame(v)
      PROVE  MeasuredInv'
  BY <1>2 DEF op_recv_frame, MeasuredInv, AxisInv, Measured, NoFalseCollision
<1>3. CASE update_lin_acc
  <2>1. frame.acc \in reported /\ UNCHANGED <<expert, collision, reported>>
    BY <1>3 DEF update_lin_acc, MeasuredInv
  <2>2. frame'.pc = "store" => frame'.acc \in reported'
    BY <1>3, <2>1 DEF update_lin_acc, StoreAxis, TypeOK
  <2>3. \A a \in Axis : AxisInv(a)'
    <3>1. \A a \in Axis : lin_acc'[a] = lin_acc[a] \/ lin_acc'[a] = frame.acc[a]
      BY <1>3, AxesWalked DEF update_lin_acc, TypeOK
    <3> QED
      BY <2>1, <3>1 DEF AxisInv, Measured, MeasuredInv
  <2> QED
    BY <2>1, <2>2, <2>3 DEF MeasuredInv, NoFalseCollision
<1>4. CASE Wake \/ SpuriousWake
  <2>1. /\ UNCHANGED <<lin_acc, frame, collision, reported>>
        /\ expert'.acc = expert.acc
        /\ expert'.prev = expert.prev \/ expert'.prev = expert.acc
    BY <1>4 DEF Wake, SpuriousWake, WakeUp, TypeOK
  <2> QED
    BY <2>1 DEF MeasuredInv, AxisInv, Measured, NoFalseCollision
<1>5. CASE get_lin_acc
  <2>1. UNCHANGED <<lin_acc, frame, collision, reported>>
    BY <1>5 DEF get_lin_acc
  <2>2. \A a \in Axis : expert'.acc[a] = expert.acc[a] \/ expert'.acc[a] = lin_acc[a]
    BY <1>5, AxesWalked DEF get_lin_acc, TypeOK
  <2>3. expert'.prev = expert.prev \/ expert'.prev = expert'.acc
    BY <1>5 DEF get_lin_acc, TypeOK
  <2>4. \A a \in Axis : AxisInv(a)'
    BY <2>1, <2>2, <2>3 DEF AxisInv, Measured, MeasuredInv
  <2> QED
    BY <2>1, <2>4 DEF MeasuredInv, NoFalseCollision
<1>6. CASE Compare
  <2>1. /\ UNCHANGED <<lin_acc, frame, reported>>
        /\ expert'.acc = expert.acc
        /\ expert'.prev = expert.prev
    BY <1>6 DEF Compare, TypeOK
  <2>2. ASSUME Armed(expert.prev), Jump(expert.acc, expert.prev)
        PROVE  \E r, s \in reported : Jump(r, s)
    <3>1. PICK a \in Axis : \/ expert.acc[a] - expert.prev[a] >= tol
                            \/ expert.prev[a] - expert.acc[a] >= tol
      BY <2>2 DEF Jump
    <3>2. PICK r \in reported : r[a] = expert.acc[a]
      BY <2>2 DEF Armed, MeasuredInv, AxisInv, Measured
    <3>3. PICK s \in reported : s[a] = expert.prev[a]
      BY <2>2 DEF Armed, MeasuredInv, AxisInv, Measured
    <3> QED
      BY <3>1, <3>2, <3>3 DEF Jump
  <2>3. NoFalseCollision'
    BY <1>6, <2>1, <2>2 DEF Compare, NoFalseCollision, MeasuredInv
  <2> QED
    BY <2>1, <2>3 DEF MeasuredInv, AxisInv, Measured
<1> QED
  BY <1>1, <1>2, <1>3, <1>4, <1>5, <1>6 DEF Next, Supervisor, Expert

(* Whatever the accelerations and the interleaving of the two threads, a   *)
(* collision is reported only if servo 1 measured two accelerations that   *)
(* are tol apart on an axis.                                               *)
THEOREM ExpertSound == Spec => []NoFalseCollision
<1>1. MeasuredInv => NoFalseCollision
  BY DEF MeasuredInv
<1> QED
  BY <1>1, ExpertTypeCorrect, MeasuredInit, MeasuredStep, PTL DEF Spec
=============================================================================
