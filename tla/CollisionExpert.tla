--------------------------- MODULE CollisionExpert ---------------------------
(***************************************************************************)
(* The motherboard's collision expert and the supervisor calls that feed   *)
(* it: the acceleration of servo 1 is stored and read one axis at a time,  *)
(* under no lock, and the expert sleeps on a condition variable whose      *)
(* signals count only while it sleeps.  Accelerations are whole m/s^2.     *)
(***************************************************************************)
EXTENDS Integers, Sequences

CONSTANTS
  Samples,          (* accelerations the IMU of servo 1 may report            *)
  SpuriousWakeups   (* may pthread_cond_wait return without a signal          *)

Axes == <<"x", "y", "z">>

Axis == {"x", "y", "z"}

ASSUME ExpertAssumption ==
  /\ Samples \subseteq [Axis -> Int]
  /\ SpuriousWakeups \in BOOLEAN

VARIABLES
  lin_acc,    (* lin_acc_x, lin_acc_y, lin_acc_z of servo 1 in the world      *)
  frame,      (* the supervisor: the sample it stores, the axis it is at      *)
  expert,     (* the expert: program counter, axis it reads, current, previous *)
  woken,      (* a signal has reached the sleeping expert                     *)
  collision,  (* collision_detected of servo 1                                *)
  reported    (* history: the samples received so far                         *)

vars == <<lin_acc, frame, expert, woken, collision, reported>>

Zero == [a \in Axis |-> 0]

NoSample == [pc |-> "idle", axis |-> 1, acc |-> Zero]

Init ==
  /\ lin_acc = Zero
  /\ frame = NoSample
  /\ expert = [pc |-> "start", axis |-> 1, acc |-> Zero, prev |-> Zero]
  /\ woken = FALSE
  /\ collision = FALSE
  /\ reported = {}

-----------------------------------------------------------------------------
(* The supervisor. *)

Sleeping == expert.pc \in {"first", "second", "sleep"}

(* pthread_cond_signal(&cond_collisions): nothing is remembered of it when *)
(* nobody sleeps.                                                          *)
Signal == woken' = (woken \/ Sleeping)

(* Every period; an acceleration of another servo signals in the same way. *)
op_new_period ==
  /\ frame.pc = "idle"
  /\ Signal
  /\ UNCHANGED <<lin_acc, frame, expert, collision, reported>>

op_recv_frame(v) ==
  /\ frame.pc = "idle"
  /\ frame' = [pc |-> "store", axis |-> 1, acc |-> v]
  /\ reported' = reported \union {v}
  /\ UNCHANGED <<lin_acc, expert, woken, collision>>

StoreAxis ==
  frame' = IF frame.axis < Len(Axes) THEN [frame EXCEPT !.axis = @ + 1]
           ELSE [frame EXCEPT !.pc = "signal"]

update_lin_acc ==
  /\ frame.pc = "store"
  /\ LET a == Axes[frame.axis] IN lin_acc' = [lin_acc EXCEPT ![a] = frame.acc[a]]
  /\ StoreAxis
  /\ UNCHANGED <<expert, woken, collision, reported>>

SignalSample ==
  /\ frame.pc = "signal"
  /\ Signal
  /\ frame' = NoSample
  /\ UNCHANGED <<lin_acc, expert, collision, reported>>

-----------------------------------------------------------------------------
(* The expert's main_loop. *)

tol == 4

ArmedAnyAxis(prev) == \E a \in Axis : prev[a] # 0

(* The condition against detections at the start: a zero is "not yet". *)
Armed(prev) == \A a \in Axis : prev[a] # 0

Jump(acc, prev) ==
  \E a \in Axis : acc[a] - prev[a] >= tol \/ prev[a] - acc[a] >= tol

(* The thread has been created and reaches its first pthread_cond_wait. *)
FirstWait ==
  /\ expert.pc = "start"
  /\ expert' = [expert EXCEPT !.pc = "first"]
  /\ UNCHANGED <<lin_acc, frame, woken, collision, reported>>

AfterWait == [first |-> "second", second |-> "init", sleep |-> "read"]


(* The previous sample becomes the one compared before the wait. *)
WakeUp ==
  /\ woken' = FALSE
  /\ expert' = [expert EXCEPT !.pc = AfterWait[expert.pc],
                              !.prev = IF expert.pc = "sleep" THEN expert.acc ELSE @]

Wake ==
  /\ Sleeping /\ woken
  /\ WakeUp
  /\ UNCHANGED <<lin_acc, frame, collision, reported>>

SpuriousWake ==
  /\ SpuriousWakeups
  /\ Sleeping
  /\ WakeUp
  /\ UNCHANGED <<lin_acc, frame, collision, reported>>

(* One axis is read; after the third one the initial values are kept as    *)
(* the previous ones, and the later ones are compared with them.           *)
get_lin_acc ==
  /\ expert.pc \in {"init", "read"}
  /\ LET a    == Axes[expert.axis]
         acc  == [expert.acc EXCEPT ![a] = lin_acc[a]]
     IN  expert' =
           IF expert.axis < Len(Axes)
           THEN [expert EXCEPT !.acc = acc, !.axis = @ + 1]
           ELSE IF expert.pc = "init"
           THEN [pc |-> "read", axis |-> 1, acc |-> acc, prev |-> acc]
           ELSE [pc |-> "compare", axis |-> 1, acc |-> acc, prev |-> expert.prev]
  /\ UNCHANGED <<lin_acc, frame, woken, collision, reported>>

Compare ==
  /\ expert.pc = "compare"
  /\ collision' = (collision \/ (Armed(expert.prev) /\ Jump(expert.acc, expert.prev)))
  /\ expert' = [expert EXCEPT !.pc = "sleep"]
  /\ UNCHANGED <<lin_acc, frame, woken, reported>>

Supervisor ==
  op_new_period \/ (\E v \in Samples : op_recv_frame(v)) \/ update_lin_acc \/ SignalSample

Expert == FirstWait \/ Wake \/ get_lin_acc \/ Compare

Next == Supervisor \/ Expert \/ SpuriousWake

Spec == Init /\ [][Next]_vars

(* Both threads are scheduled; a new period begins again and again.        *)
FairSpec ==
  /\ Spec
  /\ WF_vars(Expert)
  /\ WF_vars(update_lin_acc)
  /\ WF_vars(SignalSample)
  /\ SF_vars(op_new_period)

-----------------------------------------------------------------------------
TypeOK ==
  /\ lin_acc \in [Axis -> Int]
  /\ frame \in [pc : {"idle", "store", "signal"}, axis : 1..3, acc : [Axis -> Int]]
  /\ expert \in [pc : {"start", "first", "second", "init", "read", "compare", "sleep"},
                 axis : 1..3, acc : [Axis -> Int], prev : [Axis -> Int]]
  /\ woken \in BOOLEAN
  /\ collision \in BOOLEAN
  /\ reported \subseteq Samples

(* A collision is reported only if two accelerations that servo 1 really   *)
(* measured are tol apart on some axis: neither the zeros the world starts *)
(* with, nor a sample read while the supervisor is storing the next one,   *)
(* can make the expert see a shock.                                        *)
NoFalseCollision ==
  collision => \E a, b \in reported : Jump(a, b)

(* expert-collisions.c, "Wait for two signals to wait for servomotor       *)
(* initialisation" (a violation run): the initial values are read after    *)
(* servo 1 has reported an acceleration.                                   *)
InitialisedFirst == expert.pc = "init" => reported # {}

(* The expert sleeps on acceleration a, and servo 1 settles on b. *)
SettlesOn(a, b) == expert.pc = "sleep" /\ expert.acc = a /\ <>[](lin_acc = b)

=============================================================================
