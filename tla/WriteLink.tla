------------------------------ MODULE WriteLink ------------------------------
(***************************************************************************)
(* The WRITE orders of one servo over a link that may lose or repeat them. *)
(* The motherboard flips its polarity with every order it queues and waits *)
(* for no answer; the servo applies an order that has the polarity it      *)
(* expects and flips its own.  Orders are numbered here; the number is not *)
(* sent, and the servo decides on the polarity alone.                      *)
(*                                                                         *)
(* An order is lost when the next frame overwrites it in the receive       *)
(* buffer before it is handled, and repeated when the link retransmits it. *)
(***************************************************************************)
EXTENDS Integers, Sequences

CONSTANTS
  MaxWrites,   (* bound on the orders queued           *)
  MaxInFlight  (* bound on the orders in transit       *)

ASSUME LinkAssumption == MaxWrites \in Nat /\ MaxInFlight \in Nat

VARIABLES
  sent,      (* number of orders queued so far; the first is number 1         *)
  sender,    (* the world's polarity for this servo                           *)
  link,      (* orders in transit: number and polarity                        *)
  receiver,  (* the servo's polarity                                          *)
  applied,   (* history: the order applied last, 0 before the first           *)
  seen,      (* history: the order handled last, applied or not               *)
  inARow     (* history: the order handled before was its predecessor, or it  *)
             (* was the same one and its predecessor came before that         *)

vars == <<sent, sender, link, receiver, applied, seen, inARow>>

Init ==
  /\ sent = 0 /\ sender = 0
  /\ link = <<>>
  /\ receiver = 0
  /\ applied = 0
  /\ seen = 0 /\ inARow = FALSE

-----------------------------------------------------------------------------
(* com_queue_order, then update_polarity. *)
QueueWrite ==
  /\ sent < MaxWrites /\ Len(link) < MaxInFlight
  /\ sent' = sent + 1
  /\ link' = Append(link, [number |-> sent + 1, polarity |-> sender])
  /\ sender' = 1 - sender
  /\ UNCHANGED <<receiver, applied, seen, inARow>>

Repeat ==
  /\ link # <<>> /\ Len(link) < MaxInFlight
  /\ link' = <<Head(link)>> \o link
  /\ UNCHANGED <<sent, sender, receiver, applied, seen, inARow>>

Lose ==
  /\ link # <<>>
  /\ link' = Tail(link)
  /\ UNCHANGED <<sent, sender, receiver, applied, seen, inARow>>

(* Two plausible slips: polarity flipped whether or not the order is        *)
(* accepted, and not flipped at all.                                        *)
DecideFlipAnyway(polarity, w) ==
  [polarity |-> 1 - polarity, accepted |-> w.polarity = polarity]

DecideNoFlip(polarity, w) ==
  [polarity |-> polarity, accepted |-> w.polarity = polarity]

(* if(!polarity) or if(polarity) { process_write_order; polarity = 1 - polarity } *)
Decide(polarity, w) ==
  [polarity |-> IF w.polarity = polarity THEN 1 - polarity ELSE polarity,
   accepted |-> w.polarity = polarity]

HandleWrite ==
  /\ link # <<>>
  /\ LET w == Head(link)
         d == Decide(receiver, w)
     IN  /\ receiver' = d.polarity
         /\ applied' = IF d.accepted THEN w.number ELSE applied
         /\ seen' = w.number
         /\ inARow' = (w.number = seen + 1 \/ (w.number = seen /\ inARow))
  /\ link' = Tail(link)
  /\ UNCHANGED <<sent, sender>>

Next == QueueWrite \/ Repeat \/ Lose \/ HandleWrite

Spec == Init /\ [][Next]_vars

-----------------------------------------------------------------------------
(* A write takes effect at most once, and never after a later one: the     *)
(* servo (main.c:558-569) refuses a repeated order, however many were lost *)
(* before it.                                                              *)
AppliedOnceInOrder ==
  [][HandleWrite /\ Decide(receiver, Head(link)).accepted
       => Head(link).number > applied]_vars

(* The servo may refuse the order that reaches it first after a loss, but  *)
(* the one that follows directly is applied: the two polarities find each  *)
(* other again although the sender never learns what was refused.          *)
ConsecutiveApplied == inARow => applied = seen
=============================================================================
