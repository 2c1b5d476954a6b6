--------------------------- MODULE WriteLinkProofs ---------------------------
(* What the polarities achieve on a link that loses and repeats orders, for *)
(* every number of orders sent and in transit.                              *)
EXTENDS WriteLink, TLAPS

Write == [number : Nat \ {0}, polarity : {0, 1}]

(* Where each number's polarity comes from: they alternate, from 0. *)
Counted ==
  /\ sent \in Nat /\ sender = sent % 2
  /\ applied \in Nat /\ receiver = applied % 2
  /\ seen \in Nat /\ applied % 2 = seen % 2
  /\ inARow \in BOOLEAN

(* The orders in transit are in the order they were sent, and none of them  *)
(* is older than the one handled last.                                      *)
Ordered ==
  /\ link \in Seq(Write)
  /\ \A i \in 1..Len(link) :
       /\ link[i].polarity = (link[i].number - 1) % 2
       /\ link[i].number \in seen..sent
       /\ \A j \in i..Len(link) : link[i].number <= link[j].number

LinkInv ==
  /\ Counted
  /\ Ordered
  /\ applied <= seen /\ seen <= sent
  /\ ConsecutiveApplied

(* Successive numbers have opposite parities. *)
LEMMA Parity ==
  ASSUME NEW n \in Nat
  PROVE  /\ n % 2 \in {0, 1}
         /\ (n + 1) % 2 = 1 - (n % 2)
         /\ n > 0 => (n - 1) % 2 = 1 - (n % 2)
  OBVIOUS

(* The link starts with nothing sent. *)
LEMMA LinkInvInit == Init => LinkInv
<1>1. 0 % 2 = 0
  OBVIOUS
<1>2. Init => inARow \in BOOLEAN /\ ConsecutiveApplied
  BY Zenon DEF Init, ConsecutiveApplied
<1>3. Init => Counted /\ applied <= seen /\ seen <= sent
  BY <1>1, <1>2 DEF Init, Counted
<1>4. Init => Ordered
  BY DEF Init, Ordered
<1>. QED  BY <1>2, <1>3, <1>4 DEF LinkInv

(* The order at the head is accepted only if it is newer than the one       *)
(* applied last, and always if it is the one after the one handled last.    *)
LEMMA HeadDecided ==
  ASSUME LinkInv, link # <<>>
  PROVE  LET w == Head(link)
         IN  /\ w \in Write
             /\ w.polarity = 1 - (w.number % 2)
             /\ w.number \in seen..sent
             /\ w.polarity = receiver => w.number > seen
             /\ w.number = seen + 1 => w.polarity = receiver
<1>1. /\ Head(link) = link[1] /\ 1 \in 1..Len(link) /\ Head(link) \in Write
  BY DEF LinkInv, Ordered
<1>2. /\ Head(link).polarity = (Head(link).number - 1) % 2
      /\ Head(link).number \in seen..sent
      /\ Head(link).number \in Nat /\ Head(link).number > 0
  BY <1>1 DEF LinkInv, Ordered, Write
<1>3. Head(link).polarity = 1 - (Head(link).number % 2)
  BY <1>2, Parity
<1>4. receiver = seen % 2 /\ seen \in Nat
  BY DEF LinkInv, Counted
<1>5. Head(link).polarity = receiver => Head(link).number > seen
  BY <1>2, <1>3, <1>4, Parity
<1>6. Head(link).number = seen + 1 => Head(link).polarity = receiver
  BY <1>2, <1>3, <1>4, Parity
<1>. QED  BY <1>1, <1>2, <1>3, <1>5, <1>6

(* What follows the head of the link keeps its order. *)
LEMMA TailOrdered ==
  ASSUME LinkInv, link # <<>>
  PROVE  /\ Tail(link) \in Seq(Write)
         /\ \A i \in 1..Len(Tail(link)) :
              LET w == Tail(link)[i]
              IN  /\ w.polarity = (w.number - 1) % 2
                  /\ w.number \in Head(link).number..sent
                  /\ \A j \in i..Len(Tail(link)) : w.number <= Tail(link)[j].number
<1>1. /\ link \in Seq(Write) /\ Tail(link) \in Seq(Write)
      /\ Len(Tail(link)) = Len(link) - 1 /\ Len(link) \in Nat /\ Head(link) = link[1]
      /\ \A i \in 1..Len(Tail(link)) : Tail(link)[i] = link[i + 1]
  BY DEF LinkInv, Ordered
<1>2. ASSUME NEW i \in 1..Len(Tail(link))
      PROVE  LET w == Tail(link)[i]
             IN  /\ w.polarity = (w.number - 1) % 2
                 /\ w.number \in Head(link).number..sent
                 /\ \A j \in i..Len(Tail(link)) : w.number <= Tail(link)[j].number
  <2>1. i + 1 \in 1..Len(link) /\ 1 \in 1..Len(link) /\ i + 1 \in 1..Len(link)
    BY <1>1
  <2>2. /\ link[i + 1].polarity = (link[i + 1].number - 1) % 2
        /\ link[i + 1].number \in seen..sent /\ link[1].number <= link[i + 1].number
        /\ \A j \in (i + 1)..Len(link) : link[i + 1].number <= link[j].number
    BY <2>1 DEF LinkInv, Ordered
  <2>3. \A j \in i..Len(Tail(link)) :
          j + 1 \in (i + 1)..Len(link) /\ Tail(link)[j] = link[j + 1]
    BY <1>1
  <2>4. link[1] \in Write /\ link[i + 1] \in Write
    BY <1>1, <2>1
  <2>5. link[1].number \in Nat /\ link[i + 1].number \in Nat /\ sent \in Nat
    BY <2>4 DEF Write, LinkInv, Counted
  <2>. QED  BY <1>1, <2>2, <2>3, <2>5
<1>. QED  BY <1>1, <1>2

(* Every step of either end, and of the link, keeps the invariant. *)
LEMMA LinkInvStep ==
  ASSUME LinkInv, [Next]_vars
  PROVE  LinkInv'
<1>1. CASE QueueWrite
  <2>1. Counted'
    BY <1>1, Parity DEF QueueWrite, LinkInv, Counted
  <2>2. Ordered'
    <3>. DEFINE w == [number |-> sent + 1, polarity |-> sender]
    <3>1. /\ w \in Write /\ w.polarity = (w.number - 1) % 2 /\ link \in Seq(Write)
      BY Parity DEF LinkInv, Counted, Ordered, Write
    <3>2. /\ link' \in Seq(Write) /\ Len(link') = Len(link) + 1
          /\ \A i \in 1..Len(link) : link'[i] = link[i]
          /\ link'[Len(link) + 1] = w
      BY <1>1, <3>1 DEF QueueWrite
    <3>3. sent' = sent + 1 /\ seen' = seen /\ sent \in Nat /\ seen \in Nat /\ seen <= sent
      BY <1>1 DEF QueueWrite, LinkInv, Counted
    <3>4. ASSUME NEW i \in 1..Len(link')
          PROVE  /\ link'[i].polarity = (link'[i].number - 1) % 2
                 /\ link'[i].number \in seen..(sent + 1)
                 /\ \A j \in i..Len(link') : link'[i].number <= link'[j].number
      <4>1. CASE i = Len(link) + 1
        BY <3>1, <3>2, <3>3, <4>1
      <4>2. CASE i \in 1..Len(link)
        <5>1. /\ link'[i] = link[i] /\ link[i].number \in seen..sent
              /\ link[i].polarity = (link[i].number - 1) % 2
              /\ \A j \in i..Len(link) : link[i].number <= link[j].number
          BY <3>2, <4>2 DEF LinkInv, Ordered
        <5>2. \A j \in i..Len(link') : j = Len(link) + 1 \/ (j \in i..Len(link) /\ link'[j] = link[j])
          BY <3>1, <3>2, <4>2
        <5>3. link[i].number <= link'[Len(link) + 1].number
          BY <3>2, <3>3, <5>1
        <5>. QED  BY <3>3, <5>1, <5>2, <5>3
      <4>. QED  BY <3>1, <3>2, <4>1, <4>2
    <3>. QED  BY <3>2, <3>3, <3>4 DEF Ordered
  <2>. QED  BY <1>1, <2>1, <2>2 DEF QueueWrite, LinkInv, Counted, ConsecutiveApplied
<1>2. CASE Repeat
  <2>1. /\ link \in Seq(Write) /\ link' \in Seq(Write) /\ Len(link') = Len(link) + 1
        /\ link'[1] = link[1] /\ Len(link) \in Nat \ {0}
        /\ \A i \in 2..Len(link') : link'[i] = link[i - 1]
    BY <1>2 DEF Repeat, LinkInv, Ordered
  <2>. DEFINE old(i) == IF i = 1 THEN 1 ELSE i - 1
  <2>2. \A i \in 1..Len(link') : old(i) \in 1..Len(link) /\ link'[i] = link[old(i)]
    BY <2>1
  <2>3. \A i \in 1..Len(link'), j \in 1..Len(link') :
          j \in i..Len(link') => old(j) \in old(i)..Len(link)
    BY <2>1
  <2>4. UNCHANGED <<seen, sent>>
    BY <1>2 DEF Repeat
  <2>5. Ordered'
    <3>. HIDE DEF old
    <3>1. ASSUME NEW i \in 1..Len(link')
          PROVE  /\ link'[i].polarity = (link'[i].number - 1) % 2
                 /\ link'[i].number \in seen..sent
                 /\ \A j \in i..Len(link') : link'[i].number <= link'[j].number
      <4>1. /\ link[old(i)].polarity = (link[old(i)].number - 1) % 2
            /\ link[old(i)].number \in seen..sent
            /\ \A j \in old(i)..Len(link) : link[old(i)].number <= link[j].number
        BY <2>2 DEF LinkInv, Ordered
      <4>2. \A j \in i..Len(link') :
              j \in 1..Len(link') /\ old(j) \in old(i)..Len(link) /\ link'[j] = link[old(j)]
        BY <2>1, <2>2, <2>3
      <4>. QED  BY <2>2, <4>1, <4>2
    <3>. QED  BY <2>1, <2>4, <3>1 DEF Ordered
  <2>. QED  BY <1>2, <2>5 DEF Repeat, LinkInv, Counted, ConsecutiveApplied
<1>3. CASE Lose
  <2>1. link # <<>> /\ link' = Tail(link) /\ UNCHANGED <<sent, sender, receiver, applied, seen, inARow>>
    BY <1>3 DEF Lose
  <2>2. Head(link).number \in seen..sent
    BY <2>1, HeadDecided
  <2>3. Ordered'
    BY <2>1, <2>2, TailOrdered DEF LinkInv, Counted, Ordered
  <2>. QED  BY <2>1, <2>3 DEF LinkInv, Counted, ConsecutiveApplied
<1>4. CASE HandleWrite
  <2>. DEFINE w == Head(link)
              accepted == w.polarity = receiver
  <2>1. /\ link # <<>> /\ link' = Tail(link) /\ sent' = sent /\ sender' = sender
        /\ receiver' = IF accepted THEN 1 - receiver ELSE receiver
        /\ applied' = IF accepted THEN w.number ELSE applied
        /\ seen' = w.number
        /\ inARow' = (w.number = seen + 1 \/ (w.number = seen /\ inARow))
    BY <1>4 DEF HandleWrite, Decide
  <2>2. /\ w \in Write /\ w.polarity = 1 - (w.number % 2) /\ w.number \in seen..sent
        /\ accepted => w.number > seen
        /\ w.number = seen + 1 => accepted
    BY <2>1, HeadDecided
  <2>3. w.number \in Nat /\ w.number % 2 \in {0, 1} /\ receiver \in {0, 1}
    BY <2>2, Parity DEF LinkInv, Counted, Write
  <2>4. receiver' = w.number % 2
    BY <2>1, <2>2, <2>3
  <2>5. Counted' /\ applied' <= seen' /\ seen' <= sent'
    <3>. HIDE DEF w
    <3>. QED  BY <2>1, <2>2, <2>3, <2>4 DEF LinkInv, Counted
  <2>6. Ordered'
    BY <2>1, TailOrdered DEF Ordered
  <2>7. ConsecutiveApplied'
    <3>. HIDE DEF w
    <3>. QED  BY <2>1, <2>2, <2>3 DEF LinkInv, Counted, ConsecutiveApplied
  <2>. QED  BY <2>5, <2>6, <2>7 DEF LinkInv
<1>5. CASE UNCHANGED vars
  BY <1>5 DEF vars, LinkInv, Counted, Ordered, ConsecutiveApplied
<1>. QED  BY <1>1, <1>2, <1>3, <1>4, <1>5 DEF Next

(* The servo (main.c:558-569) applies the second of any two consecutive     *)
(* orders it handles, however many were lost or repeated before them.       *)
THEOREM PolaritiesMeet == Spec => []ConsecutiveApplied
<1>1. LinkInv => ConsecutiveApplied
  BY DEF LinkInv
<1>. QED  BY <1>1, LinkInvInit, LinkInvStep, PTL DEF Spec

(* The servo (main.c:558-569) applies no order twice and none after a later *)
(* one.                                                                     *)
THEOREM NeverTwice == Spec => AppliedOnceInOrder
<1>1. LinkInv /\ [Next]_vars
        => [HandleWrite /\ Decide(receiver, Head(link)).accepted
              => Head(link).number > applied]_vars
  <2>1. SUFFICES ASSUME LinkInv, HandleWrite, Decide(receiver, Head(link)).accepted
                 PROVE  Head(link).number > applied
    OBVIOUS
  <2>2. link # <<>> /\ Head(link).polarity = receiver
    BY <2>1 DEF HandleWrite, Decide
  <2>3. Head(link).number > seen /\ Head(link).number \in Nat
    BY <2>1, <2>2, HeadDecided DEF Write
  <2>. QED  BY <2>1, <2>3 DEF LinkInv, Counted
<1>. QED  BY <1>1, LinkInvInit, LinkInvStep, PTL DEF Spec, AppliedOnceInOrder
=============================================================================
