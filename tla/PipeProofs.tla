----------------------------- MODULE PipeProofs -----------------------------
(***************************************************************************)
(* A bounded FIFO pipe of any capacity delivers in order.                  *)
(***************************************************************************)
EXTENDS Pipe, TLAPS

TypeInv ==
    /\ next \in Nat
    /\ buffer \in Seq(Nat)
    /\ delivered \in Seq(Nat)

\* Everything in the pipe, or out of it, was offered before.
Offered ==
    /\ \A i \in 1..Len(buffer) : buffer[i] < next
    /\ \A i \in 1..Len(delivered) : delivered[i] < next

\* InOrder, with positions for packets.
Ordered ==
    /\ \A i, j \in 1..Len(delivered) : i < j => delivered[i] < delivered[j]
    /\ \A i, j \in 1..Len(buffer) : i < j => buffer[i] < buffer[j]
    /\ \A i \in 1..Len(delivered), j \in 1..Len(buffer) : delivered[i] < buffer[j]

PipeInv == TypeInv /\ Offered /\ Ordered

LEMMA PipeInit == Init => PipeInv
BY DEF Init, PipeInv, TypeInv, Offered, Ordered

LEMMA PipeStep == PipeInv /\ [Next]_pvars => PipeInv'
<1> SUFFICES ASSUME PipeInv, [Next]_pvars PROVE PipeInv'
      OBVIOUS
<1> USE DEF PipeInv, TypeInv, Offered, Ordered
<1>1. CASE Offer
      BY <1>1 DEF Offer
<1>2. CASE Deliver
  <2>1. /\ Len(buffer) > 0 /\ Head(buffer) = buffer[1]
        /\ Len(buffer') = Len(buffer) - 1
        /\ \A i \in 1..Len(buffer') : buffer'[i] = buffer[i + 1]
        BY <1>2 DEF Deliver
  <2>2. /\ Len(delivered') = Len(delivered) + 1
        /\ \A i \in 1..Len(delivered) : delivered'[i] = delivered[i]
        /\ delivered'[Len(delivered')] = buffer[1]
        BY <1>2, <2>1 DEF Deliver
  <2>3. TypeInv'
        BY <1>2, <2>1 DEF Deliver
  <2>4. Offered'
        BY <1>2, <2>1, <2>2, <2>3 DEF Deliver
  <2>5. Ordered'
    <3>0. /\ Len(buffer) \in Nat /\ Len(delivered) \in Nat
          /\ 1 \in 1..Len(buffer)
          /\ \A i \in 1..Len(buffer) : buffer[i] \in Nat
          /\ \A i \in 1..Len(delivered) : delivered[i] \in Nat
          BY <2>1
    <3>1. ASSUME NEW i \in 1..Len(delivered'), NEW j \in 1..Len(delivered'), i < j
          PROVE  delivered'[i] < delivered'[j]
      <4>1. i \in 1..Len(delivered) /\ delivered'[i] = delivered[i]
            BY <2>2, <3>0, <3>1
      <4>2. CASE j = Len(delivered')
            BY <2>2, <3>0, <4>1, <4>2
      <4>3. CASE j # Len(delivered')
        <5>1. j \in 1..Len(delivered)
              BY <2>2, <3>0, <4>3
        <5>2. delivered'[j] = delivered[j]
              BY <2>2, <5>1
        <5> QED
              BY <3>1, <4>1, <5>1, <5>2
      <4> QED
            BY <4>2, <4>3
    <3>2. ASSUME NEW i \in 1..Len(buffer'), NEW j \in 1..Len(buffer'), i < j
          PROVE  buffer'[i] < buffer'[j]
      <4>1. i + 1 \in 1..Len(buffer) /\ j + 1 \in 1..Len(buffer) /\ i + 1 < j + 1
            BY <2>1, <3>0, <3>2
      <4> QED
            BY <2>1, <3>0, <4>1
    <3>3. ASSUME NEW i \in 1..Len(delivered'), NEW j \in 1..Len(buffer')
          PROVE  delivered'[i] < buffer'[j]
      <4>1. j + 1 \in 1..Len(buffer) /\ buffer'[j] = buffer[j + 1] /\ 1 < j + 1
            BY <2>1, <3>0, <3>3
      <4>2. CASE i = Len(delivered')
            BY <2>2, <3>0, <4>1, <4>2
      <4>3. CASE i # Len(delivered')
            BY <2>2, <3>0, <3>3, <4>1, <4>3
      <4> QED
            BY <4>2, <4>3
    <3> QED
          BY <3>1, <3>2, <3>3
  <2> QED
        BY <2>3, <2>4, <2>5
<1>3. CASE Skip
      BY <1>3 DEF Skip
<1>4. CASE Close
      BY <1>4 DEF Close
<1>5. CASE UNCHANGED pvars
      BY <1>5 DEF pvars
<1> QED
      BY <1>1, <1>2, <1>3, <1>4, <1>5 DEF Next

LEMMA OrderedIsInOrder == PipeInv => InOrder
BY DEF PipeInv, TypeInv, Ordered, InOrder, Increasing, Packets

\* Whatever its capacity, a pipe delivers in order and nothing twice.
THEOREM PipeDeliversInOrder == Spec => []InOrder
BY PipeInit, PipeStep, OrderedIsInOrder, PTL DEF Spec
=============================================================================
