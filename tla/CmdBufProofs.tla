---------------------------- MODULE CmdBufProofs ----------------------------
(***************************************************************************)
(* Proofs that the command ring delivers what was stored, in order, for    *)
(* every ring size, batch size and interleaving.                           *)
(***************************************************************************)
EXTENDS CmdBuf, TLAPS, SequenceTheorems

(***************************************************************************)
(* Index arithmetic modulo the ring size.                                  *)
(***************************************************************************)

\* An index below count is left alone by the mask.
LEMMA MaskLow == \A i \in 0 .. count - 1 : mask(i) = i
  BY CountAssumption DEF mask

\* An index one lap ahead loses the lap.
LEMMA MaskHigh == \A i \in count .. 2 * count - 1 : mask(i) = i - count
  BY CountAssumption DEF mask

\* A negative difference (head behind tail) gains a lap.
LEMMA MaskNeg == \A i \in (0 - count) .. (0 - 1) : mask(i) = i + count
  BY CountAssumption DEF mask

\* A masked index is a slot.
LEMMA MaskSlot == \A i \in (0 - count) .. 2 * count - 1 : mask(i) \in Slots
  BY CountAssumption, MaskLow, MaskHigh, MaskNeg DEF Slots

\* circ_cnt counts the steps from tail to head.
LEMMA CntRange == \A h, t \in Slots : circ_cnt(h, t) \in 0 .. count - 1
  BY CountAssumption, MaskLow, MaskNeg DEF circ_cnt, Slots

\* Stepping from the tail by that many arrives at the head.
LEMMA CntReach == \A h, t \in Slots : mask(t + circ_cnt(h, t)) = h
  BY CountAssumption, MaskLow, MaskHigh, MaskNeg DEF circ_cnt, Slots

\* Stepping from the tail by n, circ_cnt counts n.
LEMMA CntOf == \A t \in Slots, n \in 0 .. count - 1 : circ_cnt(mask(t + n), t) = n
  BY CountAssumption, MaskLow, MaskHigh, MaskNeg DEF circ_cnt, Slots

\* circ_space keeps one slot free.
LEMMA SpaceIs == \A h, t \in Slots : circ_space(h, t) = count - 1 - circ_cnt(h, t)
  BY CountAssumption, MaskLow, MaskNeg DEF circ_space, circ_cnt, Slots

\* Masking twice is masking once.
LEMMA MaskTwice ==
    \A t \in Slots, j, k \in 0 .. count : j + k <= count - 1 =>
        mask(mask(t + j) + k) = mask(t + (j + k))
  BY CountAssumption, MaskLow, MaskHigh DEF Slots

\* Offsets less than a lap apart are different slots.
LEMMA MaskDistinct ==
    \A t \in Slots, j, k \in 0 .. count - 1 : mask(t + j) = mask(t + k) => j = k
  BY CountAssumption, MaskLow, MaskHigh DEF Slots

\* The consumer's release of n slots shortens the ring by n.
LEMMA CntRelease ==
    \A h, t \in Slots, n \in 0 .. count - 1 :
        n <= circ_cnt(h, t) => circ_cnt(h, mask(t + n)) = circ_cnt(h, t) - n
  BY CountAssumption, MaskLow, MaskHigh, MaskNeg DEF circ_cnt, Slots

\* The producer's publication of n slots lengthens it by n.
LEMMA CntPublish ==
    \A h, t \in Slots, n \in 0 .. count - 1 :
        n + circ_cnt(h, t) <= count - 1 => circ_cnt(mask(h + n), t) = circ_cnt(h, t) + n
  BY CountAssumption, MaskLow, MaskHigh, MaskNeg DEF circ_cnt, Slots

(***************************************************************************)
(* Type correctness.                                                       *)
(***************************************************************************)

\* Types, on both sides of every store to the shared words.
THEOREM TypeCorrect == Spec => []TypeOK
<1> USE CountAssumption, BatchAssumption, DataAssumption
<1>1. Init => TypeOK
  BY DEF Init, TypeOK, Call, Idle, At, Slots
<1>2. TypeOK /\ [Next]_vars => TypeOK'
  <2> SUFFICES ASSUME TypeOK, [Next]_vars PROVE TypeOK'
    OBVIOUS
  <2> USE DEF TypeOK, Call, Idle, At
  <2>0. 0 \in Slots
    BY DEF Slots
  <2>1. ASSUME NEW n \in 1 .. MaxBatch, Offer(n) PROVE TypeOK'
    BY <2>0, <2>1 DEF Offer
  <2>2. CASE peek_space
    <3>0. circ_cnt(head, tail) \in 0 .. count - 1
      BY CntRange
    <3>1. circ_space(head, tail) \in Nat
      BY <3>0, SpaceIs
    <3>2. Smaller(prod.n, circ_space(head, tail)) \in Nat
      BY <3>1 DEF Smaller
    <3> QED BY <2>2, <3>2 DEF peek_space
  <2>3. CASE produce_copy
    <3>1. mask(prod.pos + 1) \in Slots
      BY MaskSlot DEF Slots
    <3> QED BY <2>3, <3>1 DEF produce_copy
  <2>4. CASE produce_publish
    BY <2>0, <2>4 DEF produce_publish
  <2>5. ASSUME NEW n \in 1 .. MaxBatch, peek_items(n) PROVE TypeOK'
    <3>1. circ_cnt(head, tail) \in Nat
      BY CntRange
    <3>2. Smaller(n, circ_cnt(head, tail)) \in Nat
      BY <3>1 DEF Smaller
    <3> QED BY <2>5, <3>2 DEF peek_items
  <2>6. CASE consume_copy
    <3>1. mask(cons.pos + 1) \in Slots
      BY MaskSlot DEF Slots
    <3> QED BY <2>6, <3>1 DEF consume_copy
  <2>7. CASE consume_publish
    BY <2>0, <2>7 DEF consume_publish
  <2>8. CASE UNCHANGED vars
    BY <2>8 DEF vars
  <2> QED
    BY <2>1, <2>2, <2>3, <2>4, <2>5, <2>6, <2>7, <2>8 DEF Next, ProducerStep, ConsumerStep
<1> QED BY <1>1, <1>2, PTL DEF Spec

(***************************************************************************)
(* The inductive invariant.                                                *)
(***************************************************************************)

\* The empty ring satisfies it.
LEMMA RingInit == Init => RingInv
  BY CountAssumption, MaskLow DEF Init, RingInv, CallsInWindow, SlotsHoldHistory,
     FifoDelivery, Idle, At, pending, circ_cnt

\* A look at the ring only bounds the call by what was seen.
LEMMA RingPeek ==
    ASSUME TypeOK, RingInv,
           \/ peek_space
           \/ \E n \in 1 .. MaxBatch : Offer(n) \/ peek_items(n)
    PROVE  RingInv'
<1> USE CountAssumption, BatchAssumption
<1>1. pending \in 0 .. count - 1
  BY CntRange DEF TypeOK, pending
<1>2. UNCHANGED <<cmdbuf, head, tail, written, rcvd, pending>>
  BY DEF peek_space, Offer, peek_items, pending
<1>3. cons'.done = cons.done /\ prod'.done = prod.done
  BY DEF peek_space, Offer, peek_items, RingInv, CallsInWindow, Idle, At, TypeOK, Call
<1>4. CallsInWindow'
  <2>1. CASE peek_space
    BY <1>1, <1>2, <2>1, SpaceIs, MaskLow DEF peek_space, RingInv, CallsInWindow, TypeOK, Call, At, Smaller, pending, Slots
  <2>2. ASSUME NEW n \in 1 .. MaxBatch, Offer(n) PROVE CallsInWindow'
    BY <1>1, <1>2, <2>2 DEF Offer, Idle, At, RingInv, CallsInWindow
  <2>3. ASSUME NEW n \in 1 .. MaxBatch, peek_items(n) PROVE CallsInWindow'
    BY <1>1, <1>2, <2>3, MaskLow DEF peek_items, RingInv, CallsInWindow, TypeOK, Call, At, Smaller, pending, Slots
  <2> QED BY <2>1, <2>2, <2>3
<1>5. SlotsHoldHistory' /\ FifoDelivery'
  BY <1>2, <1>3 DEF RingInv, SlotsHoldHistory, FifoDelivery
<1> QED BY <1>4, <1>5 DEF RingInv

\* The producer's store lands on the first slot past the unreleased ones.
LEMMA RingProduceCopy == ASSUME TypeOK, RingInv, produce_copy PROVE RingInv'
<1> USE CountAssumption
<1> DEFINE base == Len(rcvd) - cons.done
           n    == pending + prod.done
<1>0. Len(rcvd) \in Nat /\ cons.done \in Nat
  BY DEF TypeOK, Call
<1>1. PICK v \in Data : cmdbuf' = [cmdbuf EXCEPT ![prod.pos] = v] /\ written' = Append(written, v)
  BY DEF produce_copy
<1>2. pending \in 0 .. count - 1
  BY CntRange DEF TypeOK, pending
<1>3. /\ prod.pc = "copy" /\ prod.done < prod.n
      /\ prod.n + pending <= count - 1
      /\ prod.pos = mask(head + prod.done)
      /\ prod.done \in Nat /\ prod.n \in Nat
      /\ n \in 0 .. count - 2
  BY <1>2 DEF produce_copy, RingInv, CallsInWindow, TypeOK, Call
<1>4. UNCHANGED <<head, tail, cons, rcvd, pending>>
  BY DEF produce_copy, pending
<1>5. prod'.pc = "copy" /\ prod'.n = prod.n /\ prod'.done = prod.done + 1
      /\ prod'.pos = mask(prod.pos + 1)
  BY <1>3 DEF produce_copy, TypeOK, Call, At
<1>6. prod.pos = mask(tail + n)
  <2>1. mask(tail + pending) = head
    BY CntReach DEF TypeOK, pending
  <2>2. mask(mask(tail + pending) + prod.done) = mask(tail + (pending + prod.done))
    BY <1>2, <1>3, MaskTwice DEF TypeOK
  <2> QED BY <1>3, <2>1, <2>2
<1>7. mask(prod.pos + 1) = mask(head + prod'.done)
  BY <1>2, <1>3, <1>5, MaskTwice DEF TypeOK
<1>8. CallsInWindow'
  BY <1>3, <1>4, <1>5, <1>7 DEF RingInv, CallsInWindow
<1>9. SlotsHoldHistory'
  <2>1. Len(written) = base + n /\ base \in Nat /\ Len(written) \in Nat
    BY <1>3, <1>2 DEF RingInv, SlotsHoldHistory, TypeOK, Call
  <2>2. Len(written') = Len(written) + 1 /\ written'[Len(written) + 1] = v
        /\ \A i \in 1 .. Len(written) : written'[i] = written[i]
    BY <1>1 DEF TypeOK
  <2>3. ASSUME NEW k \in 0 .. n PROVE cmdbuf'[mask(tail + k)] = written'[base + k + 1]
    <3>1. CASE k = n
      <4>1. prod.pos \in Slots /\ cmdbuf'[prod.pos] = v
        BY <1>1 DEF TypeOK, Call
      <4>2. base + k + 1 = Len(written) + 1
        BY <1>0, <1>2, <1>3, <2>1, <3>1
      <4> QED BY <1>6, <2>2, <3>1, <4>1, <4>2
    <3>2. CASE k < n
      <4>1. mask(tail + k) # prod.pos
        BY <1>3, <1>6, <3>2, MaskDistinct DEF TypeOK
      <4>2. cmdbuf'[mask(tail + k)] = cmdbuf[mask(tail + k)]
        BY <1>1, <4>1, <1>3, MaskSlot DEF TypeOK, Slots
      <4>3. cmdbuf[mask(tail + k)] = written[base + k + 1]
        <5>1. k \in 0 .. pending + prod.done - 1
          BY <1>2, <1>3, <3>2
        <5> QED BY <5>1 DEF RingInv, SlotsHoldHistory
      <4>4. base + k + 1 \in 1 .. Len(written)
        <5>1. n \in Nat
          BY <1>2, <1>3
        <5> HIDE DEF base, n
        <5> QED BY <2>1, <3>2, <5>1
      <4> QED BY <2>2, <4>2, <4>3, <4>4
    <3> QED BY <1>3, <3>1, <3>2
  <2>4. pending' + prod'.done - 1 = n
    BY <1>2, <1>3, <1>4, <1>5
  <2>5. Len(written') = base + pending' + prod'.done
    <3>1. pending' = pending /\ prod'.done = prod.done + 1
      BY <1>4, <1>5
    <3>2. base \in Int /\ pending \in Int /\ prod.done \in Int
      BY <1>0, <1>2, <1>3
    <3> HIDE DEF base
    <3>3. base + pending' + prod'.done = (base + n) + 1
      BY <3>1, <3>2
    <3> QED BY <2>1, <2>2, <3>3
  <2> QED BY <1>4, <2>3, <2>4, <2>5 DEF RingInv, SlotsHoldHistory
<1>10. FifoDelivery'
  BY <1>1, <1>4 DEF RingInv, FifoDelivery, TypeOK
<1> QED BY <1>8, <1>9, <1>10 DEF RingInv

\* The head store turns the copied slots into pending ones.
LEMMA RingProducePublish == ASSUME TypeOK, RingInv, produce_publish PROVE RingInv'
<1> USE CountAssumption
<1>0. Len(rcvd) \in Nat /\ cons.done \in Nat /\ cons.n \in Nat /\ prod.done \in Nat
  BY DEF TypeOK, Call
<1>1. /\ prod.pc = "copy" /\ prod.done + pending <= count - 1
      /\ head' = mask(head + prod.done)
  BY DEF produce_publish, RingInv, CallsInWindow
<1>2. pending \in 0 .. count - 1
  BY CntRange DEF TypeOK, pending
<1>3. UNCHANGED <<cmdbuf, tail, cons, written, rcvd>> /\ prod'.pc = "idle" /\ prod'.done = 0
  BY DEF produce_publish, Idle, At
<1>4. pending' = pending + prod.done
  BY <1>0, <1>1, <1>2, <1>3, CntPublish DEF TypeOK, pending
<1>5. CallsInWindow'
  BY <1>0, <1>2, <1>3, <1>4 DEF RingInv, CallsInWindow
<1>6. SlotsHoldHistory'
  <2>1. pending' + prod'.done = pending + prod.done
    BY <1>0, <1>2, <1>3, <1>4
  <2>2. pending \in Int /\ Len(rcvd) - cons.done \in Int
    BY <1>0, <1>2
  <2>3. (Len(rcvd) - cons.done) + pending' + prod'.done = (Len(rcvd) - cons.done) + pending + prod.done
    <3> DEFINE base == Len(rcvd) - cons.done
    <3>1. base \in Int
      BY <2>2
    <3> HIDE DEF base
    <3>2. base + pending' + prod'.done = base + pending + prod.done
      BY <1>0, <1>3, <1>4, <2>2, <3>1
    <3> QED BY <3>2 DEF base
  <2>4. (0 .. pending' + prod'.done - 1) = (0 .. pending + prod.done - 1)
    <3>1. pending' + prod'.done - 1 = pending + prod.done - 1
      BY <1>0, <1>2, <1>3, <1>4
    <3> QED BY <3>1
  <2>5. /\ cons.done <= Len(rcvd)
        /\ Len(written) = (Len(rcvd) - cons.done) + pending' + prod'.done
        /\ \A k \in 0 .. pending' + prod'.done - 1 :
              cmdbuf[mask(tail + k)] = written[(Len(rcvd) - cons.done) + k + 1]
    BY <2>3, <2>4, Zenon DEF RingInv, SlotsHoldHistory
  <2> QED BY <1>3, <2>5 DEF SlotsHoldHistory
<1>7. FifoDelivery'
  BY <1>3 DEF RingInv, FifoDelivery
<1> QED BY <1>5, <1>6, <1>7 DEF RingInv

\* The consumer loads the oldest value it has not loaded yet.
LEMMA RingConsumeCopy == ASSUME TypeOK, RingInv, consume_copy PROVE RingInv'
<1> USE CountAssumption
<1> DEFINE base == Len(rcvd) - cons.done
<1>0. Len(rcvd) \in Nat /\ cons.done \in Nat /\ cons.n \in Nat /\ prod.done \in Nat
  BY DEF TypeOK, Call
<1>1. /\ cons.pc = "copy" /\ cons.done < cons.n /\ cons.n <= pending
      /\ cons.pos = mask(tail + cons.done)
  BY DEF consume_copy, RingInv, CallsInWindow
<1>2. pending \in 0 .. count - 1
  BY CntRange DEF TypeOK, pending
<1>3. UNCHANGED <<cmdbuf, head, tail, prod, written, pending>>
  BY DEF consume_copy, pending
<1>4. /\ cons'.pc = "copy" /\ cons'.n = cons.n /\ cons'.done = cons.done + 1
      /\ cons'.pos = mask(cons.pos + 1)
  BY DEF consume_copy, At
<1>5. mask(cons.pos + 1) = mask(tail + cons'.done)
  BY <1>0, <1>1, <1>2, <1>4, MaskTwice DEF TypeOK
<1>6. CallsInWindow'
  BY <1>0, <1>1, <1>3, <1>4, <1>5 DEF RingInv, CallsInWindow
<1>7. rcvd' = Append(rcvd, cmdbuf[cons.pos]) /\ cmdbuf[cons.pos] \in Data
  BY DEF consume_copy, TypeOK, Call
<1>8. Len(rcvd') = Len(rcvd) + 1 /\ rcvd'[Len(rcvd) + 1] = cmdbuf[cons.pos]
      /\ \A i \in 1 .. Len(rcvd) : rcvd'[i] = rcvd[i]
  BY <1>7 DEF TypeOK
<1>9. SlotsHoldHistory'
  <2>1. Len(rcvd') - cons'.done = base
    BY <1>0, <1>4, <1>8
  <2>2. cons'.done <= Len(rcvd')
    BY <1>0, <1>4, <1>8 DEF RingInv, SlotsHoldHistory
  <2> QED BY <1>3, <2>1, <2>2 DEF RingInv, SlotsHoldHistory
<1>10. FifoDelivery'
  <2>1. cmdbuf[mask(tail + cons.done)] = written[base + cons.done + 1]
    <3>1. cons.done \in 0 .. pending + prod.done - 1
      BY <1>0, <1>1, <1>2
    <3> QED BY <3>1 DEF RingInv, SlotsHoldHistory
  <2>2. base + cons.done + 1 = Len(rcvd) + 1
    BY <1>0
  <2>3. Len(rcvd) + 1 <= Len(written)
    BY <1>0, <1>1, <1>2 DEF RingInv, SlotsHoldHistory
  <2>4. rcvd'[Len(rcvd) + 1] = written[Len(rcvd) + 1]
    BY <1>1, <1>8, <2>1, <2>2
  <2>5. ASSUME NEW i \in 1 .. Len(rcvd) + 1 PROVE rcvd'[i] = written[i]
    BY <1>0, <1>8, <2>4 DEF RingInv, FifoDelivery
  <2> QED BY <1>3, <1>8, <2>3, <2>5 DEF FifoDelivery
<1> QED BY <1>6, <1>9, <1>10 DEF RingInv

\* The tail store releases exactly the slots already loaded.
LEMMA RingConsumePublish == ASSUME TypeOK, RingInv, consume_publish PROVE RingInv'
<1> USE CountAssumption
<1> DEFINE base == Len(rcvd) - cons.done
<1>0. Len(rcvd) \in Nat /\ cons.done \in Nat /\ prod.done \in Nat /\ prod.n \in Nat
  BY DEF TypeOK, Call
<1>1. /\ cons.pc = "copy" /\ cons.done <= pending
      /\ tail' = mask(tail + cons.done)
  BY DEF consume_publish, RingInv, CallsInWindow
<1>2. pending \in 0 .. count - 1
  BY CntRange DEF TypeOK, pending
<1>3. UNCHANGED <<cmdbuf, head, prod, written, rcvd>> /\ cons'.pc = "idle" /\ cons'.done = 0
  BY DEF consume_publish, Idle, At
<1>4. pending' = pending - cons.done
  BY <1>0, <1>1, <1>2, <1>3, CntRelease DEF TypeOK, pending
<1>5. CallsInWindow'
  BY <1>0, <1>2, <1>3, <1>4 DEF RingInv, CallsInWindow
<1>6. SlotsHoldHistory'
  <2>1. prod.done + pending <= count - 1
    BY <1>0, <1>2 DEF RingInv, CallsInWindow
  <2>2. ASSUME NEW k \in 0 .. pending' + prod.done - 1
        PROVE  cmdbuf[mask(tail' + k)] = written[Len(rcvd) + k + 1]
    <3>1. cons.done + k \in 0 .. pending + prod.done - 1
      BY <1>0, <1>1, <1>2, <1>4
    <3>2. mask(tail' + k) = mask(tail + (cons.done + k))
      <4>1. cons.done \in 0 .. count /\ k \in 0 .. count /\ cons.done + k <= count - 1
        BY <1>0, <1>1, <1>2, <2>1, <3>1
      <4>2. mask(mask(tail + cons.done) + k) = mask(tail + (cons.done + k))
        BY <4>1, MaskTwice DEF TypeOK
      <4> QED BY <1>1, <4>2
    <3>3. cmdbuf[mask(tail + (cons.done + k))] = written[base + (cons.done + k) + 1]
      BY <3>1 DEF RingInv, SlotsHoldHistory
    <3>4. base + (cons.done + k) + 1 = Len(rcvd) + k + 1
      BY <1>0, <3>1
    <3> QED BY <3>2, <3>3, <3>4
  <2>3. Len(written) = Len(rcvd) + pending' + prod.done
    BY <1>0, <1>2, <1>4 DEF RingInv, SlotsHoldHistory
  <2> QED BY <1>0, <1>3, <2>2, <2>3 DEF SlotsHoldHistory
<1>7. FifoDelivery'
  BY <1>3 DEF RingInv, FifoDelivery
<1> QED BY <1>5, <1>6, <1>7 DEF RingInv

(***************************************************************************)
(* The theorems.                                                           *)
(***************************************************************************)

\* RingInv is an invariant: the registers of both sides stay inside the
\* window they saw and the slots hold the unreleased history.
THEOREM RingInvariant == Spec => []RingInv
<1>1. TypeOK /\ RingInv /\ [Next]_vars => RingInv'
  <2> SUFFICES ASSUME TypeOK, RingInv, [Next]_vars PROVE RingInv'
    OBVIOUS
  <2>1. CASE UNCHANGED vars
    BY <2>1 DEF vars, RingInv, CallsInWindow, SlotsHoldHistory, FifoDelivery, pending
  <2>2. CASE Next
    BY <2>2, RingPeek, RingProduceCopy, RingProducePublish, RingConsumeCopy, RingConsumePublish
       DEF Next, ProducerStep, ConsumerStep
  <2> QED BY <2>1, <2>2
<1> QED BY <1>1, RingInit, TypeCorrect, PTL DEF Spec

\* What the consumer loads is what the producer stored, in order.
THEOREM FifoDeliveryHolds == Spec => []FifoDelivery
  BY RingInvariant, PTL DEF RingInv

\* The slot stored next is not one of the pending ones.
LEMMA StoreOutside == ASSUME TypeOK, RingInv PROVE NoOverwrite
<1> SUFFICES ASSUME prod.pc = "copy", prod.done < prod.n,
                    NEW k \in 0 .. circ_cnt(head, tail) - 1
             PROVE  mask(tail + k) # prod.pos
  BY DEF NoOverwrite
<1>1. pending \in 0 .. count - 1 /\ prod.done \in Nat /\ prod.n \in Nat
  BY CntRange DEF TypeOK, pending, Call
<1>2. prod.n + pending <= count - 1 /\ prod.pos = mask(head + prod.done)
  BY DEF RingInv, CallsInWindow
<1>3. mask(tail + pending) = head
  BY CntReach DEF TypeOK, pending
<1>4. prod.pos = mask(tail + (pending + prod.done))
  BY <1>1, <1>2, <1>3, MaskTwice, CountAssumption DEF TypeOK
<1>5. k < pending + prod.done /\ k \in 0 .. count - 1 /\ pending + prod.done \in 0 .. count - 1
  BY <1>1, <1>2, CountAssumption DEF pending
<1> QED BY <1>4, <1>5, MaskDistinct DEF TypeOK

\* produce_raw never stores into a slot that consume_raw may still load.
THEOREM NoOverwriteHolds == Spec => []NoOverwrite
  BY StoreOutside, TypeCorrect, RingInvariant, PTL

(***************************************************************************)
(* Refinement of CmdFifo.                                                  *)
(***************************************************************************)

\* A call moves between one and MaxBatch entries.
BatchInv ==
    /\ prod.pc # "idle" => prod.n \in 1 .. MaxBatch
    /\ cons.pc # "idle" => cons.n \in 1 .. MaxBatch

\* The batch sizes stay in range from the offer to the publication.
LEMMA BatchInvariant == Spec => []BatchInv
<1> USE BatchAssumption, CountAssumption
<1>1. Init => BatchInv
  BY DEF Init, BatchInv, Idle, At
<1>2. TypeOK /\ BatchInv /\ [Next]_vars => BatchInv'
  <2> SUFFICES ASSUME TypeOK, BatchInv, [Next]_vars PROVE BatchInv'
    OBVIOUS
  <2>0. circ_cnt(head, tail) \in 0 .. count - 1 /\ circ_space(head, tail) \in Nat
    <3>1. circ_cnt(head, tail) \in 0 .. count - 1
      BY CntRange DEF TypeOK
    <3> QED BY <3>1, SpaceIs DEF TypeOK
  <2>1. ASSUME NEW n \in 1 .. MaxBatch, Offer(n) PROVE BatchInv'
    BY <2>1 DEF Offer, BatchInv, At
  <2>2. CASE peek_space
    BY <2>0, <2>2 DEF peek_space, BatchInv, At, Smaller
  <2>3. CASE produce_copy
    BY <2>3 DEF produce_copy, BatchInv, At
  <2>4. CASE produce_publish
    BY <2>4 DEF produce_publish, BatchInv, At, Idle
  <2>5. ASSUME NEW n \in 1 .. MaxBatch, peek_items(n) PROVE BatchInv'
    BY <2>0, <2>5 DEF peek_items, BatchInv, At, Smaller
  <2>6. CASE consume_copy
    BY <2>6 DEF consume_copy, BatchInv, At
  <2>7. CASE consume_publish
    BY <2>7 DEF consume_publish, BatchInv, At, Idle
  <2>8. CASE UNCHANGED vars
    BY <2>8 DEF vars, BatchInv
  <2> QED
    BY <2>1, <2>2, <2>3, <2>4, <2>5, <2>6, <2>7, <2>8 DEF Next, ProducerStep, ConsumerStep
<1> QED BY <1>1, <1>2, TypeCorrect, PTL DEF Spec

\* The contents are a sequence of the pending slots.
ContentsSeq ==
    /\ pending \in 0 .. count - 1
    /\ Contents \in Seq(Data) /\ Len(Contents) = pending
    /\ \A i \in 1 .. pending : Contents[i] = cmdbuf[mask(tail + i - 1)]

\* What lies between tail and head is a sequence of data, as long as pending.
LEMMA ContentsType == TypeOK => ContentsSeq
<1> SUFFICES ASSUME TypeOK PROVE ContentsSeq
  OBVIOUS
<1>1. pending \in 0 .. count - 1 /\ pending \in Nat
  BY CntRange, CountAssumption DEF TypeOK, pending
<1>2. ASSUME NEW i \in 1 .. pending PROVE cmdbuf[mask(tail + i - 1)] \in Data
  BY <1>1, <1>2, MaskSlot, CountAssumption DEF TypeOK, Slots
<1>3. Contents = [i \in 1 .. pending |-> cmdbuf[mask(tail + i - 1)]]
  BY DEF Contents, pending
<1>4. Contents \in [1 .. pending -> Data]
  BY <1>2, <1>3
<1>5. Contents \in Seq(Data) /\ Len(Contents) = pending
  BY <1>1, <1>4
<1> QED BY <1>1, <1>3, <1>5 DEF ContentsSeq

\* The same after a step.
LEMMA ContentsTypeNext == TypeOK' => ContentsSeq'
  BY ContentsType, PTL

\* The released values are a prefix of the values loaded.
ReleasedSeq ==
    /\ Released \in Seq(Data) /\ Len(Released) = Len(rcvd) - cons.done
    /\ \A i \in 1 .. Len(rcvd) - cons.done : Released[i] = rcvd[i]

\* What the consumer has released is a prefix of what it loaded.
LEMMA ReleasedType == TypeOK /\ RingInv => ReleasedSeq
<1> SUFFICES ASSUME TypeOK, RingInv PROVE ReleasedSeq
  OBVIOUS
<1>1. PICK n \in Nat : n = Len(rcvd) - cons.done /\ n <= Len(rcvd)
  BY DEF TypeOK, Call, RingInv, SlotsHoldHistory
<1>2. \A i \in 1 .. n : rcvd[i] \in Data
  BY <1>1 DEF TypeOK
<1>3. /\ SubSeq(rcvd, 1, n) \in Seq(Data) /\ Len(SubSeq(rcvd, 1, n)) = n
      /\ \A i \in 1 .. n : SubSeq(rcvd, 1, n)[i] = rcvd[i]
  BY <1>1, <1>2 DEF TypeOK
<1> QED BY <1>1, <1>3 DEF Released, ReleasedSeq

\* The same after a step.
LEMMA ReleasedTypeNext == (TypeOK /\ RingInv)' => ReleasedSeq'
  BY ReleasedType, PTL

\* Sequences are equal when their lengths and elements are.
LEMMA SameSeq ==
    ASSUME NEW s \in Seq(Data), NEW t \in Seq(Data), Len(s) = Len(t),
           \A i \in 1 .. Len(s) : s[i] = t[i]
    PROVE  s = t
  BY SeqEqual

\* Steps that move neither head nor tail are invisible.
LEMMA FifoStutter ==
    ASSUME TypeOK, TypeOK', RingInv, RingInv',
           \/ peek_space \/ produce_copy \/ consume_copy
           \/ \E n \in 1 .. MaxBatch : Offer(n) \/ peek_items(n)
           \/ UNCHANGED vars
    PROVE  Contents' = Contents /\ Released' = Released
<1>1. UNCHANGED <<head, tail>> /\ pending' = pending
  BY DEF peek_space, produce_copy, consume_copy, Offer, peek_items, vars, pending
<1>2. ContentsSeq /\ ContentsSeq' /\ ReleasedSeq /\ ReleasedSeq'
  BY ContentsType, ContentsTypeNext, ReleasedType, ReleasedTypeNext
<1>3. ASSUME NEW i \in 1 .. pending PROVE cmdbuf'[mask(tail + i - 1)] = cmdbuf[mask(tail + i - 1)]
  <2>1. CASE cmdbuf' = cmdbuf
    BY <2>1
  <2>2. CASE produce_copy
    <3>1. i - 1 \in 0 .. circ_cnt(head, tail) - 1 /\ tail + (i - 1) = tail + i - 1
      BY <1>2 DEF ContentsSeq, pending, TypeOK, Slots
    <3>2. mask(tail + i - 1) # prod.pos
      BY <2>2, <3>1, StoreOutside DEF NoOverwrite, produce_copy
    <3> QED BY <2>2, <3>2 DEF produce_copy, TypeOK
  <2> QED BY <2>1, <2>2 DEF peek_space, consume_copy, Offer, peek_items, vars
<1>4. Contents' = Contents
  <2>1. \A i \in 1 .. Len(Contents) : Contents'[i] = Contents[i]
    BY <1>1, <1>2, <1>3 DEF ContentsSeq
  <2> QED BY <1>1, <1>2, <2>1, SameSeq DEF ContentsSeq
<1>5. /\ Len(rcvd') - cons'.done = Len(rcvd) - cons.done
      /\ \A i \in 1 .. Len(rcvd) - cons.done : rcvd'[i] = rcvd[i]
  <2>1. CASE rcvd' = rcvd /\ cons' = cons
    BY <2>1
  <2>2. CASE consume_copy
    <3>1. rcvd' = Append(rcvd, cmdbuf[cons.pos]) /\ cmdbuf[cons.pos] \in Data /\ cons'.done = cons.done + 1
      BY <2>2 DEF consume_copy, TypeOK, Call, At
    <3>2. Len(rcvd') = Len(rcvd) + 1 /\ (\A i \in 1 .. Len(rcvd) : rcvd'[i] = rcvd[i])
          /\ Len(rcvd) \in Nat /\ cons.done \in Nat
      BY <3>1 DEF TypeOK, Call
    <3> QED BY <3>1, <3>2
  <2>3. ASSUME NEW n \in 1 .. MaxBatch, peek_items(n) PROVE rcvd' = rcvd /\ cons'.done = cons.done
    BY <2>3 DEF peek_items, RingInv, CallsInWindow, At
  <2> QED BY <2>1, <2>2, <2>3 DEF peek_space, produce_copy, Offer, vars
<1>6. Released' = Released
  <2>1. Len(Released') = Len(Released) /\ \A i \in 1 .. Len(Released) : Released'[i] = Released[i]
    BY <1>2, <1>5 DEF ReleasedSeq
  <2> QED BY <1>2, <2>1, SameSeq DEF ReleasedSeq
<1> QED BY <1>4, <1>6

\* The head store puts the batch the producer has copied.
LEMMA FifoPut ==
    ASSUME TypeOK, TypeOK', RingInv, RingInv', BatchInv, produce_publish
    PROVE  \E k \in 1 .. MaxBatch : Fifo!Put(k)
<1> USE CountAssumption
<1>1. /\ prod.n \in 1 .. MaxBatch /\ prod.n \in Nat /\ prod.done = prod.n
      /\ prod.n + pending <= count - 1 /\ head' = mask(head + prod.n)
      /\ UNCHANGED <<cmdbuf, tail, cons, rcvd>>
  BY DEF produce_publish, BatchInv, RingInv, CallsInWindow, TypeOK, Call
<1>2. ContentsSeq /\ ContentsSeq' /\ pending \in Nat
  BY ContentsType, ContentsTypeNext DEF ContentsSeq
<1>3. pending' = pending + prod.n
  BY <1>1, <1>2, CntPublish DEF TypeOK, pending
<1>4. PICK k \in 1 .. MaxBatch : k = prod.n
  BY <1>1
<1> DEFINE batch == [i \in 1 .. k |-> cmdbuf[mask(tail + (pending + i) - 1)]]
<1>5. batch \in [1 .. k -> Data] /\ batch \in Seq(Data) /\ Len(batch) = k
      /\ \A i \in 1 .. k : batch[i] = cmdbuf[mask(tail + (pending + i) - 1)]
  <2>1. k \in Nat
    BY <1>4, <1>1
  <2>2. ASSUME NEW i \in 1 .. k PROVE cmdbuf[mask(tail + (pending + i) - 1)] \in Data
    <3>1. tail + (pending + i) - 1 \in 0 .. 2 * count - 1
      BY <1>1, <1>2, <1>4, <2>1 DEF TypeOK, Slots
    <3>2. mask(tail + (pending + i) - 1) \in Slots
      BY <3>1, MaskSlot
    <3> QED BY <3>2 DEF TypeOK
  <2>3. batch \in [1 .. k -> Data]
    BY <2>2
  <2> QED BY <2>1, <2>3
<1> HIDE DEF batch
<1>6. Contents' = Contents \o batch
  <2>1. /\ Contents \o batch \in Seq(Data) /\ Len(Contents \o batch) = pending + k
        /\ \A i \in 1 .. pending + k :
              (Contents \o batch)[i] = IF i <= pending THEN Contents[i] ELSE batch[i - pending]
    BY <1>2, <1>5, ConcatProperties DEF ContentsSeq
  <2>2. k \in Nat /\ Len(Contents') = pending + k /\ Contents' \in Seq(Data)
    BY <1>1, <1>2, <1>3, <1>4 DEF ContentsSeq
  <2>3. ASSUME NEW i \in 1 .. pending + k PROVE Contents'[i] = (Contents \o batch)[i]
    <3>1. Contents'[i] = cmdbuf[mask(tail + i - 1)]
      BY <1>1, <1>2, <1>3, <1>4 DEF ContentsSeq
    <3>2. CASE i <= pending
      <4>1. i \in 1 .. pending
        BY <1>2, <3>2
      <4> QED BY <1>2, <2>1, <3>1, <3>2, <4>1 DEF ContentsSeq
    <3>3. CASE ~(i <= pending)
      <4>1. i - pending \in 1 .. k /\ pending + (i - pending) = i
        BY <1>2, <2>2, <3>3
      <4> QED BY <1>5, <2>1, <3>1, <3>3, <4>1
    <3> QED BY <3>2, <3>3
  <2> QED BY <2>1, <2>2, <2>3, SameSeq
<1>7. Released' = Released
  BY <1>1 DEF Released
<1>8. Len(Contents) + k <= count - 1
  BY <1>1, <1>2, <1>4 DEF ContentsSeq
<1> QED BY <1>5, <1>6, <1>7, <1>8 DEF Fifo!Put

\* The tail store gets the entries the consumer has loaded.
LEMMA FifoGet ==
    ASSUME TypeOK, TypeOK', RingInv, RingInv', BatchInv, consume_publish
    PROVE  \E k \in 1 .. MaxBatch : Fifo!Get(k)
<1> USE CountAssumption
<1>1. /\ cons.n \in 1 .. MaxBatch /\ cons.n \in Nat /\ cons.done = cons.n
      /\ cons.n <= pending /\ tail' = mask(tail + cons.n) /\ cons'.done = 0
      /\ UNCHANGED <<cmdbuf, head, prod, rcvd>>
  BY DEF consume_publish, BatchInv, RingInv, CallsInWindow, TypeOK, Call, Idle, At
<1>2. /\ ContentsSeq /\ ContentsSeq' /\ ReleasedSeq /\ ReleasedSeq'
      /\ pending \in Nat /\ pending <= count - 1 /\ Len(rcvd) \in Nat /\ prod.done \in Nat
  <2>1. ContentsSeq /\ ContentsSeq' /\ ReleasedSeq /\ ReleasedSeq'
    BY ContentsType, ContentsTypeNext, ReleasedType, ReleasedTypeNext
  <2>2. pending \in Nat /\ pending <= count - 1
    BY <2>1 DEF ContentsSeq
  <2>3. Len(rcvd) \in Nat /\ prod.done \in Nat
    BY DEF TypeOK, Call
  <2> QED BY <2>1, <2>2, <2>3
<1>3. PICK k \in 1 .. MaxBatch : k = cons.n /\ k \in Nat /\ k <= pending
  BY <1>1
<1>4. pending' = pending - k
  BY <1>1, <1>2, <1>3, CntRelease DEF TypeOK, pending
<1>5. PICK base \in Nat : base = Len(rcvd) - cons.done /\ base + k = Len(rcvd)
  <2>1. k <= Len(rcvd) /\ cons.done = k
    BY <1>1, <1>3 DEF RingInv, SlotsHoldHistory
  <2> QED BY <1>2, <1>3, <2>1
<1>6. Contents' = SubSeq(Contents, k + 1, pending)
  <2>1. \A i \in k + 1 .. pending : Contents[i] \in Data
    BY <1>2, <1>3 DEF ContentsSeq
  <2>2. /\ SubSeq(Contents, k + 1, pending) \in Seq(Data)
        /\ Len(SubSeq(Contents, k + 1, pending)) = pending - k
        /\ \A i \in 1 .. pending - k : SubSeq(Contents, k + 1, pending)[i] = Contents[k + i]
    <3>1. k + 1 \in Int /\ pending \in Int
      BY <1>2, <1>3
    <3>2. /\ SubSeq(Contents, k + 1, pending) \in Seq(Data)
          /\ Len(SubSeq(Contents, k + 1, pending)) =
                IF k + 1 <= pending THEN pending - (k + 1) + 1 ELSE 0
          /\ \A i \in 1 .. pending - (k + 1) + 1 :
                SubSeq(Contents, k + 1, pending)[i] = Contents[k + 1 + i - 1]
      BY <2>1, <3>1, SubSeqProperties
    <3>3. pending - (k + 1) + 1 = pending - k /\ (~(k + 1 <= pending) => pending - k = 0)
      BY <1>2, <1>3
    <3>4. \A i \in 1 .. pending - k : k + 1 + i - 1 = k + i
      BY <1>2, <1>3
    <3> QED BY <3>2, <3>3, <3>4
  <2>3. Len(Contents') = pending - k /\ Contents' \in Seq(Data)
    BY <1>2, <1>4 DEF ContentsSeq
  <2>4. ASSUME NEW i \in 1 .. pending - k PROVE Contents'[i] = Contents[k + i]
    <3>1. Contents'[i] = cmdbuf[mask(tail' + i - 1)]
      BY <1>1, <1>2, <1>4 DEF ContentsSeq
    <3>2. k + i \in 1 .. pending /\ i - 1 \in 0 .. count /\ k \in 0 .. count /\ k + (i - 1) <= count - 1
      BY <1>2, <1>3
    <3>3. mask(mask(tail + k) + (i - 1)) = mask(tail + (k + (i - 1)))
      BY <3>2, MaskTwice DEF TypeOK
    <3>4. tail \in Int /\ tail' \in Int
      BY DEF TypeOK, Slots
    <3>5. tail' + i - 1 = mask(tail + k) + (i - 1) /\ tail + (k + (i - 1)) = tail + (k + i) - 1
      BY <1>1, <1>3, <3>4
    <3>6. mask(tail' + i - 1) = mask(tail + (k + i) - 1)
      BY <3>3, <3>5
    <3> QED BY <1>2, <3>1, <3>2, <3>6 DEF ContentsSeq
  <2> QED BY <2>2, <2>3, <2>4, SameSeq
<1>7. ASSUME NEW i \in 1 .. k PROVE Contents[i] = rcvd[base + i]
  <2>1. i \in 1 .. pending /\ i - 1 \in 0 .. pending + prod.done - 1
    BY <1>2, <1>3
  <2>2. cmdbuf[mask(tail + (i - 1))] = written[(Len(rcvd) - cons.done) + (i - 1) + 1]
    BY <2>1 DEF RingInv, SlotsHoldHistory
  <2>3. tail + (i - 1) = tail + i - 1 /\ base + (i - 1) + 1 = base + i
    BY <1>3, <1>5 DEF TypeOK, Slots
  <2>4. base + i \in 1 .. Len(rcvd)
    BY <1>3, <1>5
  <2>5. rcvd[base + i] = written[base + i]
    BY <2>4 DEF RingInv, FifoDelivery
  <2>6. Contents[i] = written[base + i]
    BY <1>2, <1>5, <2>1, <2>2, <2>3 DEF ContentsSeq
  <2> QED BY <2>5, <2>6
<1>8. /\ SubSeq(Contents, 1, k) \in Seq(Data) /\ Len(SubSeq(Contents, 1, k)) = k
      /\ \A i \in 1 .. k : SubSeq(Contents, 1, k)[i] = Contents[i]
  <2>1. \A i \in 1 .. k : Contents[i] \in Data
    BY <1>2, <1>3 DEF ContentsSeq
  <2>2. k \in Int
    BY <1>3
  <2>3. /\ SubSeq(Contents, 1, k) \in Seq(Data)
        /\ Len(SubSeq(Contents, 1, k)) = IF 1 <= k THEN k - 1 + 1 ELSE 0
        /\ \A i \in 1 .. k - 1 + 1 : SubSeq(Contents, 1, k)[i] = Contents[1 + i - 1]
    BY <2>1, <2>2, SubSeqProperties
  <2>4. k - 1 + 1 = k /\ (\A i \in 1 .. k : 1 + i - 1 = i) /\ (~(1 <= k) => k = 0)
    BY <1>3
  <2> QED BY <2>3, <2>4
<1>9. Released' = Released \o SubSeq(Contents, 1, k)
  <2> DEFINE s == Released \o SubSeq(Contents, 1, k)
  <2>1. /\ s \in Seq(Data) /\ Len(s) = base + k
        /\ \A i \in 1 .. base + k :
              s[i] = IF i <= base THEN Released[i] ELSE SubSeq(Contents, 1, k)[i - base]
    <3>1. Released \in Seq(Data) /\ Len(Released) = base
      BY <1>2, <1>5 DEF ReleasedSeq
    <3>2. PICK b \in Seq(Data) : b = SubSeq(Contents, 1, k) /\ Len(b) = k
      BY <1>8
    <3>3. /\ Released \o b \in Seq(Data) /\ Len(Released \o b) = base + k
          /\ \A i \in 1 .. base + k : (Released \o b)[i] = IF i <= base THEN Released[i] ELSE b[i - base]
      <4>1. PICK a \in Seq(Data) : a = Released /\ Len(a) = base
        BY <3>1
      <4>2. /\ a \o b \in Seq(Data) /\ Len(a \o b) = Len(a) + Len(b)
            /\ \A i \in 1 .. Len(a) + Len(b) : (a \o b)[i] = IF i <= Len(a) THEN a[i] ELSE b[i - Len(a)]
        BY ConcatProperties
      <4> QED BY <3>2, <4>1, <4>2
    <3> QED BY <3>2, <3>3
  <2>2. Len(Released') = base + k /\ Released' \in Seq(Data) /\ \A i \in 1 .. base + k : Released'[i] = rcvd[i]
    BY <1>1, <1>2, <1>5 DEF ReleasedSeq
  <2>3. ASSUME NEW i \in 1 .. base + k PROVE Released'[i] = s[i]
    <3> HIDE DEF s
    <3>1. CASE i <= base
      <4>1. i \in 1 .. base
        BY <3>1
      <4> QED BY <1>2, <1>5, <2>1, <2>2, <3>1, <4>1 DEF ReleasedSeq
    <3>2. CASE ~(i <= base)
      <4>1. i - base \in 1 .. k /\ base + (i - base) = i
        BY <1>3, <3>2
      <4>2. s[i] = Contents[i - base]
        BY <1>8, <2>1, <3>2, <4>1
      <4> QED BY <1>7, <2>2, <4>1, <4>2
    <3> QED BY <3>1, <3>2
  <2> HIDE DEF s
  <2>4. Released' = s
    BY <2>1, <2>2, <2>3, SameSeq
  <2> QED BY <2>4 DEF s
<1> QED BY <1>2, <1>3, <1>6, <1>9 DEF Fifo!Get, ContentsSeq

\* The ring implements the bounded FIFO of CmdFifo: the head store is its
\* Put, the tail store its Get, and every other step is invisible.
THEOREM FifoRefined == Spec => RefinesFifo
<1>1. Init => Fifo!Init
  <2> SUFFICES ASSUME Init PROVE Contents = <<>> /\ Released = <<>>
    BY DEF Fifo!Init
  <2>1. circ_cnt(head, tail) = 0 /\ rcvd = <<>> /\ cons.done = 0
    BY CountAssumption, MaskLow DEF Init, circ_cnt, Idle, At
  <2>2. Contents = <<>>
    BY <2>1 DEF Contents
  <2>3. Released = <<>>
    BY <2>1 DEF Released
  <2> QED BY <2>2, <2>3
<1>2. /\ TypeOK /\ TypeOK' /\ RingInv /\ RingInv' /\ BatchInv /\ [Next]_vars
      => [Fifo!Next]_(Fifo!fifoVars)
  <2> SUFFICES ASSUME TypeOK, TypeOK', RingInv, RingInv', BatchInv, [Next]_vars
               PROVE  [Fifo!Next]_(Fifo!fifoVars)
    OBVIOUS
  <2>1. CASE produce_publish
    BY <2>1, FifoPut DEF Fifo!Next
  <2>2. CASE consume_publish
    BY <2>2, FifoGet DEF Fifo!Next
  <2>3. CASE \/ peek_space \/ produce_copy \/ consume_copy
             \/ \E n \in 1 .. MaxBatch : Offer(n) \/ peek_items(n)
             \/ UNCHANGED vars
    BY <2>3, FifoStutter DEF Fifo!fifoVars
  <2> QED BY <2>1, <2>2, <2>3 DEF Next, ProducerStep, ConsumerStep
<1> QED BY <1>1, <1>2, TypeCorrect, RingInvariant, BatchInvariant, PTL DEF Spec, RefinesFifo, Fifo!Spec

=============================================================================
