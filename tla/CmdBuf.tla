------------------------------- MODULE CmdBuf -------------------------------
(***************************************************************************)
(* The single-producer single-consumer command ring shared by the kernel   *)
(* router and a userspace I/O function (UIF).  The same ring is used twice *)
(* per notifier: the NSQ (kernel produces commands, UIF consumes) and the  *)
(* NCQ (UIF produces responses, kernel consumes).                          *)
(*                                                                         *)
(* Userspace side: class cmdbuf, mdev-client/include/cmdbuf.hpp.           *)
(* Kernel side: nvme_mdev_notifyfd_send and _process_ncq, notifyfd.c.      *)
(*                                                                         *)
(* Every access to shared memory (head, tail, one slot) is one step; the   *)
(* acquire/release pairs of the code make such interleavings sufficient.   *)
(***************************************************************************)
EXTENDS Integers, Sequences

CONSTANTS
    count,      \* number of slots, a power of two in every build
    Data,       \* commands or responses
    Zero,       \* the all-zero entry a fresh notifier holds (vmalloc_user)
    MaxBatch,   \* largest span handed to one produce()/consume() call
    MaxWritten  \* bound: slots ever written (history length)

ASSUME CountAssumption == count \in Nat /\ count >= 2
ASSUME BatchAssumption == MaxBatch \in Nat \ {0} /\ MaxWritten \in Nat
ASSUME DataAssumption  == Zero \in Data

VARIABLES
    cmdbuf,     \* the slots
    head,       \* written by the producer only
    tail,       \* written by the consumer only
    prod,       \* the producer's call in progress
    cons,       \* the consumer's call in progress
    written,    \* history: values stored into slots, in order
    rcvd        \* history: values loaded from slots, in order

vars == <<cmdbuf, head, tail, prod, cons, written, rcvd>>

Slots == 0 .. count - 1

(***************************************************************************)
(* linux/circ_buf.h.  "& (size - 1)" is "% count" for a power of two, for  *)
(* negative differences too.                                               *)
(***************************************************************************)
mask(i) == i % count
circ_cnt(h, t)   == mask(h - t)

\* Mutations of circ_space: every slot is used; one slot too few is found.
circ_space_full(h, t)  == count - circ_cnt(h, t)
circ_space_short(h, t) == circ_cnt(t, h)

circ_space(h, t) == circ_cnt(t, h + 1)

Smaller(a, b) == IF a <= b THEN a ELSE b

\* A call's registers: where it stands, how many entries it is to move
\* (to_produce, to_consume), how many it has moved, and its next slot.
At(pc, n, done, pos) == [pc |-> pc, n |-> n, done |-> done, pos |-> pos]

Idle == At("idle", 0, 0, 0)

Init ==
    /\ cmdbuf = [s \in Slots |-> Zero]
    /\ head = 0
    /\ tail = 0
    /\ prod = Idle
    /\ cons = Idle
    /\ written = <<>>
    /\ rcvd = <<>>

-----------------------------------------------------------------------------
(* Producer: produce(in), and cq_produce_one, which calls it until it       *)
(* succeeds.                                                                *)

\* A caller enters produce() with a span of n elements.
Offer(n) ==
    /\ prod.pc = "idle"
    /\ Len(written) + n <= MaxWritten
    /\ prod' = At("peek", n, 0, 0)
    /\ UNCHANGED <<cmdbuf, head, tail, cons, written, rcvd>>

\* Own head, acquire load of tail.  With no space the call returns 0 and
\* cq_produce_one tries again: the producer stays in "peek".
peek_space ==
    LET space == circ_space(head, tail)
        n     == Smaller(prod.n, space)
    IN  /\ prod.pc = "peek"
        /\ n >= 1
        /\ prod' = At("copy", n, 0, head)
        /\ UNCHANGED <<cmdbuf, head, tail, cons, written, rcvd>>

\* Mutation: the position is not wrapped.
produce_copy_nowrap ==
    /\ prod.pc = "copy"
    /\ prod.done < prod.n
    /\ \E v \in Data :
          /\ cmdbuf'  = [cmdbuf EXCEPT ![prod.pos] = v]
          /\ written' = Append(written, v)
    /\ prod' = At("copy", prod.n, prod.done + 1, prod.pos + 1)
    /\ UNCHANGED <<head, tail, cons, rcvd>>

\* One iteration of the copy loop of produce_raw.
produce_copy ==
    /\ prod.pc = "copy"
    /\ prod.done < prod.n
    /\ \E v \in Data :
          /\ cmdbuf'  = [cmdbuf EXCEPT ![prod.pos] = v]
          /\ written' = Append(written, v)
    /\ prod' = At("copy", prod.n, prod.done + 1, mask(prod.pos + 1))
    /\ UNCHANGED <<head, tail, cons, rcvd>>

\* The release store of head that ends produce_raw.
produce_publish ==
    /\ prod.pc = "copy"
    /\ prod.done = prod.n
    /\ head' = prod.pos
    /\ prod' = Idle
    /\ UNCHANGED <<cmdbuf, tail, cons, written, rcvd>>

-----------------------------------------------------------------------------
(* Consumer: consume(out).                                                  *)

\* Mutation: the newest entry is left for the next call.
peek_items_short(want) ==
    LET n == Smaller(want, circ_cnt(head, tail) - 1)
    IN  /\ cons.pc = "idle"
        /\ n >= 1
        /\ cons' = At("copy", n, 0, tail)
        /\ UNCHANGED <<cmdbuf, head, tail, prod, written, rcvd>>

\* Acquire load of head, own tail.
peek_items(want) ==
    LET n == Smaller(want, circ_cnt(head, tail))
    IN  /\ cons.pc = "idle"
        /\ n >= 1
        /\ cons' = At("copy", n, 0, tail)
        /\ UNCHANGED <<cmdbuf, head, tail, prod, written, rcvd>>

\* One iteration of the copy loop of consume_raw.
consume_copy ==
    /\ cons.pc = "copy"
    /\ cons.done < cons.n
    /\ rcvd' = Append(rcvd, cmdbuf[cons.pos])
    /\ cons' = At("copy", cons.n, cons.done + 1, mask(cons.pos + 1))
    /\ UNCHANGED <<cmdbuf, head, tail, prod, written>>

\* The release store of tail that ends consume_raw.
consume_publish ==
    /\ cons.pc = "copy"
    /\ cons.done = cons.n
    /\ tail' = cons.pos
    /\ cons' = Idle
    /\ UNCHANGED <<cmdbuf, head, prod, written, rcvd>>

-----------------------------------------------------------------------------
ProducerStep == peek_space \/ produce_copy \/ produce_publish
ConsumerStep == (\E n \in 1 .. MaxBatch : peek_items(n)) \/ consume_copy \/ consume_publish

Next ==
    \/ \E n \in 1 .. MaxBatch : Offer(n)
    \/ ProducerStep
    \/ ConsumerStep

Spec == Init /\ [][Next]_vars

\* Both sides are polling loops: the UIF worker spins on its NSQ, the
\* iothread polls the NCQ; neither stops while the notifier is open.
FairSpec == Spec /\ WF_vars(ProducerStep) /\ WF_vars(ConsumerStep)

-----------------------------------------------------------------------------
(* Properties.                                                              *)

Call == [pc : {"idle", "peek", "copy"}, n : Nat, done : Nat, pos : Slots]

\* Types of the shared words, of the two calls and of the histories.
TypeOK ==
    /\ cmdbuf \in [Slots -> Data]
    /\ head \in Slots
    /\ tail \in Slots
    /\ prod \in Call
    /\ cons \in Call
    /\ written \in Seq(Data)
    /\ rcvd \in Seq(Data)

\* What consume() returns is what produce() stored, in order, with nothing
\* lost, repeated or torn, however the copy loops and the head and tail
\* stores of the two sides interleave.
FifoDelivery ==
    /\ Len(rcvd) <= Len(written)
    /\ \A i \in 1 .. Len(rcvd) : rcvd[i] = written[i]

\* Slots published and not yet released by the consumer, and the slot the
\* producer is about to store into, are disjoint: the copy loop of
\* produce_raw never overwrites an entry that consume_raw may still load.
NoOverwrite ==
    prod.pc = "copy" /\ prod.done < prod.n =>
        \A k \in 0 .. circ_cnt(head, tail) - 1 : mask(tail + k) # prod.pos

\* Entries published and not yet released.
pending == circ_cnt(head, tail)

\* Where each side stands inside its call: it works on the slots it found
\* free (resp. filled) when it looked, which the other side only adds to.
CallsInWindow ==
    /\ prod.pc # "copy" => prod.done = 0
    /\ prod.pc = "copy" =>
          /\ prod.done <= prod.n
          /\ prod.n + pending <= count - 1
          /\ prod.pos = mask(head + prod.done)
    /\ cons.pc # "copy" => cons.done = 0
    /\ cons.pc = "copy" =>
          /\ cons.done <= cons.n
          /\ cons.n <= pending
          /\ cons.pos = mask(tail + cons.done)

\* The slots from tail on hold, in order, the values written and not yet
\* released; the histories account for every slot.
SlotsHoldHistory ==
    /\ cons.done <= Len(rcvd)
    /\ Len(written) = (Len(rcvd) - cons.done) + pending + prod.done
    /\ \A k \in 0 .. pending + prod.done - 1 :
          cmdbuf[mask(tail + k)] = written[(Len(rcvd) - cons.done) + k + 1]

\* The inductive invariant behind FifoDelivery and NoOverwrite: the indices
\* each side keeps in registers across the other's head and tail stores
\* still denote the slots it may touch.
RingInv == CallsInWindow /\ SlotsHoldHistory /\ FifoDelivery

\* cq_produce_one returns: an offered entry is published as long as the
\* other side keeps polling.
ProduceReturns == (prod.pc = "peek") ~> (prod.pc = "idle")

\* Every entry stored by the producer is published and then loaded by the
\* consumer: neither a full nor an empty ring can wedge the pair.
EventuallyReceived ==
    \A i \in 1 .. MaxWritten : (Len(written) >= i) ~> (Len(rcvd) >= i)

-----------------------------------------------------------------------------
(* Refinement: the ring is a bounded FIFO whose Put is the head store and   *)
(* whose Get is the tail store.                                             *)

Contents == [i \in 1 .. circ_cnt(head, tail) |-> cmdbuf[mask(tail + i - 1)]]

Released == SubSeq(rcvd, 1, Len(rcvd) - cons.done)

Fifo == INSTANCE CmdFifo WITH Cap <- count - 1, q <- Contents, delivered <- Released

\* The ring implements CmdFifo.
RefinesFifo == Fifo!Spec

=============================================================================
