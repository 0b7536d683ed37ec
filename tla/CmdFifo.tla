------------------------------ MODULE CmdFifo ------------------------------
(***************************************************************************)
(* What a command ring promises its two users: a FIFO of bounded capacity. *)
(* One call puts or gets up to MaxBatch entries at once.                   *)
(***************************************************************************)
EXTENDS Integers, Sequences

CONSTANTS Data, Cap, MaxBatch

VARIABLES
    q,          \* entries put and not yet gotten
    delivered   \* entries gotten, in order

fifoVars == <<q, delivered>>

Init == q = <<>> /\ delivered = <<>>

Put(k) ==
    /\ Len(q) + k <= Cap
    /\ \E batch \in [1 .. k -> Data] : q' = q \o batch
    /\ UNCHANGED delivered

Get(k) ==
    /\ k <= Len(q)
    /\ delivered' = delivered \o SubSeq(q, 1, k)
    /\ q' = SubSeq(q, k + 1, Len(q))

Next == \E k \in 1 .. MaxBatch : Put(k) \/ Get(k)

Spec == Init /\ [][Next]_fifoVars

=============================================================================
