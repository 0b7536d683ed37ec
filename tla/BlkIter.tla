------------------------------ MODULE BlkIter ------------------------------
(***************************************************************************)
(* class blk_iter (blk_iter.hpp): the pieces of a range of blocks, cut at  *)
(* the boundaries of clusters, as do_read and do_write visit them.         *)
(***************************************************************************)
EXTENDS Integers, Sequences

CONSTANT ClusterLbas   \* blocks of a cluster (1 << _cluster_bits)

ASSUME ClusterAssumption == ClusterLbas \in Nat \ {0}

LOCAL Least(a, b) == IF a <= b THEN a ELSE b

round_up_bits(a) == ((a + ClusterLbas - 1) \div ClusterLbas) * ClusterLbas

\* Where the piece at addr ends, sz blocks being left.
calc_next(addr, sz) ==
    LET next == Least(round_up_bits(addr), addr + sz)
    IN  IF next = addr THEN next + Least(sz, ClusterLbas) ELSE next

\* The pieces of sz blocks from addr: [at, size].
Pieces(addr, sz) ==
    LET end == addr + sz
        from[a \in addr .. end] ==
            IF a = end THEN <<>>
            ELSE <<[at |-> a, size |-> calc_next(a, end - a) - a]>> \o from[calc_next(a, end - a)]
    IN  from[addr]

\* The clusters the pieces are in.
Clusters(addr, sz) == [i \in DOMAIN Pieces(addr, sz) |-> Pieces(addr, sz)[i].at \div ClusterLbas]

\* What the handlers rely on: the pieces are adjacent and cover the range,
\* none crosses a cluster boundary, and there are as many as the clusters
\* the vector of a ticket reserved room for (references to its elements are
\* kept by queued work).
CutsRange(addr, sz) ==
    LET p     == Pieces(addr, sz)
        first == addr \div ClusterLbas
        last  == (addr + sz - 1) \div ClusterLbas
    IN  /\ Len(p) = (last - first) + 1
        /\ p[1].at = addr /\ p[Len(p)].at + p[Len(p)].size = addr + sz
        /\ \A i \in 1 .. Len(p) - 1 : p[i].at + p[i].size = p[i + 1].at
        /\ \A i \in 1 .. Len(p) : /\ p[i].size > 0
                                  /\ p[i].at \div ClusterLbas = first + i - 1
                                  /\ (p[i].at + p[i].size - 1) \div ClusterLbas = first + i - 1
=============================================================================
