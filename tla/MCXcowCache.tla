---------------------------- MODULE MCXcowCache ----------------------------
(* Instances of XcowCache for TLC: what the guest asks. *)
EXTENDS XcowCache

A(op, v, off) == [op |-> op, v |-> v, off |-> off]
Snap          == A("snapshot", 0, 0)

\* Both blocks of cluster 0, one block of two others that share its line.
Traffic == {A("read", 0, 0), A("write", 0, 0), A("write", 0, 1),
            A("write", 1, 0), A("read", 2, 0), A("zeroes", 0, 0), Snap}

AskedOps == {[op |-> r.op, blks |-> IF r.op = "snapshot" THEN <<>> ELSE <<r.v>>] : r \in Asked}
=============================================================================
