----------------------------- MODULE MCXcowSrv -----------------------------
(* Instances of XcowSrv for TLC: the requests the commands may make. *)
EXTENDS XcowSrv, BlkIter

\* The iterator cuts every range of up to MaxBlocks blocks as the handlers
\* expect.
MaxBlocks == 9
ASSUME BlkIterCuts == \A addr \in 0 .. MaxBlocks, sz \in 1 .. MaxBlocks : CutsRange(addr, sz)

\* Requests for sz blocks from addr, ClusterLbas to a cluster.
R(op, addr, sz) == [op |-> op, blks |-> Clusters(addr, sz)]
NoRange(op)     == [op |-> op, blks |-> <<>>]

\* Requests that touch one cluster.  Clusters 0 and 1 share a leaf table.
Single == {R("read", 0, 2), R("write", 1, 1), R("write", 2, 2), R("write", 4, 1), NoRange("flush")}

\* Requests over two clusters among single ones.
Multi == {R("write", 0, 1), R("write", 1, 2), R("write", 3, 3), R("read", 0, 4)}

\* Writes around a snapshot command.
Snapshotting == {R("write", 0, 2), R("write", 3, 1), R("read", 1, 1), NoRange("snapshot")}

\* Everything at once, for a disk and a map file that fill up and I/O that fails.
Mixed == Multi \union {NoRange("snapshot")}
=============================================================================
