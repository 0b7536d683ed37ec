------------------------------ MODULE XcowFile ------------------------------
(***************************************************************************)
(* The copy-on-write map file: class XcowFile (xcow_file.cpp) and class    *)
(* XcowSnap (xcow_snap.cpp).  A stack of snapshots shares two-level        *)
(* translation tables; the newest snapshot is the only one written.        *)
(* Metadata clusters are handed out by hwm and never reused; data clusters *)
(* are handed out by the newest snapshot's disk_hwm, which peel rewinds.   *)
(*                                                                         *)
(* The file is used either by the UIF (one open_write handle, allocation   *)
(* transactions in flight) or, under the same file lock, by xcowctl.       *)
(* Offsets are cluster numbers; offset 0 (the header in the map file, the  *)
(* zero block on the disk) stands for an entry without the valid bit.      *)
(***************************************************************************)
EXTENDS Integers, Sequences

CONSTANTS
    PerCluster,    \* table entries in a cluster
    NClusters,     \* virtual size (fsize), in clusters
    HwmLimit,      \* clusters in the map file
    DiskHwmLimit,  \* clusters on the data disk
    TableCap       \* entries in a table of the snapshot list

L0Idx == 0 .. PerCluster - 1
Vblk  == 0 .. NClusters - 1

\* Tables needed to cover the file, and clusters needed for the root table.
l0count     == (NClusters + PerCluster - 1) \div PerCluster
l1_clusters == (l0count + PerCluster - 1) \div PerCluster

L1Idx == 0 .. l0count - 1

\* header, first snapshot-list table, free list, first root table
FormatHwm == 3 + l1_clusters

ASSUME SizeAssumption ==
    /\ PerCluster \in Nat /\ PerCluster >= 1
    /\ NClusters \in Nat /\ NClusters >= 1
    /\ TableCap \in Nat /\ TableCap >= 1
ASSUME LimitAssumption ==
    /\ HwmLimit \in Nat /\ HwmLimit >= FormatHwm
    /\ DiskHwmLimit \in Nat

VARIABLES
    hwm,     \* next free cluster of the map file
    root,    \* root tables, by their first cluster
    l0,      \* leaf tables, by their cluster
    snaps,   \* the snapshot list, oldest first: root table and disk_hwm
    tx,      \* allocation transactions in flight
    handle   \* the UIF's open_write handle: "none", or how much of the root
             \* table it spans ("narrow": one cluster, "wide": all of it)

vars == <<hwm, root, l0, snaps, tx, handle>>

Meta  == 0 .. HwmLimit - 1
Entry == [off : Nat, w : BOOLEAN]

encode(off, w) == [off |-> off, w |-> w]
empty          == encode(0, FALSE)
valid(e)       == e.off # 0
needs_alloc(e) == ~valid(e) \/ ~e.w

\* val & ~writable.  Mutation: the writable bit is copied.
ReadOnly_kept(e) == e
ReadOnly(e)      == encode(e.off, FALSE)

l1_off(v) == v \div PerCluster
l0_off(v) == v % PerCluster

SnapEntry(r, h) == [root |-> r, disk_hwm |-> h]

head == Len(snaps)

Ref(k, i)     == root[snaps[k].root][i]
Leaf(k, i, j) == l0[Ref(k, i).off][j]

\* What snapshot k translates cluster v to.
translate_read(k, v) ==
    IF valid(Ref(k, l1_off(v))) THEN Leaf(k, l1_off(v), l0_off(v)) ELSE empty

EmptyL0   == [j \in L0Idx |-> empty]
EmptyRoot == [i \in L1Idx |-> empty]

\* XcowFile::format: one empty snapshot; the first disk cluster is skipped.
Init ==
    /\ hwm = FormatHwm
    /\ root = [m \in Meta |-> EmptyRoot]
    /\ l0 = [m \in Meta |-> EmptyL0]
    /\ snaps = <<SnapEntry(3, 1)>>
    /\ tx = {}
    /\ handle = "none"

-----------------------------------------------------------------------------
(* Translation for writing.                                                 *)

\* alloc_meta_clusters: n more clusters fit.  Mutation: off by one.
MetaSpace_past(n) == hwm + n <= HwmLimit + 1
MetaSpace(n)      == hwm + n <= HwmLimit

\* The common first half of tx_write_prep and translate_write: the newest
\* snapshot gets a leaf table of its own for v, empty or a read-only copy.
OwnL0(v) ==
    LET i == l1_off(v)
        r == Ref(head, i)
    IN  \/ /\ valid(r) /\ r.w
           /\ UNCHANGED <<hwm, root, l0>>
        \/ /\ ~(valid(r) /\ r.w)
           /\ MetaSpace(1)
           /\ hwm' = hwm + 1
           /\ l0' = [l0 EXCEPT ![hwm] =
                       IF valid(r) THEN [j \in L0Idx |-> ReadOnly(l0[r.off][j])]
                                   ELSE EmptyL0]
           /\ root' = [root EXCEPT ![snaps[head].root] =
                         [root[snaps[head].root] EXCEPT ![i] = encode(hwm, TRUE)]]

\* The leaf table of the newest snapshot after OwnL0(v), and its entry for v.
NewTable(v) == root'[snaps[head].root][l1_off(v)].off
NewEntry(v) == l0'[NewTable(v)][l0_off(v)]

DiskFull == snaps[head].disk_hwm + 1 > DiskHwmLimit

\* alloc_data_cluster.
TakeCluster ==
    snaps' = [snaps EXCEPT ![head] =
                 SnapEntry(snaps[head].root, snaps[head].disk_hwm + 1)]

\* tx_write_prep alone: the caller finds the entry ready, finds v locked,
\* or gets an exception from alloc_data_cluster.  The new leaf table stays.
tx_write_prep(v) ==
    /\ handle # "none"
    /\ OwnL0(v)
    /\ UNCHANGED <<snaps, tx, handle>>

\* tx_write_prep, then do_alloc_one_tx: a data cluster is taken, and the
\* entry will be set when the zeroing or the copy has completed.  sn names
\* the snapshot the transaction belongs to (it is not stored by the code).
BeginTx(v) ==
    /\ handle # "none"
    /\ OwnL0(v)
    /\ needs_alloc(NewEntry(v))
    /\ ~DiskFull
    /\ TakeCluster
    /\ tx' = tx \union {[v |-> v, m |-> NewTable(v),
                         out |-> snaps[head].disk_hwm, sn |-> head]}
    /\ UNCHANGED handle

\* Mutation: the entry is not stored.
tx_write_commit_lost(t) == tx' = tx \ {t} /\ UNCHANGED <<hwm, root, l0, snaps, handle>>

\* tx_write_commit: an entry somebody else made writable is kept.
tx_write_commit(t) ==
    LET j == l0_off(t.v)
        e == l0[t.m][j]
    IN  /\ l0' = IF needs_alloc(e)
                 THEN [l0 EXCEPT ![t.m] = [l0[t.m] EXCEPT ![j] = encode(t.out, TRUE)]]
                 ELSE l0
        /\ tx' = tx \ {t}
        /\ UNCHANGED <<hwm, root, snaps, handle>>

\* The zeroing or the copy failed: the commit is neutralized, the data
\* cluster stays taken.
Abort(t) ==
    /\ tx' = tx \ {t}
    /\ UNCHANGED <<hwm, root, l0, snaps, handle>>

\* translate_write: both halves at once.
translate_write(v) ==
    LET i  == l1_off(v)
        r  == Ref(head, i)
        m  == IF valid(r) /\ r.w THEN r.off ELSE hwm
        t0 == IF ~valid(r) THEN EmptyL0
              ELSE IF r.w THEN l0[r.off]
              ELSE [j \in L0Idx |-> ReadOnly(l0[r.off][j])]
        e  == encode(snaps[head].disk_hwm, TRUE)
    IN  /\ handle # "none"
        /\ needs_alloc(t0[l0_off(v)])
        /\ ~DiskFull
        /\ m = hwm => MetaSpace(1)
        /\ hwm' = IF m = hwm THEN hwm + 1 ELSE hwm
        /\ root' = [root EXCEPT ![snaps[head].root] =
                      [root[snaps[head].root] EXCEPT ![i] = encode(m, TRUE)]]
        /\ l0' = [l0 EXCEPT ![m] = [t0 EXCEPT ![l0_off(v)] = e]]
        /\ TakeCluster
        /\ UNCHANGED <<tx, handle>>

-----------------------------------------------------------------------------
(* Snapshots.                                                               *)

\* The part of a root table seen through a handle.  open_read and
\* open_write dereference one cluster of it.
Spanned(h, i) == h = "wide" \/ i < PerCluster

\* Mutation: the copy of the root table stops one entry early.
SnapRoot_short(k, h) ==
    [i \in L1Idx |-> IF Spanned(h, i) /\ i # l0count - 1 THEN ReadOnly(Ref(k, i)) ELSE empty]

SnapRoot(k, h) ==
    [i \in L1Idx |-> IF Spanned(h, i) THEN ReadOnly(Ref(k, i)) ELSE empty]

\* The newest table of the snapshot list is full.
TableFull == Len(snaps) % TableCap = 0

\* XcowFile::open_read: the snapshot that index snapi (0: the newest)
\* resolves to.  The walk goes from the newest table to the one behind it,
\* and back to the start of that one at its end; an index that ends just
\* before a table's first entry is taken from the table's header (0 here,
\* no snapshot).  All tables but the newest are full.
open_read(snapi) ==
    LET n    == 1 + ((Len(snaps) - 1) % TableCap)
        over == (snapi - n) % TableCap
    IN  IF snapi < n THEN Len(snaps) - snapi
        ELSE IF n = Len(snaps) \/ over = 0 THEN 0
        ELSE Len(snaps) - n - over

\* XcowFile::snap_create from snapshot k through a handle of width h.
SnapCreate(k, h) ==
    LET extra == IF TableFull THEN 1 ELSE 0
    IN  /\ MetaSpace(l1_clusters + extra)
        /\ hwm' = hwm + l1_clusters + extra
        /\ root' = [root EXCEPT ![hwm] = SnapRoot(k, h)]
        /\ snaps' = Append(snaps, SnapEntry(hwm, snaps[head].disk_hwm))
        /\ UNCHANGED <<l0, tx>>

\* It throws after the root table was allocated: no cluster for the table.
SnapCreateThrows ==
    /\ TableFull
    /\ MetaSpace(l1_clusters) /\ ~MetaSpace(l1_clusters + 1)
    /\ hwm' = hwm + l1_clusters
    /\ UNCHANGED <<root, l0, snaps, tx, handle>>

\* The UIF's snapshot command, at any moment of the transactions in flight.
snap_create ==
    /\ handle # "none"
    /\ SnapCreate(head, handle)
    /\ handle' = "wide"

\* xcowctl snap-create --snap-index, where the index denotes a snapshot.
snap_create_from(snapi) ==
    /\ handle = "none"
    /\ open_read(snapi) # 0
    /\ SnapCreate(open_read(snapi), "narrow")
    /\ UNCHANGED handle

\* xcowctl snap-peel: drops the newest snapshot, never the last one.
peel ==
    /\ handle = "none"
    /\ Len(snaps) > 1
    /\ snaps' = SubSeq(snaps, 1, Len(snaps) - 1)
    /\ UNCHANGED <<hwm, root, l0, tx, handle>>

\* The UIF starts.
open_write ==
    /\ handle = "none"
    /\ handle' = "narrow"
    /\ UNCHANGED <<hwm, root, l0, snaps, tx>>

\* The UIF stops or dies, or xcowctl does.  Stores to the mapped file survive,
\* transactions do not.  Metadata clusters that were taken and not linked yet
\* stay taken: a leaf table, a root table, a root table and a table of the
\* snapshot list.
Crash ==
    /\ handle' = "none"
    /\ tx' = {}
    /\ \/ hwm' \in {hwm, hwm + 1, hwm + l1_clusters}
       \/ TableFull /\ hwm' = hwm + l1_clusters + 1
    /\ hwm' <= HwmLimit
    /\ UNCHANGED <<root, l0, snaps>>

-----------------------------------------------------------------------------
\* The caller's cluster lock: one transaction per cluster.
Locked(v) == \E t \in tx : t.v = v

Next ==
    \/ \E v \in Vblk : tx_write_prep(v) \/ (~Locked(v) /\ BeginTx(v)) \/ translate_write(v)
    \/ \E t \in tx : tx_write_commit(t) \/ Abort(t)
    \/ snap_create
    \/ \E snapi \in 0 .. head - 1 : snap_create_from(snapi)
    \/ SnapCreateThrows
    \/ peel
    \/ open_write
    \/ Crash

Spec == Init /\ [][Next]_vars

-----------------------------------------------------------------------------
(* Properties.                                                              *)

Tx == [v : Vblk, m : Meta, out : Nat, sn : Nat]

\* Types of the file's tables and of the UIF's state.
TypeOK ==
    /\ hwm \in 0 .. HwmLimit
    /\ root \in [Meta -> [L1Idx -> Entry]]
    /\ l0 \in [Meta -> [L0Idx -> Entry]]
    /\ snaps \in Seq([root : Meta, disk_hwm : Nat]) /\ Len(snaps) >= 1
    /\ tx \in SUBSET Tx
    /\ handle \in {"none", "narrow", "wide"}

\* The data cluster snapshot k holds for cluster <<i, j>> (0: none).
Cluster(k, i, j) == IF valid(Ref(k, i)) THEN Leaf(k, i, j).off ELSE 0

Writable(i, j) ==
    valid(Ref(head, i)) /\ Ref(head, i).w /\ valid(Leaf(head, i, j)) /\ Leaf(head, i, j).w

\* A data cluster that the guest may be told to write directly is held by
\* no older snapshot and for no other address; a cluster being zeroed or
\* filled by a transaction is held by nobody and by no other transaction.
WriteExclusive ==
    /\ \A i \in L1Idx, j \in L0Idx : Writable(i, j) =>
          \A k \in 1 .. head, i2 \in L1Idx, j2 \in L0Idx :
             Cluster(k, i2, j2) = Cluster(head, i, j) => k = head /\ i2 = i /\ j2 = j
    /\ \A t \in tx : \A k \in 1 .. head, i \in L1Idx, j \in L0Idx : Cluster(k, i, j) # t.out
    /\ \A t, u \in tx : t.out = u.out => t = u

\* Every cluster a snapshot holds was taken before its own disk_hwm, so that
\* what peel gives back to the allocator is held by no remaining snapshot.
RefBelowHwm ==
    /\ \A k \in 1 .. head, i \in L1Idx, j \in L0Idx : Cluster(k, i, j) < snaps[k].disk_hwm
    /\ \A k1, k2 \in 1 .. head : k1 <= k2 => snaps[k1].disk_hwm <= snaps[k2].disk_hwm

\* A superseded snapshot never changes, except that a transaction begun
\* while it (or an ancestor it shares the table with) was the newest may
\* still commit into it.
FrozenSnapshots ==
    [][\A k \in 1 .. Len(snaps) - 1, v \in Vblk :
          k <= Len(snaps') =>
             \/ translate_read(k, v)'.off = translate_read(k, v).off
             \/ \E t \in tx : t.v = v /\ t.sn <= k /\ translate_read(k, v)'.off = t.out]_vars

\* A new snapshot starts as a copy of its source: snap_create loses no
\* mapping.
InheritsSource ==
    [][Len(snaps') > Len(snaps) =>
          \E k \in 1 .. Len(snaps) : \A v \in Vblk :
             translate_read(head, v)'.off = translate_read(k, v).off]_vars

-----------------------------------------------------------------------------
(* The inductive invariant behind WriteExclusive and RefBelowHwm.           *)

\* Snapshots have root tables of their own, and only refer to metadata
\* clusters already taken.
RootsOwn ==
    /\ 1 <= hwm
    /\ \A k \in 1 .. head : snaps[k].root < hwm
    /\ \A k1, k2 \in 1 .. head : snaps[k1].root = snaps[k2].root => k1 = k2
    /\ \A k \in 1 .. head, i \in L1Idx : Ref(k, i).off < hwm

\* A leaf table serves one root index; the writable reference to it belongs
\* to the oldest snapshot that has it, and is newer than every table of the
\* snapshots below.
L0Order ==
    \A k1, k2 \in 1 .. head, i1, i2 \in L1Idx :
       valid(Ref(k1, i1)) /\ valid(Ref(k2, i2)) =>
          /\ Ref(k1, i1).off = Ref(k2, i2).off => i1 = i2
          /\ k1 < k2 /\ Ref(k2, i2).w => Ref(k1, i1).off < Ref(k2, i2).off

\* A data cluster serves one address; the leaf table with the writable entry
\* for it is the oldest that has it.
LeafOrigin ==
    \A k1, k2 \in 1 .. head, i1, i2 \in L1Idx, j1, j2 \in L0Idx :
       /\ valid(Ref(k1, i1)) /\ valid(Ref(k2, i2))
       /\ valid(Leaf(k1, i1, j1))
       /\ Leaf(k1, i1, j1).off = Leaf(k2, i2, j2).off
       => /\ i1 = i2 /\ j1 = j2
          /\ Leaf(k1, i1, j1).w => Ref(k1, i1).off <= Ref(k2, i2).off

\* A transaction commits into a table its snapshot owns, a cluster taken
\* under that snapshot's disk_hwm and not yet held by anybody.
TxOwn ==
    /\ handle = "none" => tx = {}
    /\ \A t \in tx :
          /\ t.sn \in 1 .. head
          /\ t.m # 0 /\ Ref(t.sn, l1_off(t.v)) = encode(t.m, TRUE)
          /\ 0 < t.out /\ t.out < snaps[t.sn].disk_hwm
          /\ \A k \in 1 .. head, i \in L1Idx, j \in L0Idx : Cluster(k, i, j) # t.out
    /\ \A t, u \in tx : t.out = u.out => t = u

\* Taken together these make every entry the head may write its own; each
\* of them relates tables of different snapshots.
XcowInv == RootsOwn /\ L0Order /\ LeafOrigin /\ RefBelowHwm /\ TxOwn

=============================================================================
