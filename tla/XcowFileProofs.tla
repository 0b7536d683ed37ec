--------------------------- MODULE XcowFileProofs ---------------------------
(***************************************************************************)
(* Proofs about the XCOW map file, for every size of cluster and number of *)
(* clusters: its invariant is inductive, so that no two snapshots write    *)
(* the same cluster; what a snapshot maps never changes; and a fork reads  *)
(* what its source read when it was made.                                  *)
(***************************************************************************)
EXTENDS XcowFile, TLAPS

\* Division with a positive divisor.
LEMMA DivMod ==
    ASSUME NEW a \in Nat, NEW p \in Nat, p >= 1
    PROVE  /\ a \div p \in Nat /\ a % p \in 0 .. p - 1
           /\ a = p * (a \div p) + (a % p)
  OBVIOUS

\* Multiplication is monotonic.
LEMMA MulLess ==
    ASSUME NEW p \in Nat, NEW a \in Nat, NEW b \in Nat, p * a < p * b
    PROVE  a < b
  OBVIOUS

\* The root table has at least one entry and at least one cluster.
LEMMA Sizes == l0count \in Nat /\ l0count >= 1 /\ l1_clusters \in Nat /\ l1_clusters >= 1
<1>1. ASSUME NEW n \in Nat, n >= 1 PROVE (n + PerCluster - 1) \div PerCluster \in Nat /\ (n + PerCluster - 1) \div PerCluster >= 1
  <2> DEFINE a == n + PerCluster - 1
  <2>1. a \in Nat /\ a >= PerCluster
    BY <1>1, SizeAssumption
  <2> HIDE DEF a
  <2>2. a \div PerCluster \in Nat /\ a = PerCluster * (a \div PerCluster) + (a % PerCluster) /\ a % PerCluster \in 0 .. PerCluster - 1
    BY <2>1, DivMod, SizeAssumption
  <2>3. a \div PerCluster # 0
    BY <2>1, <2>2, SizeAssumption
  <2> QED BY <2>2, <2>3 DEF a
<1>2. l0count \in Nat /\ l0count >= 1
  BY <1>1, SizeAssumption DEF l0count
<1> HIDE DEF l0count
<1> QED BY <1>1, <1>2 DEF l1_clusters

\* Every cluster of the file has an entry.
LEMMA Indices == \A v \in Vblk : l1_off(v) \in L1Idx /\ l0_off(v) \in L0Idx
<1> SUFFICES ASSUME NEW v \in Vblk PROVE l1_off(v) \in L1Idx /\ l0_off(v) \in L0Idx
  OBVIOUS
<1> DEFINE a == NClusters + PerCluster - 1
<1>1. a \in Nat /\ v \in Nat /\ v < NClusters
  BY SizeAssumption DEF Vblk
<1>2. /\ l1_off(v) \in Nat /\ l0_off(v) \in 0 .. PerCluster - 1
      /\ v = PerCluster * l1_off(v) + l0_off(v)
  BY <1>1, DivMod, SizeAssumption DEF l1_off, l0_off
<1>3. l0count \in Nat /\ a % PerCluster \in 0 .. PerCluster - 1 /\ a = PerCluster * l0count + (a % PerCluster)
  <2> HIDE DEF a
  <2> QED BY <1>1, DivMod, SizeAssumption DEF l0count, a
<1>4. PerCluster * l1_off(v) < PerCluster * l0count
  <2> DEFINE x == PerCluster * l1_off(v)
             y == PerCluster * l0count
  <2>1. x \in Nat /\ y \in Nat
    BY <1>2, <1>3, SizeAssumption
  <2> HIDE DEF x, y
  <2>2. v = x + l0_off(v) /\ a = y + (a % PerCluster)
    BY <1>2, <1>3 DEF x, y
  <2>3. x < y
    BY <2>1, <2>2, <1>1, <1>2, <1>3, SizeAssumption
  <2> QED BY <2>3 DEF x, y
<1>5. l1_off(v) < l0count
  BY <1>2, <1>3, <1>4, MulLess, SizeAssumption
<1> QED BY <1>2, <1>3, <1>5 DEF L1Idx, L0Idx

Wr(k, i, j) == valid(Ref(k, i)) /\ Leaf(k, i, j).w

\* LeafOrigin, in terms of the clusters held.
Origin ==
    \A k1, k2 \in 1 .. head, i1, i2 \in L1Idx, j1, j2 \in L0Idx :
       Cluster(k1, i1, j1) # 0 /\ Cluster(k1, i1, j1) = Cluster(k2, i2, j2)
       => /\ i1 = i2 /\ j1 = j2
          /\ Wr(k1, i1, j1) => Ref(k1, i1).off <= Ref(k2, i2).off

\* The two forms of the origin of a leaf agree, before and after a step.
LEMMA OriginIff == (LeafOrigin <=> Origin) /\ (LeafOrigin' <=> Origin')
  BY DEF LeafOrigin, Origin, Cluster, Wr, valid

(***************************************************************************)
(* What the steps that keep the snapshot list have in common, over what    *)
(* the snapshots hold: at most one reference of the newest snapshot        *)
(* becomes a fresh table, and at most one address of the tables with       *)
(* reference m gets a cluster c that nobody held.                          *)
(***************************************************************************)
KeepsList ==
    /\ Len(snaps') = Len(snaps)
    /\ \A k \in 1 .. head : snaps'[k].root = snaps[k].root
    /\ \A k \in 1 .. head - 1 : snaps'[k].disk_hwm = snaps[k].disk_hwm
    /\ snaps[head].disk_hwm <= snaps'[head].disk_hwm

RefStep(i0) ==
    /\ hwm <= hwm'
    /\ \A k \in 1 .. head, i \in L1Idx :
          \/ Ref(k, i)' = Ref(k, i)
          \/ /\ k = head /\ i = i0 /\ hwm' = hwm + 1
             /\ ~(valid(Ref(k, i)) /\ Ref(k, i).w)
             /\ Ref(k, i)' = encode(hwm, TRUE)

LeafStep(i0, j0, m, c) ==
    /\ \A k \in 1 .. head, i \in L1Idx, j \in L0Idx : Cluster(k, i, j) # c
    /\ \A k \in 1 .. head, i \in L1Idx, j \in L0Idx :
          \/ /\ Cluster(k, i, j)' = Cluster(k, i, j)
             /\ Wr(k, i, j)' => Wr(k, i, j) /\ Ref(k, i)' = Ref(k, i)
          \/ /\ Cluster(k, i, j)' = c /\ c < snaps'[k].disk_hwm
             /\ Ref(k, i)'.off = m /\ i = i0 /\ j = j0

TxStep(c) ==
    /\ handle' = "none" => tx' = {}
    /\ \A t \in tx' :
          /\ t.out # c
          /\ t \notin tx =>
                /\ t.sn = head /\ t.m # 0 /\ Ref(head, l1_off(t.v))' = encode(t.m, TRUE)
                /\ t.out = snaps[head].disk_hwm /\ t.out < snaps'[head].disk_hwm
    /\ \A t, u \in tx' \ tx : t = u

RefsTyped ==
    /\ hwm \in Nat /\ head \in Nat /\ head >= 1
    /\ \A k \in 1 .. head : snaps[k].root \in Meta /\ snaps[k].root \in Nat /\ snaps[k].disk_hwm \in Nat
    /\ \A k \in 1 .. head, i \in L1Idx : Ref(k, i) \in Entry /\ Ref(k, i).off \in Nat
    /\ \A k \in 1 .. head, i \in L1Idx, j \in L0Idx :
          RootsOwn => /\ Ref(k, i).off \in Meta /\ Ref(k, i).off < hwm
                      /\ Leaf(k, i, j) \in Entry /\ Cluster(k, i, j) \in Nat

\* An element of a sequence is one of its set.
LEMMA SeqElem == ASSUME NEW S, NEW s \in Seq(S), NEW k \in 1 .. Len(s) PROVE s[k] \in S
  OBVIOUS

\* The entries that snapshots reach have their types.
LEMMA RefType == TypeOK => RefsTyped
<1> SUFFICES ASSUME TypeOK PROVE RefsTyped
  OBVIOUS
<1>1. hwm \in Nat /\ head \in Nat /\ head >= 1 /\ HwmLimit \in Nat
  BY LimitAssumption DEF TypeOK, head
<1>2. ASSUME NEW k \in 1 .. head PROVE snaps[k] \in [root : Meta, disk_hwm : Nat]
  <2> DEFINE S == [root : Meta, disk_hwm : Nat]
  <2>1. snaps \in Seq(S)
    BY DEF TypeOK
  <2> HIDE DEF S
  <2>2. snaps[k] \in S
    BY <2>1, SeqElem DEF head
  <2> QED BY <2>2 DEF S
<1>3. ASSUME NEW k \in 1 .. head, NEW i \in L1Idx PROVE Ref(k, i) \in Entry /\ Ref(k, i).off \in Nat
  BY <1>2 DEF TypeOK, Ref, Entry
<1>4. ASSUME NEW k \in 1 .. head, NEW i \in L1Idx, NEW j \in L0Idx, RootsOwn
      PROVE  /\ Ref(k, i).off \in Meta /\ Ref(k, i).off < hwm
             /\ Leaf(k, i, j) \in Entry /\ Cluster(k, i, j) \in Nat
  <2>1. Ref(k, i).off \in Meta /\ Ref(k, i).off < hwm
    BY <1>1, <1>3, <1>4 DEF TypeOK, RootsOwn, Meta
  <2> QED BY <2>1 DEF TypeOK, Leaf, Cluster, Entry
<1>5. \A k \in 1 .. head : snaps[k].root \in Meta /\ snaps[k].root \in Nat /\ snaps[k].disk_hwm \in Nat
  BY <1>2, <1>1 DEF Meta
<1> QED BY <1>1, <1>3, <1>4, <1>5 DEF RefsTyped

\* ... and keep them.
LEMMA RefTypeNext == TypeOK' => RefsTyped'
  BY RefType, PTL

\* The root tables and references stay in order.
LEMMA WriteStepRefs ==
    ASSUME TypeOK, TypeOK', KeepsList, RootsOwn, L0Order, NEW i0, RefStep(i0)
    PROVE  RootsOwn' /\ L0Order'
<1>1. /\ head \in Nat /\ head' = head /\ hwm \in Nat /\ hwm' \in Nat /\ hwm <= hwm'
      /\ \A k \in 1 .. head, i \in L1Idx : Ref(k, i) \in Entry /\ Ref(k, i)' \in Entry
      /\ \A k \in 1 .. head : snaps[k].root \in Nat
  BY RefType, RefTypeNext DEF RefsTyped, KeepsList, RefStep, head
<1>2. RootsOwn'
  <2>1. \A k \in 1 .. head : snaps'[k].root < hwm'
    BY <1>1 DEF RootsOwn, KeepsList
  <2>2. \A k1, k2 \in 1 .. head : snaps'[k1].root = snaps'[k2].root => k1 = k2
    BY <1>1 DEF RootsOwn, KeepsList
  <2>3. \A k \in 1 .. head, i \in L1Idx : Ref(k, i)'.off < hwm'
    BY <1>1 DEF RootsOwn, RefStep, encode, Entry
  <2> QED BY <1>1, <2>1, <2>2, <2>3 DEF RootsOwn
<1>3. L0Order'
  <2> SUFFICES ASSUME NEW k1 \in 1 .. head, NEW k2 \in 1 .. head, NEW i1 \in L1Idx, NEW i2 \in L1Idx,
                      valid(Ref(k1, i1)'), valid(Ref(k2, i2)')
               PROVE  /\ Ref(k1, i1)'.off = Ref(k2, i2)'.off => i1 = i2
                      /\ k1 < k2 /\ Ref(k2, i2)'.w => Ref(k1, i1)'.off < Ref(k2, i2)'.off
    BY <1>1 DEF L0Order, valid
  <2>1. CASE Ref(k1, i1)' = Ref(k1, i1) /\ Ref(k2, i2)' = Ref(k2, i2)
    BY <2>1 DEF L0Order, valid
  <2>2. Ref(k1, i1).off < hwm /\ Ref(k2, i2).off < hwm /\ Ref(k1, i1).off \in Nat /\ Ref(k2, i2).off \in Nat
    BY <1>1 DEF RootsOwn, Entry
  <2>3. ASSUME Ref(k1, i1)' # Ref(k1, i1) PROVE k1 = head /\ i1 = i0 /\ Ref(k1, i1)'.off = hwm
    BY <2>3 DEF RefStep, encode
  <2>4. ASSUME Ref(k2, i2)' # Ref(k2, i2) PROVE k2 = head /\ i2 = i0 /\ Ref(k2, i2)'.off = hwm
    BY <2>4 DEF RefStep, encode
  <2>5. CASE Ref(k1, i1)' # Ref(k1, i1)
    BY <1>1, <2>2, <2>3, <2>4, <2>5
  <2>6. CASE Ref(k2, i2)' # Ref(k2, i2)
    BY <1>1, <2>2, <2>3, <2>4, <2>6
  <2> QED BY <2>1, <2>5, <2>6
<1> QED BY <1>2, <1>3

\* A cluster stays with one address and its oldest table.
LEMMA WriteStepOrigin ==
    ASSUME TypeOK, TypeOK', KeepsList, LeafOrigin, RootsOwn,
           NEW i0, NEW j0, NEW m, NEW c, RefStep(i0), LeafStep(i0, j0, m, c)
    PROVE  LeafOrigin'
<1>1. Origin
  BY OriginIff
<1>2. head' = head
  BY DEF head, KeepsList
<1>3. \A k \in 1 .. head, i \in L1Idx :
         Ref(k, i).off \in Nat /\ Ref(k, i)'.off \in Nat /\ Ref(k, i).off <= Ref(k, i)'.off
  <2>1. /\ \A k \in 1 .. head, i \in L1Idx : Ref(k, i).off \in Nat /\ Ref(k, i)'.off \in Nat
        /\ hwm \in Nat
    BY <1>2, RefType, RefTypeNext DEF RefsTyped
  <2> QED BY <2>1 DEF RefStep, RootsOwn, encode
<1>4. Origin'
  <2> SUFFICES ASSUME NEW k1 \in 1 .. head, NEW k2 \in 1 .. head, NEW i1 \in L1Idx, NEW i2 \in L1Idx,
                      NEW j1 \in L0Idx, NEW j2 \in L0Idx,
                      Cluster(k1, i1, j1)' # 0, Cluster(k1, i1, j1)' = Cluster(k2, i2, j2)'
               PROVE /\ i1 = i2 /\ j1 = j2
                     /\ Wr(k1, i1, j1)' => Ref(k1, i1)'.off <= Ref(k2, i2)'.off
    BY <1>2 DEF Origin
  <2> QED BY <1>1, <1>3 DEF Origin, LeafStep
<1> QED BY <1>4, OriginIff

\* Clusters stay below the mark of every snapshot that holds them.
LEMMA WriteStepHwm ==
    ASSUME TypeOK, TypeOK', KeepsList, RootsOwn, RefBelowHwm,
           NEW i0, NEW j0, NEW m, NEW c, LeafStep(i0, j0, m, c)
    PROVE  RefBelowHwm'
<1>1. /\ head \in Nat /\ head >= 1 /\ head' = head
      /\ \A k \in 1 .. head : /\ snaps[k].disk_hwm \in Nat /\ snaps'[k].disk_hwm \in Nat
                              /\ snaps[k].disk_hwm <= snaps'[k].disk_hwm
  BY RefType, RefTypeNext DEF KeepsList, RefsTyped, head
<1>2. ASSUME NEW k \in 1 .. head, NEW i \in L1Idx, NEW j \in L0Idx
      PROVE  Cluster(k, i, j)' < snaps'[k].disk_hwm
  <2>1. Cluster(k, i, j) < snaps[k].disk_hwm /\ Cluster(k, i, j) \in Int
    BY RefType DEF RefBelowHwm, RefsTyped
  <2> QED BY <1>1, <2>1 DEF LeafStep
<1>3. ASSUME NEW k1 \in 1 .. head, NEW k2 \in 1 .. head, k1 <= k2
      PROVE  snaps'[k1].disk_hwm <= snaps'[k2].disk_hwm
  <2>1. snaps[k1].disk_hwm <= snaps[k2].disk_hwm
    BY <1>3 DEF RefBelowHwm
  <2> QED BY <1>1, <1>3, <2>1 DEF KeepsList
<1> QED BY <1>1, <1>2, <1>3 DEF RefBelowHwm

\* Transactions keep a table of their own and a cluster nobody holds.
LEMMA WriteStepTx ==
    ASSUME TypeOK, TypeOK', KeepsList, RootsOwn, RefBelowHwm, TxOwn,
           NEW i0, NEW j0, NEW m, NEW c, RefStep(i0), LeafStep(i0, j0, m, c), TxStep(c)
    PROVE  TxOwn'
<1>1. /\ head \in Nat /\ head >= 1 /\ head' = head /\ head \in 1 .. head
      /\ \A k \in 1 .. head : /\ snaps[k].disk_hwm \in Nat /\ snaps'[k].disk_hwm \in Nat
                              /\ snaps[k].disk_hwm <= snaps'[k].disk_hwm
  BY RefType, RefTypeNext DEF KeepsList, RefsTyped, head
<1>2. ASSUME NEW k \in 1 .. head, NEW i \in L1Idx, NEW j \in L0Idx
      PROVE  Cluster(k, i, j) \in Nat /\ Cluster(k, i, j) < snaps[head].disk_hwm
  <2>1. Cluster(k, i, j) < snaps[k].disk_hwm /\ Cluster(k, i, j) \in Nat /\ snaps[k].disk_hwm <= snaps[head].disk_hwm
    BY <1>1, RefType DEF RefBelowHwm, RefsTyped
  <2> QED BY <1>1, <2>1
<1>3. 0 < snaps[head].disk_hwm
  <2>1. 0 \in L1Idx /\ 0 \in L0Idx
    BY Sizes, SizeAssumption DEF L1Idx, L0Idx
  <2> QED BY <1>1, <1>2, <2>1
<1>4. ASSUME NEW t \in tx', t \in tx
      PROVE  /\ t.sn \in 1 .. head
             /\ t.m # 0 /\ Ref(t.sn, l1_off(t.v))' = encode(t.m, TRUE)
             /\ 0 < t.out /\ t.out < snaps'[t.sn].disk_hwm
             /\ t.out < snaps[head].disk_hwm
  <2>1. /\ t.sn \in 1 .. head
        /\ t.m # 0 /\ Ref(t.sn, l1_off(t.v)) = encode(t.m, TRUE)
        /\ 0 < t.out /\ t.out < snaps[t.sn].disk_hwm
    BY <1>4 DEF TxOwn
  <2>2. t.v \in Vblk /\ t.out \in Nat
    BY <1>4 DEF TypeOK, Tx
  <2>3. l1_off(t.v) \in L1Idx
    BY <2>2, Indices
  <2>4. Ref(t.sn, l1_off(t.v))' = Ref(t.sn, l1_off(t.v))
    BY <2>1, <2>3 DEF RefStep, valid, encode
  <2>5. snaps[t.sn].disk_hwm <= snaps[head].disk_hwm
    BY <1>1, <2>1 DEF RefBelowHwm
  <2> QED BY <1>1, <2>1, <2>2, <2>4, <2>5
<1>5. ASSUME NEW t \in tx', t \notin tx
      PROVE  /\ t.sn \in 1 .. head
             /\ t.m # 0 /\ Ref(t.sn, l1_off(t.v))' = encode(t.m, TRUE)
             /\ 0 < t.out /\ t.out < snaps'[t.sn].disk_hwm
             /\ t.out = snaps[head].disk_hwm
  BY <1>1, <1>3, <1>5 DEF TxStep
<1>6. ASSUME NEW t \in tx', NEW k \in 1 .. head, NEW i \in L1Idx, NEW j \in L0Idx
      PROVE  Cluster(k, i, j)' # t.out
  <2>1. Cluster(k, i, j) # t.out
    <3>1. CASE t \in tx
      BY <3>1 DEF TxOwn
    <3>2. CASE t \notin tx
      <4>1. t.out = snaps[head].disk_hwm
        BY <1>5, <3>2
      <4> QED BY <1>1, <1>2, <4>1
    <3> QED BY <3>1, <3>2
  <2> QED BY <2>1 DEF LeafStep, TxStep
<1>7. ASSUME NEW t \in tx', NEW u \in tx', t.out = u.out PROVE t = u
  <2>1. CASE t \in tx /\ u \in tx
    BY <1>7, <2>1 DEF TxOwn
  <2>2. CASE t \notin tx /\ u \notin tx
    BY <1>7, <2>2 DEF TxStep
  <2>3. ASSUME NEW x \in tx', NEW y \in tx', x \in tx, y \notin tx PROVE x.out # y.out
    <3>1. x.out < snaps[head].disk_hwm /\ y.out = snaps[head].disk_hwm
      BY <1>4, <1>5, <2>3
    <3>2. snaps[head].disk_hwm \in Nat
      BY <1>1
    <3>3. x.out \in Nat
      BY <2>3 DEF TypeOK, Tx
    <3> QED BY <3>1, <3>2, <3>3
  <2>4. ~(t \in tx /\ u \notin tx) /\ ~(t \notin tx /\ u \in tx)
    BY <1>7, <2>3
  <2> QED BY <2>1, <2>2, <2>3, <2>4
<1>8. \A t \in tx' :
          /\ t.sn \in 1 .. head'
          /\ t.m # 0 /\ Ref(t.sn, l1_off(t.v))' = encode(t.m, TRUE)
          /\ 0 < t.out /\ t.out < snaps'[t.sn].disk_hwm
          /\ \A k \in 1 .. head', i \in L1Idx, j \in L0Idx : Cluster(k, i, j)' # t.out
  BY <1>1, <1>4, <1>5, <1>6
<1> QED BY <1>7, <1>8 DEF TxOwn, TxStep

\* Taken together.
LEMMA WriteStep ==
    ASSUME TypeOK, TypeOK', XcowInv, KeepsList,
           NEW i0, NEW j0, NEW m, NEW c, RefStep(i0), LeafStep(i0, j0, m, c), TxStep(c)
    PROVE  XcowInv'
  BY WriteStepRefs, WriteStepOrigin, WriteStepHwm, WriteStepTx DEF XcowInv

(***************************************************************************)
(* The steps one by one.                                                   *)
(***************************************************************************)
SnapType == [root : Meta, disk_hwm : Nat]

\* A list left alone is kept.
LEMMA SameList == ASSUME TypeOK, snaps' = snaps PROVE KeepsList
<1>1. head \in 1 .. head /\ snaps[head].disk_hwm \in Nat
  BY RefType DEF RefsTyped
<1> QED BY <1>1 DEF KeepsList

\* alloc_data_cluster only raises the newest snapshot's mark.
LEMMA TakeKeeps ==
    ASSUME TypeOK, TakeCluster
    PROVE  KeepsList /\ snaps' \in Seq(SnapType) /\ snaps'[head].disk_hwm = snaps[head].disk_hwm + 1
<1> DEFINE e == SnapEntry(snaps[head].root, snaps[head].disk_hwm + 1)
<1>1. head \in 1 .. head /\ snaps[head].disk_hwm \in Nat /\ snaps[head].root \in Meta /\ head \in Nat
  BY RefType DEF RefsTyped
<1>2. e \in SnapType /\ e.root = snaps[head].root /\ e.disk_hwm = snaps[head].disk_hwm + 1
  BY <1>1 DEF SnapType, SnapEntry
<1>3. snaps \in Seq(SnapType) /\ head = Len(snaps)
  BY DEF TypeOK, SnapType, head
<1>4. snaps' = [snaps EXCEPT ![head] = e]
  BY DEF TakeCluster
<1> HIDE DEF e
<1>5. snaps' \in Seq(SnapType) /\ Len(snaps') = Len(snaps)
  BY <1>1, <1>2, <1>3, <1>4
<1>6. snaps'[head] = e /\ \A k \in 1 .. head : k # head => snaps'[k] = snaps[k]
  BY <1>1, <1>3, <1>4
<1> QED BY <1>1, <1>2, <1>5, <1>6 DEF KeepsList

\* A store to the newest snapshot's root table is seen by that snapshot only.
LEMMA RootStore ==
    ASSUME TypeOK, RootsOwn, KeepsList, NEW i0 \in L1Idx, NEW e \in Entry,
           root' = [root EXCEPT ![snaps[head].root] =
                      [root[snaps[head].root] EXCEPT ![i0] = e]]
    PROVE  /\ root' \in [Meta -> [L1Idx -> Entry]]
           /\ \A k \in 1 .. head, i \in L1Idx :
                 Ref(k, i)' = IF k = head /\ i = i0 THEN e ELSE Ref(k, i)
<1>1. /\ head \in 1 .. head
      /\ \A k \in 1 .. head : snaps[k].root \in Meta /\ snaps'[k].root = snaps[k].root
  BY RefType DEF RefsTyped, KeepsList
<1>2. root \in [Meta -> [L1Idx -> Entry]]
  BY DEF TypeOK
<1>3. root' \in [Meta -> [L1Idx -> Entry]]
  BY <1>1, <1>2
<1>4. ASSUME NEW k \in 1 .. head, NEW i \in L1Idx
      PROVE  root'[snaps[k].root][i] = IF k = head /\ i = i0 THEN e ELSE root[snaps[k].root][i]
  <2>1. snaps[k].root = snaps[head].root => k = head
    BY <1>1 DEF RootsOwn
  <2> QED BY <1>1, <1>2, <2>1
<1> QED BY <1>1, <1>3, <1>4 DEF Ref

\* OwnL0 leaves every cluster where it was and ends with a table of the
\* newest snapshot's own.
LEMMA OwnStep ==
    ASSUME TypeOK, XcowInv, KeepsList, NEW v \in Vblk, OwnL0(v)
    PROVE  /\ hwm' \in 0 .. HwmLimit
           /\ root' \in [Meta -> [L1Idx -> Entry]]
           /\ l0' \in [Meta -> [L0Idx -> Entry]]
           /\ RefStep(l1_off(v)) /\ LeafStep(l1_off(v), 0, 0, -1)
           /\ NewTable(v) \in Meta /\ NewTable(v) # 0
           /\ Ref(head, l1_off(v))' = encode(NewTable(v), TRUE)
<1>1. PICK i0 \in L1Idx : i0 = l1_off(v)
  BY Indices
<1>2. /\ RefsTyped /\ RootsOwn /\ head \in 1 .. head /\ HwmLimit \in Nat /\ head' = head
      /\ Ref(head, i0) \in Entry /\ hwm \in Nat
  BY <1>1, RefType, LimitAssumption DEF RefsTyped, XcowInv, KeepsList, head
<1>0. PICK r \in Entry : r = Ref(head, i0)
  BY <1>2
<1>3. \A k \in 1 .. head, i \in L1Idx :
         Ref(k, i).off \in Nat /\ Ref(k, i).off < hwm /\ Ref(k, i).off \in Meta
  BY <1>2 DEF RefsTyped, RootsOwn, TypeOK, Meta
<1>4. NewTable(v) = Ref(head, i0)'.off
  BY <1>1, <1>2 DEF NewTable, Ref, KeepsList, head
<1>5. CASE valid(r) /\ r.w
  <2>1. UNCHANGED <<hwm, root, l0>>
    BY <1>0, <1>1, <1>5 DEF OwnL0
  <2>2. \A k \in 1 .. head, i \in L1Idx : Ref(k, i)' = Ref(k, i)
    BY <2>1 DEF Ref, KeepsList
  <2>3. \A k \in 1 .. head, i \in L1Idx, j \in L0Idx : Leaf(k, i, j)' = Leaf(k, i, j)
    BY <2>1, <2>2 DEF Leaf
  <2>4. r.w \in BOOLEAN /\ r = encode(r.off, TRUE) /\ r.off # 0
    BY <1>2, <1>5 DEF Entry, encode, valid
  <2>5. RefStep(i0)
    <3>1. hwm <= hwm'
      BY <1>2, <2>1
    <3> QED BY <2>2, <3>1 DEF RefStep
  <2>6. LeafStep(i0, 0, 0, -1)
    <3>1. \A k \in 1 .. head, i \in L1Idx, j \in L0Idx :
             /\ Cluster(k, i, j)' = Cluster(k, i, j) /\ Wr(k, i, j)' = Wr(k, i, j)
             /\ Cluster(k, i, j) # -1
      BY <1>2, <2>2, <2>3 DEF Cluster, Wr, valid, RefsTyped
    <3> QED BY <2>2, <3>1 DEF LeafStep
  <2>7. Ref(head, i0)' = r /\ NewTable(v) = r.off /\ r.off \in Meta
    BY <1>0, <1>2, <1>3, <1>4, <2>2
  <2> QED BY <2>1, <2>4, <2>5, <2>6, <2>7, <1>1, <1>2 DEF TypeOK
<1>6. CASE ~(valid(r) /\ r.w)
  <2> DEFINE T == IF valid(r) THEN [j \in L0Idx |-> ReadOnly(l0[r.off][j])] ELSE EmptyL0
  <2>1. /\ hwm' = hwm + 1 /\ hwm + 1 <= HwmLimit /\ hwm \in Meta /\ hwm # 0
        /\ l0' = [l0 EXCEPT ![hwm] = T]
        /\ root' = [root EXCEPT ![snaps[head].root] =
                      [root[snaps[head].root] EXCEPT ![i0] = encode(hwm, TRUE)]]
    BY <1>0, <1>1, <1>2, <1>6 DEF OwnL0, MetaSpace, Meta, RefsTyped, RootsOwn
  <2>2. encode(hwm, TRUE) \in Entry /\ encode(hwm, TRUE).off = hwm
    BY <1>2 DEF encode, Entry, RefsTyped
  <2>3. /\ root' \in [Meta -> [L1Idx -> Entry]]
        /\ \A k \in 1 .. head, i \in L1Idx :
              Ref(k, i)' = IF k = head /\ i = i0 THEN encode(hwm, TRUE) ELSE Ref(k, i)
    BY <1>2, <2>1, <2>2, RootStore
  <2>4. r.off \in Meta
    BY <1>0, <1>2, <1>3
  <2>5. T \in [L0Idx -> Entry]
        /\ \A j \in L0Idx : T[j].off = Cluster(head, i0, j) /\ ~T[j].w
    BY <1>0, <1>2, <2>4 DEF TypeOK, ReadOnly, EmptyL0, empty, encode, Entry, Cluster, Leaf
  <2> HIDE DEF T
  <2>6. l0' \in [Meta -> [L0Idx -> Entry]] /\ l0'[hwm] = T
        /\ \A x \in Meta : x # hwm => l0'[x] = l0[x]
    BY <2>1, <2>5 DEF TypeOK
  <2>7. RefStep(i0)
    <3>1. hwm <= hwm'
      BY <1>2, <2>1
    <3>2. ASSUME NEW k \in 1 .. head, NEW i \in L1Idx, Ref(k, i)' # Ref(k, i)
          PROVE  /\ k = head /\ i = i0 /\ ~(valid(Ref(k, i)) /\ Ref(k, i).w)
                 /\ Ref(k, i)' = encode(hwm, TRUE)
      BY <1>0, <1>6, <2>3, <3>2
    <3> QED BY <2>1, <3>1, <3>2 DEF RefStep
  <2>8. ASSUME NEW k \in 1 .. head, NEW i \in L1Idx, NEW j \in L0Idx
        PROVE  /\ Cluster(k, i, j)' = Cluster(k, i, j)
               /\ Wr(k, i, j)' => Wr(k, i, j) /\ Ref(k, i)' = Ref(k, i)
    <3>1. CASE k = head /\ i = i0
      <4>1. Leaf(k, i, j)' = T[j] /\ valid(Ref(k, i)')
        BY <2>1, <2>2, <2>3, <2>6, <3>1 DEF Leaf, valid
      <4> QED BY <2>5, <3>1, <4>1 DEF Cluster, Wr, valid
    <3>2. CASE ~(k = head /\ i = i0)
      <4>1. Ref(k, i)' = Ref(k, i)
        BY <2>3, <3>2
      <4>2. Leaf(k, i, j)' = Leaf(k, i, j)
        BY <1>2, <1>3, <2>6, <4>1 DEF Leaf, RefsTyped
      <4> QED BY <4>1, <4>2 DEF Cluster, Wr, valid
    <3> QED BY <3>1, <3>2
  <2>9. LeafStep(i0, 0, 0, -1)
    <3>1. \A k \in 1 .. head, i \in L1Idx, j \in L0Idx : Cluster(k, i, j) # -1
      BY <1>2 DEF RefsTyped
    <3> QED BY <2>8, <3>1 DEF LeafStep
  <2>10. NewTable(v) = hwm /\ Ref(head, i0)' = encode(hwm, TRUE)
    BY <1>1, <1>2, <1>4, <2>2, <2>3
  <2>11. hwm' \in 0 .. HwmLimit
    BY <1>2, <2>1 DEF RefsTyped
  <2> QED BY <2>1, <2>3, <2>6, <2>7, <2>9, <2>10, <2>11, <1>1, <1>2
<1> QED BY <1>5, <1>6

FileInv == TypeOK /\ XcowInv

\* No transaction fills cluster -1, which stands for none.
LEMMA OutNat == ASSUME TypeOK, NEW t \in tx PROVE t.out # -1
<1>1. t.out \in Nat
  BY DEF TypeOK, Tx
<1> QED BY <1>1

\* References left alone.
LEMMA SameRefs ==
    ASSUME UNCHANGED <<root, snaps>>, hwm \in Nat, hwm' \in Nat, hwm <= hwm', NEW i0
    PROVE  RefStep(i0) /\ \A k \in 1 .. head, i \in L1Idx : Ref(k, i)' = Ref(k, i)
<1>1. \A k \in 1 .. head, i \in L1Idx : Ref(k, i)' = Ref(k, i)
  BY DEF Ref
<1> QED BY <1>1 DEF RefStep

\* What a step may do to a superseded snapshot, by table index.
Frozen ==
    \A k \in 1 .. head - 1, i \in L1Idx, j \in L0Idx :
       k <= Len(snaps') =>
          \/ Cluster(k, i, j)' = Cluster(k, i, j)
          \/ \E t \in tx : /\ l1_off(t.v) = i /\ l0_off(t.v) = j /\ t.sn <= k
                          /\ Cluster(k, i, j)' = t.out

\* What every step keeps: tables that are some snapshot's own, and the
\* newest mark (unless the newest snapshot is dropped).
TablesKept ==
    /\ \A k \in 1 .. head, i \in L1Idx :
          k <= Len(snaps') /\ valid(Ref(k, i)) /\ Ref(k, i).w => Ref(k, i)' = Ref(k, i)
    /\ Len(snaps) <= Len(snaps') => snaps[Len(snaps)].disk_hwm <= snaps'[Len(snaps')].disk_hwm
    /\ \A t \in tx' : t \notin tx => t.out = snaps[head].disk_hwm

StepKeeps == Frozen /\ TablesKept

\* A step that keeps the list keeps the tables.
LEMMA WriteKeeps ==
    ASSUME KeepsList, NEW i0, NEW c, RefStep(i0), TxStep(c)
    PROVE  TablesKept
<1>1. snaps[Len(snaps)].disk_hwm <= snaps'[Len(snaps')].disk_hwm
  BY DEF KeepsList, head
<1>2. \A k \in 1 .. head, i \in L1Idx : valid(Ref(k, i)) /\ Ref(k, i).w => Ref(k, i)' = Ref(k, i)
  BY DEF RefStep
<1>3. \A t \in tx' : t \notin tx => t.out = snaps[head].disk_hwm
  BY DEF TxStep
<1> QED BY <1>1, <1>2, <1>3 DEF TablesKept

\* A step that stores no cluster leaves them alone.
LEMMA NoStoreFrozen ==
    ASSUME FileInv', KeepsList, NEW i0, NEW j0, NEW m, LeafStep(i0, j0, m, -1)
    PROVE  Frozen
<1>1. head' = head /\ RefsTyped' /\ RootsOwn'
  BY RefTypeNext DEF FileInv, XcowInv, KeepsList, head
<1>2. head \in Nat /\ \A k \in 1 .. head, i \in L1Idx, j \in L0Idx : Cluster(k, i, j)' # -1
  <2>1. head' \in Nat /\ \A k \in 1 .. head', i \in L1Idx, j \in L0Idx : Cluster(k, i, j)' \in Nat
    BY <1>1 DEF RefsTyped
  <2>2. \A n \in Nat : n # -1
    OBVIOUS
  <2> QED BY <1>1, <2>1, <2>2
<1>3. \A k \in 1 .. head, i \in L1Idx, j \in L0Idx : Cluster(k, i, j)' = Cluster(k, i, j)
  BY <1>2 DEF LeafStep
<1> QED BY <1>2, <1>3 DEF Frozen

\* tx_write_prep alone.
LEMMA PrepStep == ASSUME FileInv, NEW v \in Vblk, tx_write_prep(v) PROVE FileInv' /\ StepKeeps
<1>1. /\ TypeOK /\ XcowInv /\ KeepsList /\ OwnL0(v)
      /\ UNCHANGED <<snaps, tx, handle>> /\ handle # "none"
  BY SameList DEF FileInv, tx_write_prep
<1>2. TypeOK'
  BY <1>1, OwnStep DEF TypeOK
<1>3. TxStep(-1)
  BY <1>1, OutNat DEF TxStep
<1>4. RefStep(l1_off(v)) /\ LeafStep(l1_off(v), 0, 0, -1)
  BY <1>1, OwnStep
<1>5. FileInv'
  BY <1>1, <1>2, <1>3, <1>4, WriteStep DEF FileInv
<1> QED BY <1>1, <1>3, <1>4, <1>5, NoStoreFrozen, WriteKeeps DEF StepKeeps

\* tx_write_prep, then a cluster is taken for the transaction.
LEMMA BeginStep == ASSUME FileInv, NEW v \in Vblk, BeginTx(v) PROVE FileInv' /\ StepKeeps
<1> DEFINE t == [v |-> v, m |-> NewTable(v), out |-> snaps[head].disk_hwm, sn |-> head]
<1>1. /\ TypeOK /\ XcowInv /\ OwnL0(v) /\ TakeCluster /\ handle # "none"
      /\ tx' = tx \union {t} /\ handle' = handle
  BY DEF FileInv, BeginTx
<1>2. /\ KeepsList /\ snaps' \in Seq(SnapType) /\ snaps'[head].disk_hwm = snaps[head].disk_hwm + 1
      /\ snaps[head].disk_hwm \in Nat /\ head \in Nat /\ Len(snaps') >= 1 /\ head' = head
  BY <1>1, TakeKeeps, RefType DEF RefsTyped, KeepsList, head
<1>3. /\ NewTable(v) \in Meta /\ NewTable(v) # 0
      /\ Ref(head, l1_off(v))' = encode(NewTable(v), TRUE)
      /\ RefStep(l1_off(v)) /\ LeafStep(l1_off(v), 0, 0, -1)
  BY <1>1, <1>2, OwnStep
<1>4. t \in Tx
  BY <1>2, <1>3 DEF Tx
<1>5. TypeOK'
  BY <1>1, <1>2, <1>4, OwnStep DEF TypeOK, SnapType
<1>6. ASSUME NEW u \in tx' PROVE u.out # -1
  BY <1>5 DEF TypeOK, Tx
<1>7. ASSUME NEW u \in tx', u \notin tx
      PROVE  /\ u = t /\ u.sn = head /\ u.m # 0
             /\ Ref(head, l1_off(u.v))' = encode(u.m, TRUE)
             /\ u.out = snaps[head].disk_hwm /\ u.out < snaps'[head].disk_hwm
  <2>1. u = t
    BY <1>1, <1>7
  <2>2. u.v = v /\ u.m = NewTable(v) /\ u.out = snaps[head].disk_hwm /\ u.sn = head
    BY <2>1
  <2> QED BY <1>2, <1>3, <2>1, <2>2
<1> HIDE DEF t
<1>8. TxStep(-1)
  BY <1>1, <1>6, <1>7 DEF TxStep
<1>9. FileInv'
  BY <1>1, <1>2, <1>3, <1>5, <1>8, WriteStep DEF FileInv
<1> QED BY <1>2, <1>3, <1>8, <1>9, NoStoreFrozen, WriteKeeps DEF StepKeeps

\* A step that stores nothing: transactions may end, metadata clusters may
\* be lost, the handle may change.
LEMMA QuietStep ==
    ASSUME FileInv, UNCHANGED <<root, l0, snaps>>, hwm' \in hwm .. HwmLimit,
           tx' \subseteq tx, handle' \in {"none", "narrow", "wide"},
           handle' = "none" => tx' = {}
    PROVE  FileInv' /\ StepKeeps
<1>1. TypeOK /\ XcowInv /\ KeepsList /\ RefsTyped /\ RootsOwn
  BY SameList, RefType DEF FileInv, XcowInv
<1>2. TypeOK'
  BY LimitAssumption DEF FileInv, TypeOK
<1>3. /\ \A k \in 1 .. head, i \in L1Idx : Ref(k, i)' = Ref(k, i)
      /\ \A k \in 1 .. head, i \in L1Idx, j \in L0Idx : Leaf(k, i, j)' = Leaf(k, i, j)
  BY DEF Ref, Leaf
<1>4. RefStep(0)
  <2>1. hwm \in Nat /\ hwm' \in Nat /\ hwm <= hwm'
    BY <1>1, LimitAssumption DEF TypeOK
  <2> QED BY <2>1, SameRefs
<1>5. LeafStep(0, 0, 0, -1)
  <2>1. \A k \in 1 .. head, i \in L1Idx, j \in L0Idx :
           /\ Cluster(k, i, j)' = Cluster(k, i, j) /\ Wr(k, i, j)' = Wr(k, i, j)
           /\ Cluster(k, i, j) # -1
    BY <1>1, <1>3 DEF Cluster, Wr, valid, RefsTyped
  <2> QED BY <1>3, <2>1 DEF LeafStep
<1>6. TxStep(-1)
  <2>1. \A t \in tx' : t \in tx /\ t.out # -1
    BY <1>1, OutNat
  <2> QED BY <2>1 DEF TxStep
<1>7. FileInv'
  BY <1>1, <1>2, <1>4, <1>5, <1>6, WriteStep DEF FileInv
<1> QED BY <1>1, <1>4, <1>5, <1>6, <1>7, NoStoreFrozen, WriteKeeps DEF StepKeeps

\* tx_write_commit: the table it stores into is seen, at the transaction's
\* root index, by its own snapshot and later ones only.
LEMMA CommitStep == ASSUME FileInv, NEW t \in tx, tx_write_commit(t) PROVE FileInv' /\ StepKeeps
<1>1. /\ TypeOK /\ XcowInv /\ KeepsList /\ RefsTyped /\ RootsOwn /\ t \in Tx
      /\ UNCHANGED <<hwm, root, snaps, handle>> /\ tx' = tx \ {t}
  BY SameList, RefType DEF FileInv, XcowInv, tx_write_commit, TypeOK
<1>2. PICK j0 \in L0Idx : j0 = l0_off(t.v)
  BY <1>1, Indices DEF Tx
<1>3. PICK i0 \in L1Idx : i0 = l1_off(t.v)
  BY <1>1, Indices DEF Tx
<1>4. CASE ~needs_alloc(l0[t.m][j0])
  <2>1. l0' = l0
    BY <1>2, <1>4 DEF tx_write_commit
  <2>2. handle' = "none" => tx' = {}
    BY <1>1 DEF XcowInv, TxOwn
  <2>3. handle' \in {"none", "narrow", "wide"} /\ hwm' \in hwm .. HwmLimit /\ tx' \subseteq tx
    BY <1>1, LimitAssumption DEF TypeOK
  <2> QED BY <1>1, <2>1, <2>2, <2>3, QuietStep
<1>5. CASE needs_alloc(l0[t.m][j0])
  <2>1. l0' = [l0 EXCEPT ![t.m] = [l0[t.m] EXCEPT ![j0] = encode(t.out, TRUE)]]
    BY <1>2, <1>5 DEF tx_write_commit
  <2>2. t.m \in Meta /\ t.out \in Nat /\ encode(t.out, TRUE) \in Entry /\ encode(t.out, TRUE).off = t.out
    BY <1>1 DEF Tx, Entry, encode
  <2>3. /\ l0' \in [Meta -> [L0Idx -> Entry]]
        /\ \A x \in Meta, j \in L0Idx :
              l0'[x][j] = IF x = t.m /\ j = j0 THEN encode(t.out, TRUE) ELSE l0[x][j]
    BY <1>1, <2>1, <2>2 DEF TypeOK
  <2>4. TypeOK'
    BY <1>1, <2>3 DEF TypeOK
  <2>5. \A k \in 1 .. head, i \in L1Idx : Ref(k, i)' = Ref(k, i) /\ Ref(k, i).off \in Meta
    BY <1>1, <1>2 DEF Ref, RefsTyped
  <2>6. RefStep(i0)
    <3>1. hwm \in Nat /\ hwm' \in Nat /\ hwm <= hwm'
      BY <1>1 DEF RefsTyped
    <3> QED BY <1>1, <3>1, SameRefs
  <2>7. /\ t.sn \in 1 .. head /\ Ref(t.sn, i0) = encode(t.m, TRUE) /\ t.m # 0
        /\ 0 < t.out /\ t.out < snaps[t.sn].disk_hwm
        /\ \A k \in 1 .. head, i \in L1Idx, j \in L0Idx : Cluster(k, i, j) # t.out
    BY <1>1, <1>3 DEF XcowInv, TxOwn
  <2>8. ASSUME NEW k \in 1 .. head, NEW i \in L1Idx, Ref(k, i).off = t.m
        PROVE  i = i0 /\ t.out < snaps[k].disk_hwm /\ t.sn <= k
    <3>1. valid(Ref(k, i)) /\ valid(Ref(t.sn, i0)) /\ Ref(t.sn, i0).w /\ Ref(t.sn, i0).off = t.m
      BY <2>7, <2>8 DEF valid, encode
    <3>2. i = i0 /\ ~(k < t.sn)
      <4>1. L0Order /\ t.m \in Int
        BY <1>1, <2>2 DEF XcowInv, Meta
      <4>2. i = i0
        BY <2>7, <2>8, <3>1, <4>1 DEF L0Order
      <4>3. k < t.sn => t.m < t.m
        BY <2>7, <2>8, <3>1, <4>1 DEF L0Order
      <4> QED BY <4>1, <4>2, <4>3
    <3>3. snaps[t.sn].disk_hwm <= snaps[k].disk_hwm
      BY <1>1, <2>7, <3>2 DEF XcowInv, RefBelowHwm
    <3>4. snaps[t.sn].disk_hwm \in Nat /\ snaps[k].disk_hwm \in Nat
      BY <1>1, <2>7 DEF RefsTyped
    <3>5. t.sn <= k
      BY <1>1, <2>7, <3>2 DEF RefsTyped
    <3> QED BY <2>2, <2>7, <3>2, <3>3, <3>4, <3>5
  <2>9. ASSUME NEW k \in 1 .. head, NEW i \in L1Idx, NEW j \in L0Idx
        PROVE  \/ /\ Cluster(k, i, j)' = Cluster(k, i, j)
                  /\ Wr(k, i, j)' => Wr(k, i, j) /\ Ref(k, i)' = Ref(k, i)
               \/ /\ Cluster(k, i, j)' = t.out /\ t.out < snaps'[k].disk_hwm
                  /\ Ref(k, i)'.off = t.m /\ i = i0 /\ j = j0
    <3>1. Leaf(k, i, j)' = IF Ref(k, i).off = t.m /\ j = j0 THEN encode(t.out, TRUE) ELSE Leaf(k, i, j)
      <4>1. Leaf(k, i, j)' = l0'[Ref(k, i).off][j]
        BY <2>5 DEF Leaf
      <4> QED BY <2>3, <2>5, <4>1 DEF Leaf
    <3>2. CASE Ref(k, i).off = t.m /\ j = j0
      BY <1>1, <2>2, <2>5, <2>7, <2>8, <3>1, <3>2 DEF Cluster, valid
    <3>3. CASE ~(Ref(k, i).off = t.m /\ j = j0)
      BY <2>5, <3>1, <3>3 DEF Cluster, Wr, valid
    <3> QED BY <3>2, <3>3
  <2>10. LeafStep(i0, j0, t.m, t.out)
    BY <2>7, <2>9 DEF LeafStep
  <2>11. TxStep(t.out)
    BY <1>1 DEF TxStep, XcowInv, TxOwn
  <2>12. FileInv'
    BY <1>1, <2>4, <2>6, <2>10, <2>11, WriteStep DEF FileInv
  <2>13. Frozen
    <3>1. ASSUME NEW k \in 1 .. head, NEW i \in L1Idx, NEW j \in L0Idx,
                 Cluster(k, i, j)' # Cluster(k, i, j)
          PROVE  \E u \in tx : /\ l1_off(u.v) = i /\ l0_off(u.v) = j /\ u.sn <= k
                              /\ Cluster(k, i, j)' = u.out
      <4>1. Cluster(k, i, j)' = t.out /\ Ref(k, i).off = t.m /\ i = i0 /\ j = j0
        BY <2>5, <2>9, <3>1
      <4>2. t.sn <= k
        BY <2>8, <4>1
      <4> QED BY <1>2, <1>3, <4>1, <4>2
    <3>2. head \in Nat /\ \A k \in 1 .. head - 1 : k \in 1 .. head
      BY <1>1 DEF RefsTyped
    <3> QED BY <3>1, <3>2 DEF Frozen
  <2> QED BY <1>1, <2>6, <2>11, <2>12, <2>13, WriteKeeps DEF StepKeeps
<1> QED BY <1>4, <1>5

\* translate_write: the table it stores into is the newest snapshot's own.
LEMMA TranslateStep == ASSUME FileInv, NEW v \in Vblk, translate_write(v) PROVE FileInv' /\ StepKeeps
<1>1. /\ TypeOK /\ XcowInv /\ TakeCluster /\ KeepsList /\ RefsTyped /\ RootsOwn
      /\ UNCHANGED <<tx, handle>> /\ handle # "none" /\ HwmLimit \in Nat
      /\ snaps' \in Seq(SnapType) /\ snaps'[head].disk_hwm = snaps[head].disk_hwm + 1
  BY TakeKeeps, RefType, LimitAssumption DEF FileInv, XcowInv, translate_write
<1>2. /\ head \in 1 .. head /\ head' = head /\ Len(snaps') >= 1 /\ hwm \in Nat
      /\ snaps[head].disk_hwm \in Nat
  BY <1>1 DEF RefsTyped, KeepsList, head
<1>3. PICK i0 \in L1Idx : i0 = l1_off(v)
  BY Indices
<1>4. PICK j0 \in L0Idx : j0 = l0_off(v)
  BY Indices
<1>5. PICK r \in Entry : r = Ref(head, i0)
  BY <1>1, <1>2 DEF RefsTyped
<1>6. PICK D \in Nat : D = snaps[head].disk_hwm
  BY <1>2
<1>7. r.off \in Meta /\ r.off \in Nat /\ r.off < hwm
  BY <1>1, <1>2, <1>4, <1>5 DEF RefsTyped
<1> DEFINE m  == IF valid(r) /\ r.w THEN r.off ELSE hwm
           t0 == IF ~valid(r) THEN EmptyL0
                 ELSE IF r.w THEN l0[r.off]
                 ELSE [j \in L0Idx |-> ReadOnly(l0[r.off][j])]
<1>8. /\ m = hwm => hwm + 1 <= HwmLimit
      /\ hwm' = IF m = hwm THEN hwm + 1 ELSE hwm
      /\ root' = [root EXCEPT ![snaps[head].root] =
                    [root[snaps[head].root] EXCEPT ![i0] = encode(m, TRUE)]]
      /\ l0' = [l0 EXCEPT ![m] = [t0 EXCEPT ![j0] = encode(D, TRUE)]]
  BY <1>3, <1>4, <1>5, <1>6 DEF translate_write, MetaSpace
<1>9. /\ t0 \in [L0Idx -> Entry]
      /\ \A j \in L0Idx : t0[j].off = Cluster(head, i0, j) /\ (t0[j].w => Wr(head, i0, j) /\ r.w)
  BY <1>5, <1>7 DEF FileInv, TypeOK, ReadOnly, EmptyL0, empty, encode, Entry, Cluster, Leaf, Wr
<1>10. m \in Meta /\ m \in Nat /\ m # 0 /\ encode(m, TRUE) \in Entry /\ encode(m, TRUE).off = m
  <2>1. m \in Nat /\ m # 0
    BY <1>1, <1>2, <1>7 DEF valid, RootsOwn
  <2>2. m \in Meta
    BY <1>1, <1>2, <1>7, <1>8 DEF Meta
  <2> HIDE DEF m
  <2> QED BY <2>1, <2>2 DEF encode, Entry
<1>11. /\ root' \in [Meta -> [L1Idx -> Entry]]
       /\ \A k \in 1 .. head, i \in L1Idx :
             Ref(k, i)' = IF k = head /\ i = i0 THEN encode(m, TRUE) ELSE Ref(k, i)
  <2> HIDE DEF m
  <2> QED BY <1>1, <1>8, <1>10, RootStore
<1>12. \A k \in 1 .. head, i \in L1Idx : Ref(k, i)'.off = m => k = head /\ i = i0
  <2> SUFFICES ASSUME NEW k \in 1 .. head, NEW i \in L1Idx, Ref(k, i)'.off = m, ~(k = head /\ i = i0)
               PROVE  FALSE
    OBVIOUS
  <2>1. Ref(k, i).off = m
    BY <1>11
  <2>2. Ref(k, i).off < hwm /\ Ref(k, i).off \in Nat
    BY <1>1, <1>4 DEF RefsTyped
  <2>3. valid(r) /\ r.w /\ m = r.off
    BY <1>2, <2>1, <2>2
  <2>4. valid(Ref(k, i)) /\ valid(Ref(head, i0)) /\ Ref(head, i0).w /\ Ref(head, i0).off = m
    BY <1>5, <1>10, <2>1, <2>3 DEF valid
  <2> HIDE DEF m
  <2>5. L0Order /\ m \in Nat
    BY <1>1, <1>10 DEF XcowInv
  <2>6. i = i0
    BY <1>2, <2>1, <2>4, <2>5 DEF L0Order
  <2>7. k < head => m < m
    BY <1>2, <2>1, <2>4, <2>5 DEF L0Order
  <2> QED BY <1>2, <2>5, <2>6, <2>7
<1>13. encode(D, TRUE) \in Entry /\ encode(D, TRUE).off = D
  BY DEF encode, Entry
<1>14. /\ l0' \in [Meta -> [L0Idx -> Entry]]
       /\ \A j \in L0Idx : l0'[m][j] = IF j = j0 THEN encode(D, TRUE) ELSE t0[j]
       /\ \A x \in Meta : x # m => l0'[x] = l0[x]
  <2> HIDE DEF m, t0
  <2> QED BY <1>1, <1>8, <1>9, <1>10, <1>13 DEF TypeOK
<1>15. hwm' \in 0 .. HwmLimit /\ hwm' \in Nat /\ hwm <= hwm'
  BY <1>1, <1>2, <1>8 DEF TypeOK
<1>16. TypeOK'
  BY <1>1, <1>2, <1>11, <1>14, <1>15 DEF TypeOK, SnapType
<1>17. RefStep(i0)
  <2>1. ASSUME NEW k \in 1 .. head, NEW i \in L1Idx, Ref(k, i)' # Ref(k, i)
        PROVE  /\ k = head /\ i = i0 /\ hwm' = hwm + 1
               /\ ~(valid(Ref(k, i)) /\ Ref(k, i).w)
               /\ Ref(k, i)' = encode(hwm, TRUE)
    <3>1. k = head /\ i = i0 /\ Ref(k, i)' = encode(m, TRUE) /\ Ref(k, i) = r
      BY <1>5, <1>11, <2>1
    <3>2. ~(valid(r) /\ r.w)
      <4>1. r.w = TRUE => r = encode(r.off, TRUE)
        BY DEF Entry, encode
      <4> QED BY <2>1, <3>1, <4>1
    <3> QED BY <1>8, <3>1, <3>2
  <2> QED BY <1>15, <2>1 DEF RefStep
<1>18. ASSUME NEW k \in 1 .. head, NEW i \in L1Idx, NEW j \in L0Idx
       PROVE  Cluster(k, i, j) # D
  <2>1. Cluster(k, i, j) < snaps[k].disk_hwm /\ snaps[k].disk_hwm <= D
        /\ Cluster(k, i, j) \in Nat /\ snaps[k].disk_hwm \in Nat
    BY <1>1, <1>2, <1>6 DEF XcowInv, RefBelowHwm, RefsTyped
  <2> QED BY <2>1
<1>19. ASSUME NEW k \in 1 .. head, NEW i \in L1Idx, NEW j \in L0Idx
       PROVE  \/ /\ Cluster(k, i, j)' = Cluster(k, i, j)
                 /\ Wr(k, i, j)' => Wr(k, i, j) /\ Ref(k, i)' = Ref(k, i)
              \/ /\ Cluster(k, i, j)' = D /\ D < snaps'[k].disk_hwm
                 /\ Ref(k, i)'.off = m /\ i = i0 /\ j = j0
  <2>1. CASE k = head /\ i = i0 /\ j = j0
    <3>1. Ref(k, i)' = encode(m, TRUE) /\ Ref(k, i)'.off = m /\ valid(Ref(k, i)')
      BY <1>10, <1>11, <2>1 DEF valid
    <3>2. Leaf(k, i, j)' = encode(D, TRUE)
      BY <1>14, <2>1, <3>1 DEF Leaf
    <3>3. Cluster(k, i, j)' = D
      BY <1>13, <3>1, <3>2 DEF Cluster, valid
    <3>4. D < snaps'[head].disk_hwm
      BY <1>1, <1>6
    <3> QED BY <2>1, <3>1, <3>3, <3>4
  <2>2. CASE k = head /\ i = i0 /\ j # j0
    <3>1. Ref(k, i)' = encode(m, TRUE) /\ Ref(k, i)'.off = m /\ valid(Ref(k, i)')
      BY <1>10, <1>11, <2>2 DEF valid
    <3>2. Leaf(k, i, j)' = t0[j]
      BY <1>14, <2>2, <3>1 DEF Leaf
    <3>3. Cluster(k, i, j)' = Cluster(k, i, j)
      BY <1>9, <2>2, <3>1, <3>2 DEF Cluster, valid
    <3>4. ASSUME Wr(k, i, j)' PROVE Wr(k, i, j) /\ Ref(k, i)' = Ref(k, i)
      <4>1. t0[j].w
        BY <3>2, <3>4 DEF Wr
      <4>2. Wr(head, i0, j) /\ r.w /\ valid(r)
        BY <1>5, <1>9, <4>1 DEF Wr
      <4>3. r = encode(r.off, TRUE) /\ m = r.off
        BY <4>2 DEF Entry, encode
      <4> QED BY <1>5, <2>2, <3>1, <4>2, <4>3
    <3> QED BY <3>3, <3>4
  <2>3. CASE ~(k = head /\ i = i0)
    <3>1. Ref(k, i)' = Ref(k, i) /\ Ref(k, i).off # m /\ Ref(k, i).off \in Meta
      BY <1>1, <1>11, <1>12, <2>3 DEF RefsTyped
    <3>2. Leaf(k, i, j)' = Leaf(k, i, j)
      BY <1>14, <3>1 DEF Leaf
    <3> QED BY <3>1, <3>2 DEF Cluster, Wr, valid
  <2> QED BY <2>1, <2>2, <2>3
<1> HIDE DEF m
<1>20. LeafStep(i0, j0, m, D)
  BY <1>18, <1>19 DEF LeafStep
<1>21. TxStep(D)
  <2>1. ASSUME NEW t \in tx PROVE t.out # D
    <3>0. t.sn \in 1 .. head /\ t.out < snaps[t.sn].disk_hwm
      BY <1>1 DEF XcowInv, TxOwn
    <3>1. snaps[t.sn].disk_hwm <= D
      BY <1>1, <1>2, <1>6, <3>0 DEF XcowInv, RefBelowHwm
    <3>2. t.out \in Nat /\ snaps[t.sn].disk_hwm \in Nat
      BY <1>1, <3>0 DEF TypeOK, Tx, RefsTyped
    <3> QED BY <3>0, <3>1, <3>2
  <2> QED BY <1>1, <2>1 DEF TxStep
<1>22. FileInv'
  BY <1>1, <1>16, <1>17, <1>20, <1>21, WriteStep DEF FileInv
<1>23. Frozen
  <2>1. \A k \in 1 .. head - 1 : k \in 1 .. head /\ k # head
    BY <1>2
  <2> QED BY <1>12, <1>19, <2>1 DEF Frozen
<1> QED BY <1>1, <1>17, <1>21, <1>22, <1>23, WriteKeeps DEF StepKeeps

\* open_read finds a snapshot of the list, or none.
LEMMA OpenRead ==
    ASSUME TypeOK, NEW snapi \in 0 .. head - 1
    PROVE  open_read(snapi) \in 0 .. head
<1>1. head \in Nat /\ head >= 1 /\ TableCap \in Nat /\ TableCap >= 1
  BY RefType, SizeAssumption DEF RefsTyped
<1>2. ASSUME NEW a \in Nat PROVE (a % TableCap) \in Nat /\ (a % TableCap) <= a
  <2>1. PICK p \in Nat : p = TableCap * (a \div TableCap)
    BY <1>1, DivMod
  <2>2. a = p + (a % TableCap) /\ (a % TableCap) \in Nat
    BY <1>1, <2>1, DivMod
  <2> QED BY <2>2
<1>3. PICK n \in Nat : n = 1 + ((head - 1) % TableCap)
  <2>1. head - 1 \in Nat
    BY <1>1
  <2> QED BY <1>2, <2>1
<1>4. n >= 1 /\ n <= head
  <2>1. head - 1 \in Nat
    BY <1>1
  <2> QED BY <1>1, <1>2, <1>3, <2>1
<1>5. CASE snapi < n
  <2>1. open_read(snapi) = head - snapi
    BY <1>3, <1>5 DEF open_read, head
  <2> QED BY <1>1, <2>1
<1>6. CASE ~(snapi < n)
  <2>1. snapi - n \in Nat
    BY <1>3, <1>6
  <2>2. PICK over \in Nat : over = (snapi - n) % TableCap /\ over <= snapi - n
    BY <1>2, <2>1
  <2>3. open_read(snapi) = 0 \/ open_read(snapi) = head - n - over
    BY <1>3, <1>6, <2>2 DEF open_read, head
  <2> QED BY <1>1, <1>4, <2>2, <2>3
<1> QED BY <1>5, <1>6

\* snap_create: the new snapshot holds nothing its source does not hold.
LEMMA SnapStep ==
    ASSUME FileInv, NEW k0 \in 1 .. head, NEW h, SnapCreate(k0, h),
           handle' \in {"none", "narrow", "wide"}, handle' = "none" => tx = {}
    PROVE  /\ FileInv' /\ StepKeeps
           /\ head' = head + 1
           /\ \A i \in L1Idx, j \in L0Idx :
                 Spanned(h, i) => Cluster(head, i, j)' = Cluster(k0, i, j)
<1>1. /\ TypeOK /\ XcowInv /\ RefsTyped /\ RootsOwn /\ HwmLimit \in Nat
      /\ head \in Nat /\ head >= 1 /\ head \in 1 .. head /\ hwm \in Nat
      /\ snaps[head].disk_hwm \in Nat /\ snaps \in Seq(SnapType)
      /\ UNCHANGED <<l0, tx>> /\ l1_clusters \in Nat /\ l1_clusters >= 1
  BY RefType, LimitAssumption, Sizes DEF FileInv, XcowInv, RefsTyped, SnapCreate, TypeOK, SnapType
<1>0. PICK n \in Nat : n = head + 1
  BY <1>1
<1>2. hwm' \in Nat /\ hwm < hwm' /\ hwm' <= HwmLimit /\ hwm' \in 0 .. HwmLimit /\ hwm \in Meta
  BY <1>1 DEF SnapCreate, MetaSpace, Meta
<1>3. PICK e \in SnapType : e.root = hwm /\ e.disk_hwm = snaps[head].disk_hwm /\ snaps' = Append(snaps, e)
  BY <1>1, <1>2 DEF SnapCreate, SnapEntry, SnapType
<1>4. /\ snaps' \in Seq(SnapType) /\ head' = n /\ Len(snaps') >= 1
      /\ snaps'[n] = e /\ \A k \in 1 .. head : snaps'[k] = snaps[k]
  BY <1>0, <1>1, <1>3 DEF head
<1>5. PICK R \in [L1Idx -> Entry] : /\ root' = [root EXCEPT ![hwm] = R]
                                    /\ \A i \in L1Idx : \/ R[i] = empty /\ ~Spanned(h, i)
                                                       \/ R[i] = ReadOnly(Ref(k0, i))
  <2>1. SnapRoot(k0, h) \in [L1Idx -> Entry]
    BY <1>1 DEF SnapRoot, RefsTyped, Entry, ReadOnly, encode, empty
  <2> QED BY <2>1 DEF SnapCreate, SnapRoot
<1>6. root' \in [Meta -> [L1Idx -> Entry]] /\ root'[hwm] = R
      /\ \A x \in Meta : x # hwm => root'[x] = root[x]
  BY <1>1, <1>2, <1>5 DEF TypeOK
<1>7. TypeOK'
  BY <1>1, <1>2, <1>4, <1>6 DEF TypeOK, SnapType
<1>8. ASSUME NEW k \in 1 .. head, NEW i \in L1Idx, NEW j \in L0Idx
      PROVE  /\ Ref(k, i)' = Ref(k, i) /\ Leaf(k, i, j)' = Leaf(k, i, j)
             /\ Cluster(k, i, j)' = Cluster(k, i, j) /\ (Wr(k, i, j)' <=> Wr(k, i, j))
  <2>1. snaps[k].root \in Meta /\ snaps[k].root # hwm
    BY <1>1 DEF RefsTyped, RootsOwn
  <2>2. Ref(k, i)' = Ref(k, i)
    BY <1>4, <1>6, <2>1 DEF Ref
  <2>3. Leaf(k, i, j)' = Leaf(k, i, j)
    BY <1>1, <2>2 DEF Leaf
  <2> QED BY <2>2, <2>3 DEF Cluster, Wr, valid
<1>9. ASSUME NEW i \in L1Idx, NEW j \in L0Idx
      PROVE  /\ ~Ref(n, i)'.w /\ (Ref(n, i)'.off = 0 \/ Ref(n, i)'.off = Ref(k0, i).off)
             /\ Cluster(n, i, j)' = 0 \/ Cluster(n, i, j)' = Cluster(k0, i, j)
             /\ Cluster(n, i, j)' # 0 =>
                   Ref(n, i)'.off = Ref(k0, i).off /\ (Wr(n, i, j)' => Wr(k0, i, j))
             /\ Spanned(h, i) => Cluster(n, i, j)' = Cluster(k0, i, j)
  <2>1. Ref(n, i)' = R[i]
    BY <1>3, <1>4, <1>6 DEF Ref
  <2>2. CASE R[i] = empty /\ ~Spanned(h, i)
    BY <2>1, <2>2 DEF empty, encode, Cluster, valid
  <2>3. CASE R[i] = ReadOnly(Ref(k0, i))
    <3>1. Ref(n, i)'.off = Ref(k0, i).off /\ ~Ref(n, i)'.w
      BY <2>1, <2>3 DEF ReadOnly, encode
    <3>2. Leaf(n, i, j)' = Leaf(k0, i, j)
      BY <1>1, <3>1 DEF Leaf
    <3> QED BY <3>1, <3>2 DEF Cluster, Wr, valid
  <2> QED BY <1>5, <2>2, <2>3
<1>10. \A k \in 1 .. n : k = n \/ k \in 1 .. head
  BY <1>0, <1>1
<1>11. 0 \in L0Idx /\ 0 \in L1Idx /\ n \in 1 .. n /\ n \in Nat
  BY <1>0, <1>1, Sizes, SizeAssumption DEF L0Idx, L1Idx
<1>12. \A i \in L1Idx : ~Ref(n, i)'.w /\ (Ref(n, i)'.off = 0 \/ Ref(n, i)'.off = Ref(k0, i).off)
  BY <1>9, <1>11
<1>13. \A k \in 1 .. head, i \in L1Idx : Ref(k, i)' = Ref(k, i) /\ Ref(k, i).off \in Nat /\ Ref(k, i).off < hwm
  BY <1>1, <1>8, <1>11 DEF RefsTyped
<1>14. RootsOwn'
  <2>1. \A k \in 1 .. n : snaps'[k].root < hwm'
    <3>1. \A k \in 1 .. head : snaps[k].root \in Nat /\ snaps[k].root < hwm
      BY <1>1 DEF RootsOwn, RefsTyped
    <3>2. ASSUME NEW k \in 1 .. head PROVE snaps'[k].root < hwm'
      <4>1. snaps'[k] = snaps[k] /\ hwm \in Nat /\ hwm' \in Nat /\ hwm < hwm'
        BY <1>1, <1>2, <1>4
      <4>2. \A x, y, z \in Nat : x < y /\ y < z => x < z
        OBVIOUS
      <4> QED BY <3>1, <4>1, <4>2
    <3>3. snaps'[n].root < hwm'
      BY <1>2, <1>3, <1>4
    <3> QED BY <1>10, <3>2, <3>3
  <2>2. \A k1, k2 \in 1 .. n : snaps'[k1].root = snaps'[k2].root => k1 = k2
    <3>1. \A k \in 1 .. head : snaps'[k].root = snaps[k].root /\ snaps[k].root # hwm
      BY <1>1, <1>4 DEF RootsOwn, RefsTyped
    <3>2. snaps'[n].root = hwm
      BY <1>3, <1>4
    <3> QED BY <1>1, <1>10, <3>1, <3>2 DEF RootsOwn
  <2>3. \A k \in 1 .. n, i \in L1Idx : Ref(k, i)'.off < hwm'
    <3>1. \A i \in L1Idx : Ref(n, i)'.off < hwm'
      BY <1>1, <1>2, <1>12, <1>13
    <3>2. \A k \in 1 .. head, i \in L1Idx : Ref(k, i)'.off < hwm'
      BY <1>1, <1>2, <1>13
    <3> QED BY <1>10, <3>1, <3>2
  <2>4. 1 <= hwm'
    BY <1>1, <1>2
  <2> QED BY <1>4, <2>1, <2>2, <2>3, <2>4 DEF RootsOwn
<1>15. L0Order'
  <2> SUFFICES ASSUME NEW k1 \in 1 .. n, NEW k2 \in 1 .. n, NEW i1 \in L1Idx, NEW i2 \in L1Idx,
                      valid(Ref(k1, i1)'), valid(Ref(k2, i2)')
               PROVE  /\ Ref(k1, i1)'.off = Ref(k2, i2)'.off => i1 = i2
                      /\ k1 < k2 /\ Ref(k2, i2)'.w => Ref(k1, i1)'.off < Ref(k2, i2)'.off
    BY <1>4 DEF L0Order, valid
  <2>1. PICK s1 \in 1 .. head : Ref(k1, i1)'.off = Ref(s1, i1).off /\ (k1 \in 1 .. head => s1 = k1)
    BY <1>1, <1>10, <1>11, <1>12, <1>13 DEF valid
  <2>2. PICK s2 \in 1 .. head : Ref(k2, i2)'.off = Ref(s2, i2).off /\ (k2 \in 1 .. head => s2 = k2)
    BY <1>1, <1>10, <1>11, <1>12, <1>13 DEF valid
  <2>3. L0Order /\ valid(Ref(s1, i1)) /\ valid(Ref(s2, i2))
    BY <1>1, <2>1, <2>2 DEF XcowInv, valid
  <2>4. Ref(k1, i1)'.off = Ref(k2, i2)'.off => i1 = i2
    BY <2>1, <2>2, <2>3 DEF L0Order
  <2>5. ASSUME k1 < k2, Ref(k2, i2)'.w PROVE Ref(k1, i1)'.off < Ref(k2, i2)'.off
    <3>1. k2 \in 1 .. head
      BY <1>10, <1>12, <2>5
    <3>2. k1 \in 1 .. head
      BY <1>1, <2>5, <3>1
    <3>3. Ref(k2, i2).w /\ s1 = k1 /\ s2 = k2
      BY <1>13, <2>1, <2>2, <2>5, <3>1, <3>2
    <3> QED BY <2>1, <2>2, <2>3, <2>5, <3>3 DEF L0Order
  <2> QED BY <2>4, <2>5
<1>16. LeafOrigin'
  <2>1. Origin
    BY <1>1, OriginIff DEF XcowInv
  <2>2. ASSUME NEW k \in 1 .. n, NEW i \in L1Idx, NEW j \in L0Idx, Cluster(k, i, j)' # 0
        PROVE  \E s \in 1 .. head : /\ Cluster(k, i, j)' = Cluster(s, i, j)
                                    /\ Ref(k, i)'.off = Ref(s, i).off
                                    /\ Wr(k, i, j)' => Wr(s, i, j)
    BY <1>8, <1>9, <1>10, <2>2
  <2> SUFFICES ASSUME NEW k1 \in 1 .. n, NEW k2 \in 1 .. n, NEW i1 \in L1Idx, NEW i2 \in L1Idx,
                      NEW j1 \in L0Idx, NEW j2 \in L0Idx,
                      Cluster(k1, i1, j1)' # 0, Cluster(k1, i1, j1)' = Cluster(k2, i2, j2)'
               PROVE /\ i1 = i2 /\ j1 = j2
                     /\ Wr(k1, i1, j1)' => Ref(k1, i1)'.off <= Ref(k2, i2)'.off
    BY <1>4, OriginIff DEF Origin
  <2>3. PICK s1 \in 1 .. head : /\ Cluster(k1, i1, j1)' = Cluster(s1, i1, j1)
                                /\ Ref(k1, i1)'.off = Ref(s1, i1).off
                                /\ Wr(k1, i1, j1)' => Wr(s1, i1, j1)
    BY <2>2
  <2>4. PICK s2 \in 1 .. head : /\ Cluster(k2, i2, j2)' = Cluster(s2, i2, j2)
                                /\ Ref(k2, i2)'.off = Ref(s2, i2).off
    BY <2>2
  <2>5. Cluster(s1, i1, j1) # 0 /\ Cluster(s1, i1, j1) = Cluster(s2, i2, j2)
    BY <2>3, <2>4
  <2>6. i1 = i2 /\ j1 = j2 /\ (Wr(s1, i1, j1) => Ref(s1, i1).off <= Ref(s2, i2).off)
    BY <2>1, <2>5 DEF Origin
  <2> QED BY <2>3, <2>4, <2>6
<1>17. RefBelowHwm'
  <2>1. ASSUME NEW k \in 1 .. n, NEW i \in L1Idx, NEW j \in L0Idx
        PROVE  Cluster(k, i, j)' < snaps'[k].disk_hwm
    <3>1. CASE k \in 1 .. head
      BY <1>1, <1>4, <1>8, <3>1 DEF XcowInv, RefBelowHwm
    <3>2. CASE k = n
      <4>1. snaps'[k].disk_hwm = snaps[head].disk_hwm
        BY <1>3, <1>4, <3>2
      <4>2. /\ Cluster(k0, i, j) < snaps[k0].disk_hwm /\ snaps[k0].disk_hwm <= snaps[head].disk_hwm
            /\ Cluster(k0, i, j) \in Nat /\ snaps[k0].disk_hwm \in Nat
        BY <1>1 DEF XcowInv, RefBelowHwm, RefsTyped
      <4>3. Cluster(k, i, j)' = 0 \/ Cluster(k, i, j)' = Cluster(k0, i, j)
        BY <1>9, <3>2
      <4> QED BY <1>1, <4>1, <4>2, <4>3
    <3> QED BY <1>10, <3>1, <3>2
  <2>2. ASSUME NEW k1 \in 1 .. n, NEW k2 \in 1 .. n, k1 <= k2
        PROVE  snaps'[k1].disk_hwm <= snaps'[k2].disk_hwm
    <3>1. CASE k2 \in 1 .. head
      <4>1. k1 \in 1 .. head
        BY <1>1, <2>2, <3>1
      <4> QED BY <1>1, <1>4, <2>2, <3>1, <4>1 DEF XcowInv, RefBelowHwm
    <3>2. CASE k2 = n
      <4>1. snaps'[k2].disk_hwm = snaps[head].disk_hwm
        BY <1>3, <1>4, <3>2
      <4>2. CASE k1 = n
        BY <1>1, <3>2, <4>1, <4>2
      <4>3. CASE k1 \in 1 .. head
        BY <1>1, <1>4, <4>1, <4>3 DEF XcowInv, RefBelowHwm
      <4> QED BY <1>10, <4>2, <4>3
    <3> QED BY <1>10, <3>1, <3>2
  <2> QED BY <1>4, <2>1, <2>2 DEF RefBelowHwm
<1>18. TxOwn'
  <2>1. ASSUME NEW t \in tx
        PROVE  /\ t.sn \in 1 .. n
               /\ t.m # 0 /\ Ref(t.sn, l1_off(t.v))' = encode(t.m, TRUE)
               /\ 0 < t.out /\ t.out < snaps'[t.sn].disk_hwm
               /\ \A k \in 1 .. n, i \in L1Idx, j \in L0Idx : Cluster(k, i, j)' # t.out
    <3>1. /\ t.sn \in 1 .. head
          /\ t.m # 0 /\ Ref(t.sn, l1_off(t.v)) = encode(t.m, TRUE)
          /\ 0 < t.out /\ t.out < snaps[t.sn].disk_hwm
          /\ \A k \in 1 .. head, i \in L1Idx, j \in L0Idx : Cluster(k, i, j) # t.out
      BY <1>1 DEF XcowInv, TxOwn
    <3>2. PICK i0 \in L1Idx : i0 = l1_off(t.v)
      BY <1>1, Indices DEF TypeOK, Tx
    <3>3. Ref(t.sn, i0)' = Ref(t.sn, i0)
      BY <1>13, <3>1
    <3>4. t.sn \in 1 .. n
      BY <1>0, <1>1, <3>1
    <3>5. ASSUME NEW k \in 1 .. n, NEW i \in L1Idx, NEW j \in L0Idx PROVE Cluster(k, i, j)' # t.out
      BY <1>8, <1>9, <1>10, <3>1
    <3> QED BY <1>4, <3>1, <3>2, <3>3, <3>4, <3>5
  <2>2. \A t, u \in tx : t.out = u.out => t = u
    BY <1>1 DEF XcowInv, TxOwn
  <2> QED BY <1>1, <1>4, <2>1, <2>2 DEF TxOwn
<1>19. FileInv'
  BY <1>7, <1>14, <1>15, <1>16, <1>17, <1>18 DEF FileInv, XcowInv
<1>20. Frozen
  <2>1. \A k \in 1 .. head - 1 : k \in 1 .. head
    BY <1>1
  <2> QED BY <1>8, <2>1 DEF Frozen
<1>21. \A i \in L1Idx, j \in L0Idx : Spanned(h, i) => Cluster(head, i, j)' = Cluster(k0, i, j)
  BY <1>4, <1>9
<1>22. TablesKept
  <2>1. snaps'[Len(snaps')].disk_hwm = snaps[Len(snaps)].disk_hwm /\ snaps[Len(snaps)].disk_hwm \in Nat
    BY <1>1, <1>3, <1>4 DEF head
  <2>2. snaps[Len(snaps)].disk_hwm <= snaps'[Len(snaps')].disk_hwm
    BY <2>1
  <2>3. tx' = tx
    BY <1>1
  <2> QED BY <1>13, <2>2, <2>3 DEF TablesKept
<1> QED BY <1>0, <1>4, <1>19, <1>20, <1>21, <1>22 DEF StepKeeps

\* peel: nothing but the newest snapshot goes, and no transaction is in
\* flight.
LEMMA PeelStep == ASSUME FileInv, peel PROVE FileInv' /\ StepKeeps
<1>1. /\ TypeOK /\ XcowInv /\ tx = {} /\ Len(snaps) > 1
      /\ UNCHANGED <<hwm, root, l0, tx, handle>> /\ snaps \in Seq(SnapType)
      /\ snaps' = SubSeq(snaps, 1, Len(snaps) - 1)
  BY DEF FileInv, XcowInv, TxOwn, peel, TypeOK, SnapType
<1>2. PICK n \in Nat : n = head - 1 /\ n >= 1 /\ head \in Nat
  BY <1>1 DEF head
<1>3. snaps' \in Seq(SnapType) /\ Len(snaps') = n /\ \A k \in 1 .. n : snaps'[k] = snaps[k]
  BY <1>1, <1>2 DEF head
<1>4. head' = n /\ \A k \in 1 .. n : k \in 1 .. head
  BY <1>2, <1>3 DEF head
<1>5. \A k \in 1 .. n, i \in L1Idx : Ref(k, i)' = Ref(k, i)
  BY <1>1, <1>3 DEF Ref
<1>6. \A k \in 1 .. n, i \in L1Idx, j \in L0Idx :
         Leaf(k, i, j)' = Leaf(k, i, j) /\ Cluster(k, i, j)' = Cluster(k, i, j)
  BY <1>1, <1>5 DEF Leaf, Cluster, valid
<1>7. TypeOK'
  BY <1>1, <1>2, <1>3 DEF TypeOK, SnapType
<1>8. RootsOwn'
  <2>1. RootsOwn /\ hwm' = hwm
    BY <1>1 DEF XcowInv
  <2>2. \A k \in 1 .. n : snaps'[k].root < hwm
    BY <1>3, <1>4, <2>1 DEF RootsOwn
  <2>3. \A k1, k2 \in 1 .. n : snaps'[k1].root = snaps'[k2].root => k1 = k2
    BY <1>3, <1>4, <2>1 DEF RootsOwn
  <2>4. \A k \in 1 .. n, i \in L1Idx : Ref(k, i)'.off < hwm
    BY <1>4, <1>5, <2>1 DEF RootsOwn
  <2> QED BY <1>4, <2>1, <2>2, <2>3, <2>4 DEF RootsOwn
<1>9. L0Order'
  BY <1>1, <1>4, <1>5 DEF XcowInv, L0Order, valid
<1>10. LeafOrigin'
  BY <1>1, <1>4, <1>5, <1>6 DEF XcowInv, LeafOrigin, valid
<1>11. RefBelowHwm'
  <2>1. RefBelowHwm
    BY <1>1 DEF XcowInv
  <2>2. \A k \in 1 .. n, i \in L1Idx, j \in L0Idx : Cluster(k, i, j)' < snaps'[k].disk_hwm
    BY <1>3, <1>4, <1>6, <2>1 DEF RefBelowHwm
  <2>3. \A k1, k2 \in 1 .. n : k1 <= k2 => snaps'[k1].disk_hwm <= snaps'[k2].disk_hwm
    BY <1>3, <1>4, <2>1 DEF RefBelowHwm
  <2> QED BY <1>4, <2>2, <2>3 DEF RefBelowHwm
<1>12. TxOwn'
  BY <1>1 DEF TxOwn
<1>13. FileInv'
  BY <1>7, <1>8, <1>9, <1>10, <1>11, <1>12 DEF FileInv, XcowInv
<1>14. Frozen
  BY <1>2, <1>6 DEF Frozen
<1>15. TablesKept
  <2>1. ~(Len(snaps) <= Len(snaps')) /\ \A k \in 1 .. head : k <= Len(snaps') => k \in 1 .. n
    BY <1>2, <1>3 DEF head
  <2> QED BY <1>1, <1>5, <2>1 DEF TablesKept
<1> QED BY <1>13, <1>14, <1>15 DEF StepKeeps

\* A formatted file, whoever has it open.
LEMMA FileFormatted ==
    ASSUME hwm = FormatHwm, root = [m \in Meta |-> EmptyRoot], l0 = [m \in Meta |-> EmptyL0],
           snaps = <<SnapEntry(3, 1)>>, tx = {}, handle \in {"none", "narrow", "wide"}
    PROVE  FileInv
<1>1. /\ l1_clusters \in Nat /\ l1_clusters >= 1 /\ HwmLimit \in Nat /\ HwmLimit >= 3 + l1_clusters
      /\ FormatHwm = 3 + l1_clusters
  BY Sizes, LimitAssumption DEF FormatHwm
<1>2. hwm \in Nat /\ hwm >= 4 /\ hwm <= HwmLimit /\ 3 \in Meta
  BY <1>1 DEF Meta
<1>3. empty \in Entry /\ empty.off = 0 /\ empty.w = FALSE
  BY DEF empty, encode, Entry
<1>4. SnapEntry(3, 1) \in SnapType /\ SnapEntry(3, 1).root = 3 /\ SnapEntry(3, 1).disk_hwm = 1
  BY <1>2 DEF SnapEntry, SnapType
<1>5. snaps \in Seq(SnapType) /\ Len(snaps) = 1 /\ snaps[1] = SnapEntry(3, 1) /\ head = 1
  BY <1>4 DEF head
<1>6. TypeOK
  BY <1>2, <1>3, <1>5 DEF TypeOK, SnapType, EmptyRoot, EmptyL0
<1>7. \A k \in 1 .. head, i \in L1Idx : k = 1 /\ Ref(k, i) = empty
  BY <1>2, <1>4, <1>5 DEF Ref, EmptyRoot
<1>8. \A k \in 1 .. head, i \in L1Idx, j \in L0Idx : ~valid(Ref(k, i)) /\ Cluster(k, i, j) = 0
  BY <1>3, <1>7 DEF Cluster, valid
<1>9. RootsOwn
  BY <1>2, <1>3, <1>4, <1>5, <1>7 DEF RootsOwn
<1>10. 0 \in L0Idx
  BY SizeAssumption DEF L0Idx
<1>11. L0Order /\ LeafOrigin
  BY <1>8, <1>10 DEF L0Order, LeafOrigin
<1>12. RefBelowHwm
  BY <1>4, <1>5, <1>8 DEF RefBelowHwm
<1>13. TxOwn
  BY DEF TxOwn
<1> QED BY <1>6, <1>9, <1>11, <1>12, <1>13 DEF FileInv, XcowInv

\* xcowctl format leaves such a file.
LEMMA FileInit == Init => FileInv
  BY FileFormatted DEF Init

(***************************************************************************)
(* The theorems.                                                           *)
(***************************************************************************)

\* Every step of the UIF and of xcowctl keeps the invariant.
LEMMA FileNext == FileInv /\ [Next]_vars => FileInv' /\ StepKeeps
<1> SUFFICES ASSUME FileInv, [Next]_vars PROVE FileInv' /\ StepKeeps
  OBVIOUS
<1>0. /\ hwm \in Nat /\ hwm \in hwm .. HwmLimit /\ HwmLimit \in Nat
      /\ handle \in {"none", "narrow", "wide"} /\ (handle = "none" => tx = {})
      /\ l1_clusters \in Nat
  BY LimitAssumption, Sizes DEF FileInv, XcowInv, TypeOK, TxOwn
<1>1. ASSUME NEW v \in Vblk, tx_write_prep(v) PROVE FileInv' /\ StepKeeps
  BY <1>1, PrepStep
<1>2. ASSUME NEW v \in Vblk, BeginTx(v) PROVE FileInv' /\ StepKeeps
  BY <1>2, BeginStep
<1>3. ASSUME NEW v \in Vblk, translate_write(v) PROVE FileInv' /\ StepKeeps
  BY <1>3, TranslateStep
<1>4. ASSUME NEW t \in tx, tx_write_commit(t) PROVE FileInv' /\ StepKeeps
  BY <1>4, CommitStep
<1>5. ASSUME NEW t \in tx, Abort(t) PROVE FileInv' /\ StepKeeps
  BY <1>0, <1>5, QuietStep DEF Abort
<1>6. CASE snap_create
  <2>1. head \in 1 .. head
    BY RefType DEF FileInv, RefsTyped
  <2> QED BY <1>6, <2>1, SnapStep DEF snap_create
<1>7. ASSUME NEW snapi \in 0 .. head - 1, snap_create_from(snapi) PROVE FileInv' /\ StepKeeps
  <2>1. PICK k0 \in 1 .. head : k0 = open_read(snapi)
    BY <1>7, OpenRead, RefType DEF FileInv, RefsTyped, snap_create_from
  <2> QED BY <1>0, <1>7, <2>1, SnapStep DEF snap_create_from
<1>8. CASE SnapCreateThrows
  <2>1. hwm' \in hwm .. HwmLimit
    BY <1>0, <1>8 DEF SnapCreateThrows, MetaSpace
  <2> QED BY <1>0, <1>8, <2>1, QuietStep DEF SnapCreateThrows
<1>9. CASE peel
  BY <1>9, PeelStep
<1>10. CASE open_write
  BY <1>0, <1>10, QuietStep DEF open_write
<1>11. CASE Crash
  <2>1. hwm' \in hwm .. HwmLimit
    BY <1>0, <1>11 DEF Crash
  <2> QED BY <1>0, <1>11, <2>1, QuietStep DEF Crash
<1>12. CASE UNCHANGED vars
  BY <1>0, <1>12, QuietStep DEF vars
<1> QED
  BY <1>1, <1>2, <1>3, <1>4, <1>5, <1>6, <1>7, <1>8, <1>9, <1>10, <1>11, <1>12 DEF Next

\* Types, through every write, snapshot, peel, crash and restart: no step
\* reaches outside the map file.
THEOREM TypeCorrect == Spec => []TypeOK
  BY FileInit, FileNext, PTL DEF Spec, FileInv

\* XcowInv is an invariant: leaf tables and clusters have one address, and
\* what is writable belongs to the oldest snapshot that has it.
THEOREM FileInvariant == Spec => []XcowInv
  BY FileInit, FileNext, PTL DEF Spec, FileInv

\* What is writable belongs to one snapshot and one address.
LEMMA Exclusive == FileInv => WriteExclusive
<1> SUFFICES ASSUME FileInv PROVE WriteExclusive
  OBVIOUS
<1>1. Origin /\ L0Order /\ RefsTyped /\ RootsOwn /\ TxOwn /\ head \in Nat /\ head \in 1 .. head
  BY OriginIff, RefType DEF FileInv, XcowInv, RefsTyped
<1>2. ASSUME NEW i \in L1Idx, NEW j \in L0Idx, Writable(i, j),
             NEW k \in 1 .. head, NEW i2 \in L1Idx, NEW j2 \in L0Idx,
             Cluster(k, i2, j2) = Cluster(head, i, j)
      PROVE  k = head /\ i2 = i /\ j2 = j
  <2>1. Cluster(head, i, j) # 0 /\ Wr(head, i, j) /\ valid(Ref(head, i)) /\ Ref(head, i).w
    BY <1>2 DEF Writable, Cluster, Wr, valid
  <2>2. i2 = i /\ j2 = j /\ Ref(head, i).off <= Ref(k, i2).off
    BY <1>1, <1>2, <2>1 DEF Origin
  <2>3. valid(Ref(k, i2))
    BY <1>2, <2>1 DEF Cluster
  <2>4. k < head => Ref(k, i2).off < Ref(head, i).off
    BY <1>1, <2>1, <2>3 DEF L0Order
  <2>5. Ref(k, i2).off \in Nat /\ Ref(head, i).off \in Nat
    BY <1>1 DEF RefsTyped
  <2> QED BY <1>1, <2>2, <2>4, <2>5
<1>3. \A t \in tx : \A k \in 1 .. head, i \in L1Idx, j \in L0Idx : Cluster(k, i, j) # t.out
  BY <1>1 DEF TxOwn
<1>4. \A t, u \in tx : t.out = u.out => t = u
  BY <1>1 DEF TxOwn
<1> QED BY <1>2, <1>3, <1>4 DEF WriteExclusive

\* A cluster the guest may write directly is held by no older snapshot and
\* for no other address, whatever is in flight.
THEOREM WriteExclusiveHolds == Spec => []WriteExclusive
  BY Exclusive, FileInit, FileNext, PTL DEF Spec

\* What a superseded snapshot translates to changes only by the commit of a
\* transaction begun while that snapshot, or one below it, was the newest.
THEOREM FrozenSnapshotsHolds == Spec => FrozenSnapshots
<1> DEFINE A == \A k \in 1 .. Len(snaps) - 1, v \in Vblk :
                  k <= Len(snaps') =>
                     \/ translate_read(k, v)'.off = translate_read(k, v).off
                     \/ \E t \in tx : t.v = v /\ t.sn <= k /\ translate_read(k, v)'.off = t.out
<1>1. FileInv /\ [Next]_vars => A
  <2> SUFFICES ASSUME FileInv, Frozen, NEW k \in 1 .. Len(snaps) - 1, NEW v \in Vblk, k <= Len(snaps')
               PROVE  \/ translate_read(k, v)'.off = translate_read(k, v).off
                      \/ \E t \in tx : t.v = v /\ t.sn <= k /\ translate_read(k, v)'.off = t.out
    BY FileNext DEF StepKeeps
  <2>1. PICK i \in L1Idx : i = l1_off(v)
    BY Indices
  <2>2. PICK j \in L0Idx : j = l0_off(v)
    BY Indices
  <2>3. translate_read(k, v).off = Cluster(k, i, j) /\ translate_read(k, v)'.off = Cluster(k, i, j)'
    BY <2>1, <2>2 DEF translate_read, Cluster, empty, encode
  <2>4. ASSUME NEW t \in tx, l1_off(t.v) = i, l0_off(t.v) = j PROVE t.v = v
    <3>1. t.v \in Nat /\ v \in Nat
      BY SizeAssumption DEF FileInv, TypeOK, Tx, Vblk
    <3>2. t.v = PerCluster * i + j /\ v = PerCluster * i + j
      BY <2>1, <2>2, <2>4, <3>1, DivMod, SizeAssumption DEF l1_off, l0_off
    <3> QED BY <3>2
  <2> QED BY <2>3, <2>4 DEF Frozen, head
<1>2. FileInv /\ [Next]_vars => [A]_vars
  BY <1>1
<1> QED BY <1>2, FileInit, FileNext, PTL DEF Spec, FrozenSnapshots

\* Only snap_create lengthens the list.
LEMMA ListGrows ==
    ASSUME FileInv, Next, Len(snaps') > Len(snaps)
    PROVE  \E k0 \in 1 .. head, h \in {"narrow", "wide"} :
              /\ SnapCreate(k0, h)
              /\ handle' \in {"none", "narrow", "wide"} /\ (handle' = "none" => tx = {})
<1>1. /\ head \in Nat /\ head \in 1 .. head /\ Len(snaps) \in Nat
      /\ handle \in {"none", "narrow", "wide"} /\ (handle = "none" => tx = {})
  BY RefType DEF FileInv, RefsTyped, XcowInv, TxOwn, TypeOK, head
<1>2. snaps' # snaps
  BY <1>1
<1>3. ASSUME TakeCluster PROVE FALSE
  BY <1>1, <1>3, TakeKeeps DEF KeepsList, FileInv
<1>4. ASSUME peel PROVE FALSE
  <2>1. Len(snaps') = Len(snaps) - 1
    BY <1>1, <1>4 DEF peel, FileInv, TypeOK
  <2> QED BY <1>1, <2>1
<1>5. snap_create \/ \E snapi \in 0 .. head - 1 : snap_create_from(snapi)
  BY <1>2, <1>3, <1>4 DEF Next, tx_write_prep, BeginTx, translate_write, tx_write_commit, Abort,
     SnapCreateThrows, open_write, Crash
<1>6. CASE snap_create
  BY <1>1, <1>6 DEF snap_create
<1>7. ASSUME NEW snapi \in 0 .. head - 1, snap_create_from(snapi)
      PROVE  \E k0 \in 1 .. head : SnapCreate(k0, "narrow") /\ handle' = handle
  <2>1. PICK k0 \in 1 .. head : k0 = open_read(snapi)
    BY <1>1, <1>7, OpenRead DEF FileInv, snap_create_from
  <2> QED BY <1>7, <2>1 DEF snap_create_from
<1> QED BY <1>1, <1>5, <1>6, <1>7

\* When the root table fits the one cluster that open_read and open_write
\* dereference, a new snapshot loses no mapping of its source.  (For larger
\* files it can: SnapRoot copies only what the handle spans.)
THEOREM InheritsSourceHolds == l0count <= PerCluster => (Spec => InheritsSource)
<1> SUFFICES ASSUME l0count <= PerCluster PROVE Spec => InheritsSource
  OBVIOUS
<1> DEFINE A == Len(snaps') > Len(snaps) =>
                  \E k \in 1 .. Len(snaps) : \A v \in Vblk :
                     translate_read(head, v)'.off = translate_read(k, v).off
<1>1. \A h, i : i \in L1Idx => Spanned(h, i)
  BY Sizes, SizeAssumption DEF Spanned, L1Idx
<1>2. FileInv /\ Next => A
  <2> SUFFICES ASSUME FileInv, Next, Len(snaps') > Len(snaps)
               PROVE  \E k \in 1 .. Len(snaps) : \A v \in Vblk :
                         translate_read(head, v)'.off = translate_read(k, v).off
    OBVIOUS
  <2>1. PICK k0 \in 1 .. head, h \in {"narrow", "wide"} :
              /\ SnapCreate(k0, h)
              /\ handle' \in {"none", "narrow", "wide"} /\ (handle' = "none" => tx = {})
    BY ListGrows
  <2>2. \A i \in L1Idx, j \in L0Idx : Cluster(head, i, j)' = Cluster(k0, i, j)
    BY <1>1, <2>1, SnapStep
  <2>3. ASSUME NEW v \in Vblk PROVE translate_read(head, v)'.off = translate_read(k0, v).off
    <3>1. PICK i \in L1Idx : i = l1_off(v)
      BY Indices
    <3>2. PICK j \in L0Idx : j = l0_off(v)
      BY Indices
    <3>3. /\ translate_read(k0, v).off = Cluster(k0, i, j)
          /\ translate_read(head, v)'.off = Cluster(head, i, j)'
      BY <3>1, <3>2 DEF translate_read, Cluster, empty, encode
    <3> QED BY <2>2, <3>3
  <2> QED BY <2>3 DEF head
<1>3. FileInv /\ [Next]_vars => [A]_vars
  BY <1>2
<1> QED BY <1>3, FileInit, FileNext, PTL DEF Spec, InheritsSource
=============================================================================
