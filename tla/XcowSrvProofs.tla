---------------------------- MODULE XcowSrvProofs ----------------------------
(***************************************************************************)
(* Proofs about the XCOW server: it performs only steps of the map file,   *)
(* keeps the snapshot list locked while it uses it, and never writes a     *)
(* cluster that is being allocated.                                        *)
(***************************************************************************)
EXTENDS XcowSrv, XcowFileProofs, FiniteSetTheorems

(***************************************************************************)
(* The inductive invariant.                                                *)
(***************************************************************************)
ReplyType == [ok : BOOLEAN, cl : Nat, vld : BOOLEAN, wr : BOOLEAN, fwd : BOOLEAN]
WorkType  == [kind : {"reply", "io"}, c : Cmd, v : Vblk, m : Meta]

\* Types, without the counters.
SrvTypes ==
    /\ req \in [Cmd -> Requests \union {None}]
    /\ cur = Idle \/ (cur.c \in Cmd /\ cur.blks \in Seq(Vblk) /\ cur.blks # <<>>)
    /\ clock \in [Vblk -> BOOLEAN]
    /\ wq \subseteq WorkType
    /\ sq \subseteq IoType /\ ring \subseteq IoType
    /\ \A io \in sq \union ring : ~IsAlloc(io) => io.tag \in Cmd
    /\ sent \in [Cmd -> Seq(ReplyType)]

\* The locks, the transactions and the allocation I/O in flight correspond
\* one to one.
Ledger ==
    /\ \A v \in Vblk : clock[v] <=> Locked(v)
    /\ \A io \in sq \union ring : IsAlloc(io) => io.t \in tx
    /\ \A t \in tx : \E io \in sq \union ring : IsAlloc(io) /\ io.t = t
    /\ \A a, b \in sq \union ring : IsAlloc(a) /\ a.t = b.t => a = b
    /\ \A t, u \in tx : t.v = u.v => t = u
    /\ \A io \in sq : IsAlloc(io) => io \notin ring

\* A cluster taken before, and not being filled.
Safe(cl) == cl < snaps[head].disk_hwm /\ \A t \in tx : cl # t.out

\* Every cluster the server has let anybody write or read is safe.
ToldSafe ==
    /\ \A c \in Cmd : \A n \in 1 .. Len(sent[c]) : sent[c][n].fwd => Safe(sent[c][n].cl)
    /\ \A io \in sq \union ring : ~IsAlloc(io) => Safe(io.cl)

\* Table m is the own table of some snapshot for root index i.
Owned(m, i) == m # 0 /\ \E k \in 1 .. head : Ref(k, i) = encode(m, TRUE)

\* A continuation reads its entry from such a table.
WqOwned == \A d \in wq : Owned(d.m, l1_off(d.v))

SrvInv == FileInv /\ handle # "none" /\ SrvTypes /\ Ledger /\ ToldSafe /\ WqOwned

(***************************************************************************)
(* What the server does to the map file.                                   *)
(***************************************************************************)

\* A step of XcowFile (or none) that neither closes the file nor drops a
\* snapshot.
FileMove == [Next]_vars /\ handle' # "none" /\ Len(snaps) <= Len(snaps')

\* A handler that leaves the map file alone.
LEMMA StutterMove == ASSUME SrvInv, UNCHANGED vars PROVE FileMove
<1>1. Len(snaps) \in Nat
  BY DEF SrvInv, FileInv, TypeOK
<1> QED BY <1>1 DEF SrvInv, FileMove, vars

\* A handler that only prepares a leaf table.
LEMMA PrepMove == ASSUME SrvInv, NEW v \in Vblk, tx_write_prep(v) PROVE FileMove
<1>1. Len(snaps) \in Nat
  BY DEF SrvInv, FileInv, TypeOK
<1>2. Next
  BY DEF Next
<1> QED BY <1>1, <1>2 DEF SrvInv, FileMove, tx_write_prep

\* A handler that begins an allocation of an unlocked cluster.
LEMMA BeginMove == ASSUME SrvInv, NEW v \in Vblk, ~Locked(v), BeginTx(v) PROVE FileMove
<1>1. Len(snaps) \in Nat /\ KeepsList
  BY TakeKeeps DEF SrvInv, FileInv, TypeOK, BeginTx
<1>2. Next
  BY DEF Next
<1> QED BY <1>1, <1>2 DEF SrvInv, FileMove, BeginTx, KeepsList

\* The end of an allocation.
LEMMA CommitMove ==
    ASSUME SrvInv, NEW t \in tx, tx_write_commit(t) \/ Abort(t) PROVE FileMove
<1>1. Len(snaps) \in Nat
  BY DEF SrvInv, FileInv, TypeOK
<1>2. Next
  BY DEF Next
<1> QED BY <1>1, <1>2 DEF SrvInv, FileMove, tx_write_commit, Abort

\* The snapshot command.
LEMMA SnapMove == ASSUME SrvInv, snap_create \/ SnapCreateThrows PROVE FileMove
<1>1. Len(snaps) \in Nat /\ snaps \in Seq(SnapType)
  BY DEF SrvInv, FileInv, TypeOK, SnapType
<1>2. Next
  BY DEF Next
<1>3. Len(snaps) <= Len(snaps')
  BY <1>1 DEF snap_create, SnapCreate, SnapCreateThrows
<1>4. handle' # "none"
  BY DEF SrvInv, snap_create, SnapCreateThrows
<1> QED BY <1>2, <1>3, <1>4 DEF FileMove

\* Clusters stay safe and tables owned.
LEMMA MoveKeeps ==
    ASSUME SrvInv, FileMove
    PROVE  /\ FileInv' /\ handle' # "none"
           /\ \A cl \in Nat : Safe(cl) => Safe(cl)'
           /\ \A m \in Meta, i \in L1Idx : Owned(m, i) => Owned(m, i)'
<1>1. FileInv' /\ StepKeeps /\ FileInv /\ RefsTyped /\ RefsTyped'
  BY FileNext, RefType, RefTypeNext DEF SrvInv, FileMove, FileInv
<1>2. /\ head \in Nat /\ head \in 1 .. head /\ head' \in Nat /\ head' \in 1 .. head' /\ head <= head'
      /\ head = Len(snaps) /\ head' = Len(snaps')
      /\ snaps[head].disk_hwm \in Nat /\ snaps'[head'].disk_hwm \in Nat
  BY <1>1 DEF RefsTyped, FileMove, head
<1>3. ASSUME NEW cl \in Nat, Safe(cl) PROVE Safe(cl)'
  <2>1. snaps[head].disk_hwm <= snaps'[head'].disk_hwm
    BY <1>1, <1>2 DEF StepKeeps, TablesKept
  <2>2. cl < snaps'[head'].disk_hwm
    BY <1>2, <1>3, <2>1 DEF Safe
  <2>3. ASSUME NEW t \in tx' PROVE cl # t.out
    <3>1. CASE t \in tx
      BY <1>3, <3>1 DEF Safe
    <3>2. CASE t \notin tx
      <4>1. t.out = snaps[head].disk_hwm
        BY <1>1, <3>2 DEF StepKeeps, TablesKept
      <4> QED BY <1>2, <1>3, <4>1 DEF Safe
    <3> QED BY <3>1, <3>2
  <2> QED BY <2>2, <2>3 DEF Safe
<1>4. ASSUME NEW m \in Meta, NEW i \in L1Idx, Owned(m, i) PROVE Owned(m, i)'
  <2>1. PICK k \in 1 .. head : Ref(k, i) = encode(m, TRUE) /\ m # 0
    BY <1>4 DEF Owned
  <2>2. valid(Ref(k, i)) /\ Ref(k, i).w /\ k <= Len(snaps') /\ k \in 1 .. head'
    BY <1>2, <2>1 DEF valid, encode
  <2>3. Ref(k, i)' = encode(m, TRUE)
    BY <1>1, <2>1, <2>2 DEF StepKeeps, TablesKept
  <2> QED BY <2>1, <2>2, <2>3 DEF Owned
<1> QED BY <1>1, <1>3, <1>4 DEF FileMove

\* What a table of a snapshot holds is safe.
HeldSafe ==
    /\ \A m \in Meta, v \in Vblk : Owned(m, l1_off(v)) =>
          LET e == l0[m][l0_off(v)] IN e \in Entry /\ e.off \in Nat /\ Safe(e.off)
    /\ \A v \in Vblk :
          LET e == translate_read(head, v) IN e \in Entry /\ e.off \in Nat /\ Safe(e.off)
    /\ Safe(0)

\* It follows from the map file's invariant ...
LEMMA HeldIsSafe == FileInv => HeldSafe
<1> SUFFICES ASSUME FileInv PROVE HeldSafe
  OBVIOUS
<1>1. RefsTyped /\ RootsOwn /\ RefBelowHwm /\ TxOwn /\ TypeOK
  BY RefType DEF FileInv, XcowInv
<1>2. head \in Nat /\ head \in 1 .. head /\ snaps[head].disk_hwm \in Nat
  BY <1>1 DEF RefsTyped
<1>3. ASSUME NEW k \in 1 .. head, NEW i \in L1Idx, NEW j \in L0Idx
      PROVE  Cluster(k, i, j) \in Nat /\ Safe(Cluster(k, i, j)) /\ Leaf(k, i, j) \in Entry
  <2>1. /\ Cluster(k, i, j) \in Nat /\ Cluster(k, i, j) < snaps[k].disk_hwm
        /\ snaps[k].disk_hwm \in Nat /\ snaps[k].disk_hwm <= snaps[head].disk_hwm
        /\ Leaf(k, i, j) \in Entry
    BY <1>1, <1>2 DEF RefsTyped, RefBelowHwm
  <2>2. Cluster(k, i, j) < snaps[head].disk_hwm
    BY <1>2, <2>1
  <2>3. \A t \in tx : Cluster(k, i, j) # t.out
    BY <1>1 DEF TxOwn
  <2> QED BY <2>1, <2>2, <2>3 DEF Safe
<1>4. Safe(0)
  <2>1. 0 \in L1Idx /\ 0 \in L0Idx
    BY Sizes, SizeAssumption DEF L1Idx, L0Idx
  <2>2. Cluster(head, 0, 0) \in Nat /\ Cluster(head, 0, 0) < snaps[head].disk_hwm
    BY <1>2, <1>3, <2>1 DEF Safe
  <2>3. ASSUME NEW t \in tx PROVE 0 # t.out
    <3>1. t.out \in Nat /\ 0 < t.out
      BY <1>1 DEF TxOwn, TypeOK, Tx
    <3> QED BY <3>1
  <2>4. 0 < snaps[head].disk_hwm
    BY <1>2, <2>2
  <2> QED BY <2>3, <2>4 DEF Safe
<1>5. ASSUME NEW m \in Meta, NEW v \in Vblk, Owned(m, l1_off(v))
      PROVE  l0[m][l0_off(v)] \in Entry /\ l0[m][l0_off(v)].off \in Nat /\ Safe(l0[m][l0_off(v)].off)
  <2>1. PICK k \in 1 .. head : Ref(k, l1_off(v)) = encode(m, TRUE) /\ m # 0
    BY <1>5 DEF Owned
  <2>2. l1_off(v) \in L1Idx /\ l0_off(v) \in L0Idx
    BY Indices
  <2>3. Leaf(k, l1_off(v), l0_off(v)) = l0[m][l0_off(v)] /\ valid(Ref(k, l1_off(v)))
    BY <2>1 DEF Leaf, encode, valid
  <2>4. Cluster(k, l1_off(v), l0_off(v)) = l0[m][l0_off(v)].off
    BY <2>3 DEF Cluster
  <2> QED BY <1>3, <2>2, <2>3, <2>4
<1>6. ASSUME NEW v \in Vblk
      PROVE  /\ translate_read(head, v) \in Entry /\ translate_read(head, v).off \in Nat
             /\ Safe(translate_read(head, v).off)
  <2>1. l1_off(v) \in L1Idx /\ l0_off(v) \in L0Idx
    BY Indices
  <2>2. translate_read(head, v).off = Cluster(head, l1_off(v), l0_off(v))
    BY DEF translate_read, Cluster, empty, encode
  <2>3. translate_read(head, v) \in Entry
    BY <1>2, <1>3, <2>1 DEF translate_read, empty, encode, Entry
  <2> QED BY <1>2, <1>3, <2>1, <2>2, <2>3
<1> QED BY <1>4, <1>5, <1>6 DEF HeldSafe

\* ... and so holds after a step that keeps it.
LEMMA HeldIsSafeNext == FileInv' => HeldSafe'
  BY HeldIsSafe, PTL

(***************************************************************************)
(* The table a write prepares, and the transaction it begins.              *)
(***************************************************************************)

\* After tx_write_prep the table for v is owned, and its entry is safe.
LEMMA Prepared ==
    ASSUME SrvInv, NEW v \in Vblk, OwnL0(v), KeepsList, FileMove
    PROVE  \E m \in Meta, e \in Entry :
              /\ m = NewTable(v) /\ Owned(m, l1_off(v))'
              /\ e = NewEntry(v) /\ e = l0'[m][l0_off(v)]
              /\ e.off \in Nat /\ Safe(e.off)'
<1>1. TypeOK /\ XcowInv /\ head' = head /\ head \in 1 .. head
  BY RefType DEF SrvInv, FileInv, KeepsList, head, RefsTyped
<1>2. NewTable(v) \in Meta /\ NewTable(v) # 0 /\ Ref(head, l1_off(v))' = encode(NewTable(v), TRUE)
  BY <1>1, OwnStep
<1>3. PICK m \in Meta : m = NewTable(v)
  BY <1>2
<1>4. Owned(m, l1_off(v))'
  BY <1>1, <1>2, <1>3 DEF Owned
<1>5. HeldSafe'
  BY MoveKeeps, HeldIsSafeNext
<1>6. PICK e : e = l0'[m][l0_off(v)]
  OBVIOUS
<1>7. e \in Entry /\ e.off \in Nat /\ Safe(e.off)'
  BY <1>4, <1>5, <1>6 DEF HeldSafe
<1>8. NewEntry(v) = e
  BY <1>3, <1>6 DEF NewEntry
<1> QED BY <1>3, <1>4, <1>6, <1>7, <1>8

\* BeginTx adds one transaction, and it is new.
LEMMA Began ==
    ASSUME SrvInv, NEW v \in Vblk, BeginTx(v)
    PROVE  \E t \in Tx :
              /\ t.v = v /\ t # NoTx /\ t \notin tx
              /\ tx' = tx \union {t} /\ tx' \ tx = {t}
              /\ t = [v |-> v, m |-> NewTable(v), out |-> snaps[head].disk_hwm, sn |-> head]
<1>1. /\ TypeOK /\ XcowInv /\ RefsTyped /\ KeepsList /\ OwnL0(v)
      /\ head \in Nat /\ head \in 1 .. head
      /\ snaps[head].disk_hwm \in Nat
  BY RefType, TakeKeeps DEF SrvInv, FileInv, BeginTx, RefsTyped
<1>2. NewTable(v) \in Meta /\ NewTable(v) # 0
  BY <1>1, OwnStep
<1>3. PICK t \in Tx : t = [v |-> v, m |-> NewTable(v), out |-> snaps[head].disk_hwm, sn |-> head]
  BY <1>1, <1>2 DEF Tx
<1>4. t.v = v /\ t.m # 0 /\ t.out = snaps[head].disk_hwm /\ tx' = tx \union {t}
  BY <1>2, <1>3 DEF BeginTx
<1>5. t # NoTx
  BY <1>4 DEF NoTx
<1>6. ASSUME t \in tx PROVE FALSE
  <2>1. t.sn \in 1 .. head /\ t.out < snaps[t.sn].disk_hwm
    BY <1>1, <1>6 DEF XcowInv, TxOwn
  <2>2. snaps[t.sn].disk_hwm \in Nat /\ snaps[t.sn].disk_hwm <= snaps[head].disk_hwm
    BY <1>1, <2>1 DEF XcowInv, RefBelowHwm, RefsTyped
  <2> QED BY <1>1, <1>4, <2>1, <2>2
<1> QED BY <1>3, <1>4, <1>5, <1>6

(***************************************************************************)
(* The parts of the invariant across a step of the server.                 *)
(***************************************************************************)

\* No allocation begins or ends.
LEMMA LedgerSame ==
    ASSUME Ledger, UNCHANGED <<tx, clock>>,
           \A io : IsAlloc(io) => (io \in sq' \union ring' <=> io \in sq \union ring),
           \A io \in sq' : IsAlloc(io) => io \notin ring'
    PROVE  Ledger'
<1>1. \A v \in Vblk : (clock[v] <=> Locked(v))'
  BY DEF Ledger, Locked
<1>2. \A a, b \in sq' \union ring' : IsAlloc(a) /\ a.t = b.t => a = b
  BY DEF Ledger, IsAlloc
<1>3. \A t \in tx' : \E io \in sq' \union ring' : IsAlloc(io) /\ io.t = t
  BY DEF Ledger
<1>4. \A io \in sq' \union ring' : IsAlloc(io) => io.t \in tx'
  BY DEF Ledger
<1>5. \A t, u \in tx' : t.v = u.v => t = u
  BY DEF Ledger
<1> QED BY <1>1, <1>2, <1>3, <1>4, <1>5 DEF Ledger, Locked, IsAlloc

\* One allocation begins: its cluster was not locked.
LEMMA LedgerBegin ==
    ASSUME SrvInv, NEW t, NEW a, t # NoTx, t \notin tx, t.v \in Vblk, ~clock[t.v], a.t = t,
           tx' = tx \union {t}, Lock(t.v),
           \A io : IsAlloc(io) => (io \in sq' \union ring' <=> io \in sq \union ring \/ io = a),
           \A io \in sq' : IsAlloc(io) => io \notin ring'
    PROVE  Ledger'
<1>1. Ledger /\ clock \in [Vblk -> BOOLEAN] /\ IsAlloc(a) /\ clock' = [clock EXCEPT ![t.v] = TRUE]
  BY DEF SrvInv, SrvTypes, IsAlloc, Lock
<1>2. ASSUME NEW v \in Vblk PROVE (clock[v] <=> Locked(v))'
  <2>1. CASE v = t.v
    BY <1>1, <2>1 DEF Locked
  <2>2. CASE v # t.v
    <3>1. clock'[v] = clock[v] /\ (clock[v] <=> Locked(v))
      BY <1>1, <2>2 DEF Ledger
    <3>2. Locked(v) <=> Locked(v)'
      BY <2>2 DEF Locked
    <3> QED BY <3>1, <3>2
  <2> QED BY <2>1, <2>2
<1>3. \A io \in sq' \union ring' : IsAlloc(io) => io.t \in tx'
  BY <1>1 DEF Ledger
<1>4. \A u \in tx' : \E io \in sq' \union ring' : IsAlloc(io) /\ io.t = u
  BY <1>1 DEF Ledger
<1>5. \A x, y \in sq' \union ring' : IsAlloc(x) /\ x.t = y.t => x = y
  <2> SUFFICES ASSUME NEW x \in sq' \union ring', NEW y \in sq' \union ring', IsAlloc(x), x.t = y.t
               PROVE  x = y
    OBVIOUS
  <2>1. IsAlloc(y)
    BY DEF IsAlloc
  <2>2. (x \in sq \union ring \/ x = a) /\ (y \in sq \union ring \/ y = a)
    BY <2>1
  <2>3. \A io \in sq \union ring : IsAlloc(io) => io.t # t
    BY <1>1 DEF Ledger
  <2> QED BY <1>1, <2>1, <2>2, <2>3 DEF Ledger
<1>6. \A u, w \in tx' : u.v = w.v => u = w
  <2>1. \A u \in tx : u.v # t.v
    BY <1>1 DEF Ledger, Locked
  <2> QED BY <1>1, <2>1 DEF Ledger
<1> QED BY <1>2, <1>3, <1>4, <1>5, <1>6 DEF Ledger, Locked, IsAlloc

\* One allocation ends.
LEMMA LedgerDone ==
    ASSUME SrvInv, NEW a \in ring, IsAlloc(a),
           tx' = tx \ {a.t}, clock' = [clock EXCEPT ![a.t.v] = FALSE],
           \A io : IsAlloc(io) => (io \in sq' \union ring' <=> io \in sq \union ring /\ io # a),
           \A io \in sq' : IsAlloc(io) => io \notin ring'
    PROVE  Ledger'
<1>1. Ledger /\ clock \in [Vblk -> BOOLEAN] /\ a.t \in tx
  BY DEF SrvInv, SrvTypes, Ledger
<1>2. ASSUME NEW v \in Vblk PROVE (clock[v] <=> Locked(v))'
  <2>1. CASE v = a.t.v
    <3>1. ~clock'[v]
      BY <1>1, <2>1
    <3>2. ~Locked(v)'
      BY <1>1, <2>1 DEF Locked, Ledger
    <3> QED BY <3>1, <3>2
  <2>2. CASE v # a.t.v
    <3>1. clock'[v] = clock[v] /\ (clock[v] <=> Locked(v))
      BY <1>1, <2>2 DEF Ledger
    <3>2. Locked(v) <=> Locked(v)'
      BY <2>2 DEF Locked
    <3> QED BY <3>1, <3>2
  <2> QED BY <2>1, <2>2
<1>3. \A io \in sq' \union ring' : IsAlloc(io) => io.t \in tx'
  BY <1>1 DEF Ledger
<1>4. \A u \in tx' : \E io \in sq' \union ring' : IsAlloc(io) /\ io.t = u
  BY <1>1 DEF Ledger
<1>5. \A x, y \in sq' \union ring' : IsAlloc(x) /\ x.t = y.t => x = y
  <2> SUFFICES ASSUME NEW x \in sq' \union ring', NEW y \in sq' \union ring', IsAlloc(x), x.t = y.t
               PROVE  x = y
    OBVIOUS
  <2>1. IsAlloc(y)
    BY DEF IsAlloc
  <2> QED BY <1>1, <2>1 DEF Ledger
<1>6. \A u, w \in tx' : u.v = w.v => u = w
  BY <1>1 DEF Ledger
<1> QED BY <1>2, <1>3, <1>4, <1>5, <1>6 DEF Ledger, Locked, IsAlloc

\* Replies and I/O name safe clusters, if the new ones do.
Answers ==
    /\ sent' \in [Cmd -> Seq(ReplyType)]
    /\ \A c \in Cmd :
          \/ sent'[c] = sent[c]
          \/ \E r \in ReplyType : sent'[c] = Append(sent[c], r) /\ (r.fwd => Safe(r.cl)')

\* ... of commands and of I/O.
LEMMA ToldStep ==
    ASSUME SrvInv, FileMove, Answers,
           \A io \in sq' \union ring' : ~IsAlloc(io) => io \in sq \union ring \/ Safe(io.cl)'
    PROVE  ToldSafe'
<1>1. \A cl \in Nat : Safe(cl) => Safe(cl)'
  BY MoveKeeps
<1>2. ASSUME NEW c \in Cmd, NEW n \in 1 .. Len(sent'[c]), sent'[c][n].fwd
      PROVE  Safe(sent[c][n].cl)'
  <2>0. sent[c] \in Seq(ReplyType)
    BY DEF SrvInv, SrvTypes
  <2>1. ASSUME n \in 1 .. Len(sent[c]), sent'[c][n] = sent[c][n] PROVE Safe(sent[c][n].cl)'
    <3>1. PICK r \in ReplyType : r = sent[c][n]
      BY <2>0, <2>1, SeqElem
    <3>2. r.fwd /\ r.cl \in Nat
      BY <1>2, <2>1, <3>1 DEF ReplyType
    <3>3. Safe(r.cl)
      BY <2>1, <3>1, <3>2 DEF SrvInv, ToldSafe
    <3>4. Safe(r.cl)'
      BY <1>1, <3>2, <3>3
    <3> QED BY <2>1, <3>1, <3>4 DEF Safe
  <2>2. CASE sent'[c] = sent[c]
    BY <1>2, <2>1, <2>2
  <2>3. CASE \E r \in ReplyType : sent'[c] = Append(sent[c], r) /\ (r.fwd => Safe(r.cl)')
    <3>1. PICK r \in ReplyType : sent'[c] = Append(sent[c], r) /\ (r.fwd => Safe(r.cl)')
      BY <2>3
    <3>2. CASE n \in 1 .. Len(sent[c])
      <4>1. sent'[c][n] = sent[c][n]
        BY <2>0, <3>1, <3>2
      <4> QED BY <2>1, <3>2, <4>1
    <3>3. CASE n \notin 1 .. Len(sent[c])
      <4>1. sent'[c][n] = r
        BY <1>2, <2>0, <3>1, <3>3
      <4> QED BY <1>2, <3>1, <4>1 DEF Safe
    <3> QED BY <3>2, <3>3
  <2> QED BY <2>2, <2>3 DEF Answers
<1>3. ASSUME NEW io \in sq' \union ring', ~IsAlloc(io) PROVE Safe(io.cl)'
  <2>1. CASE io \in sq \union ring
    <3>1. io.cl \in Nat
      BY <2>1 DEF SrvInv, SrvTypes, IoType
    <3>2. Safe(io.cl)
      BY <1>3, <2>1 DEF SrvInv, ToldSafe
    <3> QED BY <1>1, <3>1, <3>2
  <2> QED BY <1>3, <2>1
<1> QED BY <1>2, <1>3 DEF ToldSafe, IsAlloc

\* Continuations keep their tables.
LEMMA WqStep ==
    ASSUME SrvInv, FileMove, \A d \in wq' : d \in wq \/ Owned(d.m, l1_off(d.v))'
    PROVE  WqOwned'
<1> SUFFICES ASSUME NEW d \in wq' PROVE Owned(d.m, l1_off(d.v))'
  BY DEF WqOwned
<1>1. CASE d \in wq
  <2>1. d.m \in Meta /\ d.v \in Vblk
    BY <1>1 DEF SrvInv, SrvTypes, WorkType
  <2>2. l1_off(d.v) \in L1Idx
    BY <2>1, Indices
  <2>3. Owned(d.m, l1_off(d.v))
    BY <1>1 DEF SrvInv, WqOwned
  <2> QED BY <2>1, <2>2, <2>3, MoveKeeps
<1> QED BY <1>1

\* The I/Os ios join those in flight.
IoAdded(ios) ==
    /\ sq' \union ring' = sq \union ring \union ios
    /\ sq' \subseteq IoType /\ ring' \subseteq IoType
    /\ \A io \in sq' : IsAlloc(io) => io \notin ring'

\* ... whether the ring is kicked or not.
LEMMA IosAdded ==
    ASSUME SrvInv, NEW ios \in SUBSET IoType, Kick(ios) \/ Stage(ios),
           \A io \in ios : IsAlloc(io) => io \notin ring
    PROVE  IoAdded(ios)
  BY DEF SrvInv, SrvTypes, Ledger, Kick, Stage, IoAdded, IsAlloc

\* ... or nothing joins.
LEMMA IosKept == ASSUME SrvInv, UNCHANGED <<sq, ring>> PROVE IoAdded({})
  BY DEF SrvInv, SrvTypes, Ledger, IoAdded, IsAlloc

\* No reply.
LEMMA NoAnswer == ASSUME SrvInv, sent' = sent PROVE Answers
  BY DEF SrvInv, SrvTypes, Answers

\* One reply, whose cluster is safe when the router uses it.
LEMMA OneAnswer ==
    ASSUME SrvInv, NEW c \in Cmd, NEW r \in ReplyType, r.fwd => Safe(r.cl)', Send(c, r)
    PROVE  Answers
<1>1. sent \in [Cmd -> Seq(ReplyType)] /\ sent' = [sent EXCEPT ![c] = Append(sent[c], r)]
  BY DEF SrvInv, SrvTypes, Send
<1>2. Append(sent[c], r) \in Seq(ReplyType)
  BY <1>1
<1> QED BY <1>1, <1>2 DEF Answers

\* A step that begins and ends no allocation keeps the invariant.
LEMMA QuietSrv ==
    ASSUME SrvInv, FileMove, UNCHANGED <<tx, clock>>, Answers,
           req' \in [Cmd -> Requests \union {None}],
           cur' = Idle \/ (cur'.c \in Cmd /\ cur'.blks \in Seq(Vblk) /\ cur'.blks # <<>>),
           wq' \subseteq WorkType,
           \A d \in wq' : d \in wq \/ Owned(d.m, l1_off(d.v))',
           NEW ios, IoAdded(ios),
           \A io \in ios : ~IsAlloc(io) /\ io.tag \in Cmd /\ Safe(io.cl)'
    PROVE  SrvInv'
<1>1. FileInv' /\ handle' # "none" /\ WqOwned'
  BY MoveKeeps, WqStep
<1>2. ToldSafe'
  BY ToldStep DEF IoAdded
<1>3. Ledger'
  BY LedgerSame DEF SrvInv, IoAdded
<1>4. SrvTypes'
  BY DEF SrvInv, SrvTypes, IoAdded, Answers, Idle, IsAlloc
<1> QED BY <1>1, <1>2, <1>3, <1>4 DEF SrvInv

\* A step that begins one allocation does.
LEMMA BeginSrv ==
    ASSUME SrvInv, FileMove, Answers,
           req' \in [Cmd -> Requests \union {None}],
           cur' = Idle \/ (cur'.c \in Cmd /\ cur'.blks \in Seq(Vblk) /\ cur'.blks # <<>>),
           wq' \subseteq WorkType,
           \A d \in wq' : d \in wq \/ Owned(d.m, l1_off(d.v))',
           NEW t \in Tx, t # NoTx, t \notin tx, ~clock[t.v], tx' = tx \union {t}, Lock(t.v),
           NEW a, a.t = t, IoAdded({a})
    PROVE  SrvInv'
<1>1. FileInv' /\ handle' # "none" /\ WqOwned'
  BY MoveKeeps, WqStep
<1>2. IsAlloc(a) /\ t.v \in Vblk
  BY DEF IsAlloc, Tx
<1>3. ToldSafe'
  BY <1>2, ToldStep DEF IoAdded
<1>4. Ledger'
  BY <1>2, LedgerBegin DEF IoAdded
<1>5. clock' \in [Vblk -> BOOLEAN]
  BY DEF SrvInv, SrvTypes, Lock
<1>6. SrvTypes'
  BY <1>2, <1>5 DEF SrvInv, SrvTypes, IoAdded, Answers, Idle, IsAlloc
<1> QED BY <1>1, <1>3, <1>4, <1>6 DEF SrvInv

(***************************************************************************)
(* The handlers.                                                           *)
(***************************************************************************)

\* The clusters a request names.
LEMMA ReqBlks ==
    ASSUME NEW rq \in Requests, rq.op \in {"read", "write"}
    PROVE  /\ rq.blks \in Seq(Vblk) /\ rq.blks # <<>> /\ Len(rq.blks) \in Nat /\ Len(rq.blks) >= 1
           /\ \A b \in 1 .. Len(rq.blks) : rq.blks[b] \in Vblk
           /\ rq.blks[1] \in Vblk
<1>1. rq.blks \in Seq(Vblk) /\ rq.blks # <<>>
  BY RequestAssumption
<1>2. PICK s \in Seq(Vblk) : s = rq.blks
  BY <1>1
<1>3. Len(s) \in Nat /\ Len(s) >= 1
  BY <1>1, <1>2
<1>4. \A b \in 1 .. Len(s) : s[b] \in Vblk
  BY SeqElem
<1> QED BY <1>1, <1>2, <1>3, <1>4

\* The shapes of I/O.
LEMMA AllocIo ==
    ASSUME NEW tag \in Cmd \union {NoCmd}, NEW t \in Tx
    PROVE  Alloc(tag, t) \in IoType /\ Alloc(tag, t).t = t /\ Alloc(tag, t).tag = tag
  BY DEF Alloc, IoType

\* ... of data and flushes.
LEMMA RwIo ==
    ASSUME NEW c \in Cmd, NEW cl \in Nat
    PROVE  /\ Rw(c, cl) \in IoType /\ ~IsAlloc(Rw(c, cl))
           /\ Rw(c, cl).tag = c /\ Rw(c, cl).cl = cl
  BY DEF Rw, IoType, IsAlloc

\* Taking a command.
LEMMA Taken ==
    ASSUME SrvInv, NEW c \in Cmd, NEW rq \in Requests, Take(c, rq)
    PROVE  cur = Idle /\ req' \in [Cmd -> Requests \union {None}]
  BY DEF SrvInv, SrvTypes, Take

\* The shapes of replies.
LEMMA Replies ==
    ASSUME NEW ok \in BOOLEAN
    PROVE  /\ Plain(ok) \in ReplyType /\ ~Plain(ok).fwd
           /\ ZeroBlock \in ReplyType /\ ~ZeroBlock.fwd
           /\ \A e \in Entry : Entry_(ok, e) \in ReplyType /\ Entry_(ok, e).cl = e.off
           /\ \A cl \in Nat : Paddr(ok, cl) \in ReplyType /\ Paddr(ok, cl).cl = cl
  BY DEF Plain, ZeroBlock, Entry_, Paddr, Reply, ReplyType, Entry, valid

\* do_read within one cluster.
LEMMA ReadOneSrv ==
    ASSUME SrvInv, NEW c \in Cmd, NEW rq \in Requests, ReadOne(c, rq)
    PROVE  SrvInv' /\ FileMove
<1>1. FileMove /\ HeldSafe'
  BY StutterMove, MoveKeeps, HeldIsSafeNext DEF ReadOne
<1>2. cur = Idle /\ req' \in [Cmd -> Requests \union {None}] /\ rq.blks[1] \in Vblk
  BY Taken, ReqBlks DEF ReadOne
<1>3. PICK e \in Entry : e = translate_read(head, rq.blks[1]) /\ e = translate_read(head, rq.blks[1])'
  BY <1>2, HeldIsSafe DEF HeldSafe, SrvInv, ReadOne, vars, translate_read, head, Ref, Leaf
<1>4. Safe(e.off)'
  BY <1>1, <1>2, <1>3 DEF HeldSafe
<1>5. PICK r \in ReplyType : /\ r = IF valid(e) THEN Entry_(TRUE, e) ELSE ZeroBlock
                             /\ r.fwd => Safe(r.cl)'
  BY <1>4, Replies
<1>6. Send(c, r)
  BY <1>3, <1>5 DEF ReadOne
<1>7. Answers /\ IoAdded({})
  BY <1>5, <1>6, OneAnswer, IosKept DEF ReadOne
<1>8. UNCHANGED <<tx, clock, cur, wq>>
  BY DEF ReadOne, vars
<1>9. wq \subseteq WorkType
  BY DEF SrvInv, SrvTypes
<1> QED BY <1>1, <1>2, <1>7, <1>8, <1>9, QuietSrv

\* do_read over several clusters.
LEMMA ReadManySrv ==
    ASSUME SrvInv, NEW c \in Cmd, NEW rq \in Requests, ReadMany(c, rq)
    PROVE  SrvInv' /\ FileMove
<1>1. FileMove /\ HeldSafe /\ \A cl \in Nat : Safe(cl) => Safe(cl)'
  BY StutterMove, MoveKeeps, HeldIsSafe DEF ReadMany, SrvInv
<1>2. /\ cur = Idle /\ req' \in [Cmd -> Requests \union {None}]
      /\ \A b \in 1 .. Len(rq.blks) : rq.blks[b] \in Vblk
  BY Taken, ReqBlks DEF ReadMany
<1>3. UNCHANGED <<tx, clock, cur, wq>> /\ wq \subseteq WorkType
  BY DEF SrvInv, SrvTypes, ReadMany, vars
<1> DEFINE tls == {translate_read(head, rq.blks[b]) : b \in 1 .. Len(rq.blks)}
           ios == {Rw(c, tl.off) : tl \in {x \in tls : valid(x)}}
<1>4. ASSUME NEW io \in ios
      PROVE  io \in IoType /\ ~IsAlloc(io) /\ io.tag \in Cmd /\ Safe(io.cl)'
  <2>1. PICK b \in 1 .. Len(rq.blks) : io = Rw(c, translate_read(head, rq.blks[b]).off)
    BY <1>4
  <2>2. PICK v \in Vblk : v = rq.blks[b]
    BY <1>2
  <2>3. PICK cl \in Nat : cl = translate_read(head, v).off /\ Safe(cl)
    BY <1>1 DEF HeldSafe
  <2>4. io = [tag |-> c, t |-> NoTx, cl |-> cl]
    BY <2>1, <2>2, <2>3 DEF Rw
  <2>5. io \in IoType /\ ~IsAlloc(io) /\ io.tag \in Cmd /\ io.cl = cl
    BY <2>4 DEF IsAlloc, IoType
  <2> QED BY <1>1, <2>3, <2>5
<1>5. \/ ios = {} /\ Send(c, Plain(TRUE)) /\ UNCHANGED <<sq, ring>>
      \/ Kick(ios) /\ sent' = sent
  BY DEF ReadMany
<1> HIDE DEF ios
<1>6. CASE ios = {} /\ Send(c, Plain(TRUE)) /\ UNCHANGED <<sq, ring>>
  <2>1. Answers /\ IoAdded({})
    BY <1>6, OneAnswer, Replies, IosKept
  <2> QED BY <1>1, <1>2, <1>3, <2>1, QuietSrv
<1>7. CASE Kick(ios) /\ sent' = sent
  <2>1. ios \in SUBSET IoType
    BY <1>4
  <2>2. Answers /\ IoAdded(ios)
    BY <1>4, <1>7, <2>1, NoAnswer, IosAdded
  <2> QED BY <1>1, <1>2, <1>3, <1>4, <2>2, QuietSrv
<1> QED BY <1>5, <1>6, <1>7

\* do_flush.
LEMMA FlushSrv ==
    ASSUME SrvInv, NEW c \in Cmd, NEW rq \in Requests, Flush(c, rq)
    PROVE  SrvInv' /\ FileMove
<1>1. FileMove /\ Safe(0)'
  BY StutterMove, MoveKeeps, HeldIsSafeNext DEF Flush, HeldSafe
<1>2. cur = Idle /\ req' \in [Cmd -> Requests \union {None}]
  BY Taken DEF Flush
<1>3. UNCHANGED <<tx, clock, cur, wq, sent>> /\ wq \subseteq WorkType /\ Kick({Rw(c, 0)})
  BY DEF SrvInv, SrvTypes, Flush, vars
<1>4. /\ Rw(c, 0) \in IoType /\ ~IsAlloc(Rw(c, 0)) /\ Rw(c, 0).tag \in Cmd
      /\ Rw(c, 0).cl = 0
  BY DEF Rw, IoType, IsAlloc
<1>5. PICK io \in IoType : io = Rw(c, 0)
  BY <1>4
<1>6. {io} \in SUBSET IoType /\ Kick({io}) /\ ~IsAlloc(io) /\ io.tag \in Cmd /\ io.cl = 0
  BY <1>3, <1>4, <1>5
<1>7. Answers /\ IoAdded({io})
  BY <1>3, <1>6, NoAnswer, IosAdded
<1> QED BY <1>1, <1>2, <1>3, <1>6, <1>7, QuietSrv

\* do_snapshot.
LEMMA SnapshotSrv ==
    ASSUME SrvInv, NEW c \in Cmd, NEW rq \in Requests, Snapshot(c, rq)
    PROVE  SrvInv' /\ FileMove
<1>1. FileMove
  BY StutterMove, SnapMove DEF Snapshot
<1>2. cur = Idle /\ req' \in [Cmd -> Requests \union {None}]
  BY Taken DEF Snapshot
<1>3. UNCHANGED <<tx, clock, cur, wq, sq, ring>> /\ wq \subseteq WorkType
  BY DEF SrvInv, SrvTypes, Snapshot, snap_create, SnapCreate, SnapCreateThrows, vars
<1>4. Answers /\ IoAdded({})
  BY <1>3, OneAnswer, Replies, IosKept DEF Snapshot
<1> QED BY <1>1, <1>2, <1>3, <1>4, QuietSrv

\* do_write over several clusters starts.
LEMMA WriteManySrv ==
    ASSUME SrvInv, NEW c \in Cmd, NEW rq \in Requests, WriteMany(c, rq)
    PROVE  SrvInv' /\ FileMove
<1>1. FileMove
  BY StutterMove DEF WriteMany
<1>2. /\ req' \in [Cmd -> Requests \union {None}]
      /\ rq.blks \in Seq(Vblk) /\ rq.blks # <<>>
  BY Taken, ReqBlks DEF WriteMany
<1>3. /\ UNCHANGED <<tx, clock, wq, sent>> /\ wq \subseteq WorkType
      /\ cur'.c \in Cmd /\ cur'.blks \in Seq(Vblk) /\ cur'.blks # <<>>
  BY <1>2 DEF SrvInv, SrvTypes, WriteMany, vars
<1>4. Answers /\ IoAdded({})
  BY NoAnswer, IosKept DEF WriteMany
<1> QED BY <1>1, <1>2, <1>3, <1>4, QuietSrv

\* tx_write_prep leaves an owned table, and begins no allocation.
LEMMA Prep ==
    ASSUME SrvInv, NEW v \in Vblk, tx_write_prep(v)
    PROVE  /\ FileMove /\ tx' = tx
           /\ \E m \in Meta, e \in Entry :
                 /\ m = NewTable(v) /\ Owned(m, l1_off(v))'
                 /\ e = NewEntry(v) /\ e = l0'[m][l0_off(v)]
                 /\ e.off \in Nat /\ Safe(e.off)'
<1>1. FileMove /\ tx' = tx /\ OwnL0(v) /\ KeepsList
  BY PrepMove, SameList DEF SrvInv, FileInv, tx_write_prep
<1> QED BY <1>1, Prepared

\* So does the part of do_write before an allocation begins.
LEMMA Begin ==
    ASSUME SrvInv, NEW v \in Vblk, BeginTx(v), ~clock[v]
    PROVE  /\ FileMove
           /\ \E m \in Meta : m = NewTable(v) /\ Owned(m, l1_off(v))'
<1>1. TypeOK /\ ~Locked(v) /\ OwnL0(v) /\ TakeCluster
  BY DEF SrvInv, FileInv, Ledger, BeginTx
<1>2. FileMove /\ KeepsList
  BY <1>1, BeginMove, TakeKeeps
<1> QED BY <1>1, <1>2, Prepared

\* A handler that throws begins no allocation.
LEMMA Thrown ==
    ASSUME SrvInv, NEW v \in Vblk, Throws(v) PROVE FileMove /\ tx' = tx
<1>1. CASE UNCHANGED vars
  BY <1>1, StutterMove DEF vars
<1>2. CASE tx_write_prep(v)
  BY <1>2, Prep
<1> QED BY <1>1, <1>2 DEF Throws

\* A continuation in the work queue.
LEMMA Queued ==
    ASSUME SrvInv, NEW v \in Vblk, NEW c \in Cmd, NEW kind \in {"reply", "io"},
           NEW m \in Meta, m = NewTable(v), Owned(m, l1_off(v))',
           wq' = wq \union {Cont(kind, c, v)}
    PROVE  /\ wq' \subseteq WorkType
           /\ \A d \in wq' : d \in wq \/ Owned(d.m, l1_off(d.v))'
<1>1. PICK x : x = [kind |-> kind, c |-> c, v |-> v, m |-> m]
  OBVIOUS
<1>2. x \in WorkType /\ x.m = m /\ x.v = v /\ wq' = wq \union {x}
  BY <1>1 DEF WorkType, Cont
<1>3. Owned(x.m, l1_off(x.v))'
  BY <1>2
<1> QED BY <1>2, <1>3 DEF SrvInv, SrvTypes

\* do_write of one cluster that must be allocated.
LEMMA WriteAllocSrv ==
    ASSUME SrvInv, NEW c \in Cmd, NEW rq \in Requests, WriteAlloc(c, rq)
    PROVE  SrvInv' /\ FileMove
<1>1. PICK v \in Vblk : v = rq.blks[1]
  BY ReqBlks DEF WriteAlloc
<1>2. /\ Take(c, rq) /\ ~clock[v] /\ BeginTx(v) /\ Lock(v)
      /\ Kick({Alloc(c, t) : t \in tx' \ tx}) /\ UNCHANGED <<cur, wq, sent>>
  BY <1>1 DEF WriteAlloc
<1>3. FileMove /\ cur' = Idle /\ req' \in [Cmd -> Requests \union {None}] /\ Answers
  BY <1>2, Begin, Taken, NoAnswer
<1>4. PICK t \in Tx : t.v = v /\ t # NoTx /\ t \notin tx /\ tx' = tx \union {t} /\ tx' \ tx = {t}
  BY <1>2, Began
<1>5. PICK a \in IoType : a = Alloc(c, t) /\ a.t = t
  BY AllocIo
<1>6. Kick({a}) /\ a \notin ring
  <2>1. {Alloc(c, u) : u \in tx' \ tx} = {a}
    BY <1>4, <1>5
  <2>2. a \notin ring
    BY <1>4, <1>5 DEF SrvInv, Ledger, IsAlloc
  <2> QED BY <1>2, <2>1, <2>2
<1>7. IoAdded({a})
  BY <1>5, <1>6, IosAdded
<1>8. wq' = wq /\ wq \subseteq WorkType
  BY <1>2 DEF SrvInv, SrvTypes
<1> QED BY <1>2, <1>3, <1>4, <1>5, <1>7, <1>8, BeginSrv

\* do_write of one cluster that is locked.
LEMMA WriteQueuedSrv ==
    ASSUME SrvInv, NEW c \in Cmd, NEW rq \in Requests, WriteQueued(c, rq)
    PROVE  SrvInv' /\ FileMove
<1>1. PICK v \in Vblk : v = rq.blks[1]
  BY ReqBlks DEF WriteQueued
<1>2. /\ Take(c, rq) /\ tx_write_prep(v) /\ wq' = wq \union {Cont("reply", c, v)}
      /\ UNCHANGED <<cur, clock, sq, ring, sent>>
  BY <1>1 DEF WriteQueued
<1>3. /\ FileMove /\ cur' = Idle /\ req' \in [Cmd -> Requests \union {None}] /\ Answers
      /\ IoAdded({}) /\ tx' = tx
  BY <1>2, Prep, Taken, NoAnswer, IosKept
<1>4. wq' \subseteq WorkType /\ \A d \in wq' : d \in wq \/ Owned(d.m, l1_off(d.v))'
  BY <1>2, Prep, Queued
<1> QED BY <1>2, <1>3, <1>4, QuietSrv

\* do_write of one cluster that is ready.
LEMMA WriteReadySrv ==
    ASSUME SrvInv, NEW c \in Cmd, NEW rq \in Requests, WriteReady(c, rq)
    PROVE  SrvInv' /\ FileMove
<1>1. PICK v \in Vblk : v = rq.blks[1]
  BY ReqBlks DEF WriteReady
<1>2. /\ Take(c, rq) /\ tx_write_prep(v) /\ Send(c, Entry_(TRUE, NewEntry(v)))
      /\ UNCHANGED <<cur, clock, wq, sq, ring>>
  BY <1>1 DEF WriteReady
<1>3. PICK e \in Entry : e = NewEntry(v) /\ Safe(e.off)'
  BY <1>2, Prep
<1>4. PICK r \in ReplyType : r = Entry_(TRUE, e) /\ Safe(r.cl)'
  BY <1>3, Replies
<1>5. Answers
  BY <1>2, <1>3, <1>4, OneAnswer
<1>6. /\ FileMove /\ cur' = Idle /\ req' \in [Cmd -> Requests \union {None}]
      /\ IoAdded({}) /\ tx' = tx
  BY <1>2, Prep, Taken, IosKept
<1>7. wq' = wq /\ wq \subseteq WorkType
  BY <1>2 DEF SrvInv, SrvTypes
<1> QED BY <1>2, <1>5, <1>6, <1>7, QuietSrv

\* do_write of one cluster that finds no space.
LEMMA WriteThrowsSrv ==
    ASSUME SrvInv, NEW c \in Cmd, NEW rq \in Requests, WriteThrows(c, rq)
    PROVE  SrvInv' /\ FileMove
<1>1. PICK v \in Vblk : v = rq.blks[1]
  BY ReqBlks DEF WriteThrows
<1>2. /\ Take(c, rq) /\ Throws(v) /\ Send(c, Plain(FALSE))
      /\ UNCHANGED <<cur, clock, wq, sq, ring>>
  BY <1>1 DEF WriteThrows
<1>3. /\ FileMove /\ cur' = Idle /\ req' \in [Cmd -> Requests \union {None}]
      /\ IoAdded({}) /\ tx' = tx
  BY <1>2, Thrown, Taken, IosKept
<1>4. Answers
  BY <1>2, OneAnswer, Replies
<1>5. wq' = wq /\ wq \subseteq WorkType
  BY <1>2 DEF SrvInv, SrvTypes
<1> QED BY <1>2, <1>3, <1>4, <1>5, QuietSrv

\* The multi-cluster write in progress, and what an iteration leaves of it.
LEMMA CurLeft ==
    ASSUME SrvInv, cur # Idle
    PROVE  /\ cur.c \in Cmd /\ cur.blks[1] \in Vblk
           /\ \A ios : Piece(ios) =>
                 /\ cur' = Idle \/ (cur'.c \in Cmd /\ cur'.blks \in Seq(Vblk) /\ cur'.blks # <<>>)
                 /\ UNCHANGED <<req, sent>> /\ (Kick(ios) \/ Stage(ios))
<1>1. PICK s \in Seq(Vblk) : s = cur.blks /\ s # <<>>
  BY DEF SrvInv, SrvTypes
<1>2. s[1] \in Vblk /\ Tail(s) \in Seq(Vblk) /\ (Len(s) > 1 => Tail(s) # <<>>)
  <2>1. Len(s) \in Nat /\ Len(s) >= 1
    BY <1>1
  <2>2. s[1] \in Vblk
    BY <2>1, SeqElem
  <2>3. Tail(s) \in Seq(Vblk) /\ Len(Tail(s)) = Len(s) - 1
    BY <1>1, <2>1
  <2>4. ASSUME Len(s) > 1, Tail(s) = <<>> PROVE FALSE
    <3>0. \A z \in Seq(Vblk) : z = <<>> => Len(z) = 0
      OBVIOUS
    <3>1. Len(Tail(s)) = 0
      BY <2>3, <2>4, <3>0
    <3> QED BY <2>1, <2>3, <2>4, <3>1
  <2> QED BY <2>2, <2>3, <2>4
<1>3. cur.c \in Cmd
  BY DEF SrvInv, SrvTypes
<1>4. ASSUME NEW ios, Piece(ios)
      PROVE  /\ cur' = Idle \/ (cur'.c \in Cmd /\ cur'.blks \in Seq(Vblk) /\ cur'.blks # <<>>)
             /\ UNCHANGED <<req, sent>> /\ (Kick(ios) \/ Stage(ios))
  <2>1. CASE Len(cur.blks) > 1 /\ Stage(ios) /\ cur' = [c |-> cur.c, blks |-> Tail(cur.blks)]
    BY <1>1, <1>2, <1>3, <1>4, <2>1 DEF Piece
  <2>2. CASE Len(cur.blks) = 1 /\ Kick(ios) /\ cur' = Idle
    BY <1>4, <2>2 DEF Piece
  <2> QED BY <1>4, <2>1, <2>2 DEF Piece
<1> QED BY <1>1, <1>2, <1>3, <1>4

\* One cluster of several must be allocated.
LEMMA PieceAllocSrv == ASSUME SrvInv, PieceAlloc PROVE SrvInv' /\ FileMove
<1>1. PICK v \in Vblk, c \in Cmd : v = cur.blks[1] /\ c = cur.c
  BY CurLeft DEF PieceAlloc
<1>2. /\ cur # Idle /\ ~clock[v] /\ BeginTx(v) /\ Lock(v) /\ wq' = wq \union {Cont("io", c, v)}
      /\ Piece({Alloc(NoCmd, t) : t \in tx' \ tx})
  BY <1>1 DEF PieceAlloc
<1>3. PICK t \in Tx : t.v = v /\ t # NoTx /\ t \notin tx /\ tx' = tx \union {t} /\ tx' \ tx = {t}
  BY <1>2, Began
<1>4. PICK a \in IoType : a = Alloc(NoCmd, t) /\ a.t = t
  BY AllocIo
<1>5. Piece({a}) /\ a \notin ring
  <2>1. {Alloc(NoCmd, u) : u \in tx' \ tx} = {a}
    BY <1>3, <1>4
  <2>2. a \notin ring
    BY <1>3, <1>4 DEF SrvInv, Ledger, IsAlloc
  <2> QED BY <1>2, <2>1, <2>2
<1>6. /\ cur' = Idle \/ (cur'.c \in Cmd /\ cur'.blks \in Seq(Vblk) /\ cur'.blks # <<>>)
      /\ UNCHANGED <<req, sent>> /\ (Kick({a}) \/ Stage({a}))
  BY <1>2, <1>5, CurLeft
<1>7. IoAdded({a}) /\ Answers /\ req' \in [Cmd -> Requests \union {None}]
  BY <1>4, <1>5, <1>6, IosAdded, NoAnswer DEF SrvInv, SrvTypes
<1>8. FileMove
  BY <1>2, Begin
<1>9. wq' \subseteq WorkType /\ \A d \in wq' : d \in wq \/ Owned(d.m, l1_off(d.v))'
  BY <1>2, Begin, Queued
<1> QED BY <1>2, <1>3, <1>4, <1>6, <1>7, <1>8, <1>9, BeginSrv

\* One cluster of several is locked.
LEMMA PieceQueuedSrv == ASSUME SrvInv, PieceQueued PROVE SrvInv' /\ FileMove
<1>1. PICK v \in Vblk, c \in Cmd : v = cur.blks[1] /\ c = cur.c
  BY CurLeft DEF PieceQueued
<1>2. /\ cur # Idle /\ tx_write_prep(v) /\ wq' = wq \union {Cont("io", c, v)}
      /\ Piece({}) /\ UNCHANGED clock
  BY <1>1 DEF PieceQueued
<1>3. /\ cur' = Idle \/ (cur'.c \in Cmd /\ cur'.blks \in Seq(Vblk) /\ cur'.blks # <<>>)
      /\ UNCHANGED <<req, sent>> /\ (Kick({}) \/ Stage({}))
  BY <1>2, CurLeft
<1>4. IoAdded({}) /\ Answers /\ req' \in [Cmd -> Requests \union {None}]
  BY <1>3, IosAdded, NoAnswer DEF SrvInv, SrvTypes
<1>5. FileMove /\ tx' = tx
  BY <1>2, Prep
<1>6. wq' \subseteq WorkType /\ \A d \in wq' : d \in wq \/ Owned(d.m, l1_off(d.v))'
  BY <1>2, Prep, Queued
<1> QED BY <1>2, <1>3, <1>4, <1>5, <1>6, QuietSrv

\* One cluster of several is ready: the server writes it.
LEMMA PieceReadySrv == ASSUME SrvInv, PieceReady PROVE SrvInv' /\ FileMove
<1>1. PICK v \in Vblk, c \in Cmd : v = cur.blks[1] /\ c = cur.c
  BY CurLeft DEF PieceReady
<1>2. /\ cur # Idle /\ tx_write_prep(v) /\ UNCHANGED <<clock, wq>>
      /\ Piece({Rw(c, NewEntry(v).off)})
  BY <1>1 DEF PieceReady
<1>3. PICK e \in Entry : e = NewEntry(v) /\ e.off \in Nat /\ Safe(e.off)'
  BY <1>2, Prep
<1>4. PICK io \in IoType : io = Rw(c, e.off) /\ ~IsAlloc(io) /\ io.tag = c /\ io.cl = e.off
  BY <1>3, RwIo
<1>5. /\ cur' = Idle \/ (cur'.c \in Cmd /\ cur'.blks \in Seq(Vblk) /\ cur'.blks # <<>>)
      /\ UNCHANGED <<req, sent>> /\ (Kick({io}) \/ Stage({io}))
  BY <1>2, <1>3, <1>4, CurLeft
<1>6. IoAdded({io}) /\ Answers /\ req' \in [Cmd -> Requests \union {None}]
  BY <1>4, <1>5, IosAdded, NoAnswer DEF SrvInv, SrvTypes
<1>7. FileMove /\ tx' = tx
  BY <1>2, Prep
<1>8. wq' = wq /\ wq \subseteq WorkType /\ Safe(io.cl)'
  BY <1>2, <1>3, <1>4 DEF SrvInv, SrvTypes
<1> QED BY <1>2, <1>4, <1>5, <1>6, <1>7, <1>8, QuietSrv

\* One cluster of several finds no space.
LEMMA PieceThrowsSrv == ASSUME SrvInv, PieceThrows PROVE SrvInv' /\ FileMove
<1>1. PICK v \in Vblk, c \in Cmd : v = cur.blks[1] /\ c = cur.c
  BY CurLeft DEF PieceThrows
<1>2. /\ Throws(v) /\ Send(c, Plain(FALSE)) /\ cur' = Idle
      /\ UNCHANGED <<req, clock, wq, sq, ring>>
  BY <1>1 DEF PieceThrows
<1>3. /\ FileMove /\ IoAdded({}) /\ tx' = tx
  BY <1>2, Thrown, IosKept
<1>4. Answers
  BY <1>2, OneAnswer, Replies
<1>5. req' \in [Cmd -> Requests \union {None}] /\ wq' = wq /\ wq \subseteq WorkType
  BY <1>2 DEF SrvInv, SrvTypes
<1> QED BY <1>2, <1>3, <1>4, <1>5, QuietSrv

(***************************************************************************)
(* The completions.                                                        *)
(***************************************************************************)

\* What is drained was queued.
LEMMA DrainedQueued == ASSUME NEW v, NEW ok, NEW D \in Drained(v, ok) PROVE D \subseteq wq
<1> DEFINE queue  == {d \in wq : d.v = v}
           writes == {d \in queue : d.kind = "io"}
<1>1. CASE ok /\ writes # {}
  BY <1>1 DEF Drained
<1>2. CASE ~(ok /\ writes # {})
  BY <1>2 DEF Drained
<1> QED BY <1>1, <1>2

\* The cluster of an allocation that has ended is safe.
LEMMA FilledSafe ==
    ASSUME SrvInv, FileMove, NEW t \in tx, tx' = tx \ {t}, UNCHANGED snaps
    PROVE  t.out \in Nat /\ Safe(t.out)'
<1>1. TypeOK /\ XcowInv /\ RefsTyped /\ t.out \in Nat /\ head \in 1 .. head /\ head' = head
  BY RefType DEF SrvInv, FileInv, TypeOK, Tx, RefsTyped, head
<1>2. t.sn \in 1 .. head /\ t.out < snaps[t.sn].disk_hwm /\ \A u \in tx : t.out = u.out => t = u
  BY <1>1 DEF XcowInv, TxOwn
<1>3. /\ snaps[t.sn].disk_hwm \in Nat /\ snaps[head].disk_hwm \in Nat
      /\ snaps[t.sn].disk_hwm <= snaps[head].disk_hwm
  BY <1>1, <1>2 DEF XcowInv, RefBelowHwm, RefsTyped
<1>4. t.out < snaps[head].disk_hwm
  BY <1>1, <1>2, <1>3
<1>5. \A u \in tx' : t.out # u.out
  BY <1>2
<1>6. PICK o \in Nat : o = t.out
  BY <1>1
<1>7. Safe(o)'
  BY <1>1, <1>4, <1>5, <1>6 DEF Safe
<1> QED BY <1>1, <1>6, <1>7

\* An allocation completes, or fails.
LEMMA AllocDoneSrv ==
    ASSUME SrvInv, NEW io \in ring, NEW ok \in BOOLEAN, AllocDone(io, ok)
    PROVE  SrvInv' /\ FileMove
<1>1. IsAlloc(io) /\ io.t \in tx /\ io.t.v \in Vblk /\ io \notin sq
  BY DEF SrvInv, Ledger, AllocDone, FileInv, TypeOK, Tx
<1>2. /\ tx_write_commit(io.t) \/ Abort(io.t)
      /\ clock' = [clock EXCEPT ![io.t.v] = FALSE] /\ UNCHANGED <<req, cur>>
  BY DEF AllocDone
<1>3. FileMove /\ tx' = tx \ {io.t} /\ UNCHANGED snaps
  BY <1>1, <1>2, CommitMove DEF tx_write_commit, Abort
<1>4. /\ FileInv' /\ handle' # "none" /\ HeldSafe'
      /\ \A m \in Meta, i \in L1Idx : Owned(m, i) => Owned(m, i)'
  BY <1>3, MoveKeeps, HeldIsSafeNext
<1>5. ASSUME NEW d \in wq
      PROVE  d \in WorkType /\ \E e \in Entry : e = l0'[d.m][l0_off(d.v)] /\ e.off \in Nat /\ Safe(e.off)'
  <2>1. d \in WorkType /\ d.m \in Meta /\ d.v \in Vblk /\ Owned(d.m, l1_off(d.v))
    BY <1>5 DEF SrvInv, SrvTypes, WorkType, WqOwned
  <2>2. Owned(d.m, l1_off(d.v))'
    BY <1>4, <2>1, Indices
  <2> QED BY <1>4, <2>1, <2>2 DEF HeldSafe
<1>6. PICK out \in Nat : out = io.t.out /\ Safe(out)'
  BY <1>1, <1>3, FilledSafe
<1>7. PICK D \in Drained(io.t.v, ok) :
          LET writes  == {d \in D : d.kind = "io"}
              replies == IF ok THEN D \ writes ELSE D
              ios     == {Rw(d.c, l0'[d.m][l0_off(d.v)].off) : d \in writes}
          IN  /\ wq' = wq \ D
              /\ sent' = [c \in Cmd |->
                    IF c = io.tag THEN Append(sent[c], Paddr(ok, io.t.out))
                    ELSE IF \E d \in replies : d.c = c
                    THEN Append(sent[c], ContReply(CHOOSE d \in replies : d.c = c, ok))
                    ELSE sent[c]]
              /\ \/ /\ ok /\ writes # {}
                    /\ ring' = (ring \ {io}) \union sq \union ios /\ sq' = {}
                    /\ UNCHANGED count
                 \/ /\ ~(ok /\ writes # {})
                    /\ ring' = ring \ {io} /\ UNCHANGED sq
                    /\ count' = [c \in Cmd |->
                          IF \E d \in writes : d.c = c THEN count[c] - 1 ELSE count[c]]
  BY DEF AllocDone
<1> DEFINE writes  == {d \in D : d.kind = "io"}
           replies == IF ok THEN D \ writes ELSE D
           ios     == {Rw(d.c, l0'[d.m][l0_off(d.v)].off) : d \in writes}
<1>8. D \subseteq wq /\ writes \subseteq wq /\ replies \subseteq wq
  BY DrainedQueued
<1>9. ASSUME NEW x \in ios PROVE x \in IoType /\ ~IsAlloc(x) /\ x.tag \in Cmd /\ Safe(x.cl)'
  <2>1. PICK d \in wq : x = Rw(d.c, l0'[d.m][l0_off(d.v)].off)
    BY <1>8
  <2>2. PICK e \in Entry : e = l0'[d.m][l0_off(d.v)] /\ e.off \in Nat /\ Safe(e.off)'
    BY <1>5
  <2>3. d.c \in Cmd /\ x = Rw(d.c, e.off)
    BY <1>5, <2>1, <2>2 DEF WorkType
  <2> QED BY <2>2, <2>3, RwIo
<1>10. ASSUME NEW d \in wq
       PROVE  \E r \in ReplyType : r = ContReply(d, ok) /\ (r.fwd => Safe(r.cl)')
  <2>1. PICK e \in Entry : e = l0'[d.m][l0_off(d.v)] /\ e.off \in Nat /\ Safe(e.off)'
    BY <1>5
  <2>2. CASE d.kind = "reply"
    <3>1. ContReply(d, ok) = Entry_(ok, e)
      BY <2>1, <2>2 DEF ContReply
    <3> QED BY <2>1, <3>1, Replies
  <2>3. CASE d.kind # "reply"
    <3>1. ContReply(d, ok) = Plain(ok)
      BY <2>3 DEF ContReply
    <3> QED BY <3>1, Replies
  <2> QED BY <2>2, <2>3
<1>11. /\ sent' = [c \in Cmd |->
                    IF c = io.tag THEN Append(sent[c], Paddr(ok, io.t.out))
                    ELSE IF \E d \in replies : d.c = c
                    THEN Append(sent[c], ContReply(CHOOSE d \in replies : d.c = c, ok))
                    ELSE sent[c]]
       /\ wq' = wq \ D
       /\ \/ ring' = (ring \ {io}) \union sq \union ios /\ sq' = {}
          \/ ring' = ring \ {io} /\ sq' = sq
  BY <1>7
<1> HIDE DEF writes, replies, ios
<1>12. ASSUME NEW c \in Cmd
       PROVE  \/ sent'[c] = sent[c]
              \/ \E r \in ReplyType : sent'[c] = Append(sent[c], r) /\ (r.fwd => Safe(r.cl)')
  <2>1. CASE c = io.tag
    <3>1. sent'[c] = Append(sent[c], Paddr(ok, out))
      BY <1>6, <1>11, <2>1
    <3>2. PICK r \in ReplyType : r = Paddr(ok, out) /\ r.cl = out
      BY Replies
    <3> QED BY <1>6, <3>1, <3>2
  <2>2. CASE c # io.tag /\ \E d \in replies : d.c = c
    <3>1. PICK d \in replies : d = CHOOSE x \in replies : x.c = c
      BY <2>2
    <3>2. sent'[c] = Append(sent[c], ContReply(d, ok))
      BY <1>11, <2>2, <3>1
    <3>3. d \in wq
      BY <1>8, <3>1
    <3> QED BY <1>10, <3>2, <3>3
  <2>3. CASE c # io.tag /\ ~\E d \in replies : d.c = c
    BY <1>11, <2>3
  <2> QED BY <2>1, <2>2, <2>3
<1>13. sent' \in [Cmd -> Seq(ReplyType)]
  <2>1. ASSUME NEW c \in Cmd PROVE sent'[c] \in Seq(ReplyType)
    <3>1. sent[c] \in Seq(ReplyType)
      BY DEF SrvInv, SrvTypes
    <3> QED BY <1>12, <3>1
  <2> QED BY <1>11, <2>1
<1>14. Answers
  BY <1>12, <1>13 DEF Answers
<1>15. /\ sq' \subseteq IoType /\ ring' \subseteq IoType
       /\ \A x \in sq' \union ring' : ~IsAlloc(x) => x \in sq \union ring \/ x \in ios
       /\ \A x : IsAlloc(x) => (x \in sq' \union ring' <=> x \in sq \union ring /\ x # io)
       /\ \A x \in sq' : IsAlloc(x) => x \notin ring'
  <2>1. /\ sq \subseteq IoType /\ ring \subseteq IoType /\ ios \subseteq IoType
        /\ \A x \in ios : ~IsAlloc(x)
        /\ \A x \in sq : IsAlloc(x) => x \notin ring
    BY <1>9 DEF SrvInv, SrvTypes, Ledger
  <2> QED BY <1>1, <1>11, <2>1
<1>16. Ledger'
  BY <1>1, <1>2, <1>3, <1>15, LedgerDone
<1>17. ToldSafe'
  BY <1>3, <1>9, <1>14, <1>15, ToldStep
<1>18. WqOwned' /\ wq' \subseteq WorkType
  BY <1>3, <1>11, WqStep DEF SrvInv, SrvTypes
<1>19. clock' \in [Vblk -> BOOLEAN]
  BY <1>2 DEF SrvInv, SrvTypes
<1>20. \A x \in sq' \union ring' : ~IsAlloc(x) => x.tag \in Cmd
  BY <1>9, <1>15 DEF SrvInv, SrvTypes
<1>21. SrvTypes'
  BY <1>2, <1>13, <1>15, <1>18, <1>19, <1>20 DEF SrvInv, SrvTypes, Idle, IsAlloc
<1> QED BY <1>3, <1>4, <1>16, <1>17, <1>18, <1>21 DEF SrvInv

\* A read, write or fsync completes.
LEMMA RwDoneSrv ==
    ASSUME SrvInv, NEW io \in ring, NEW ok \in BOOLEAN, RwDone(io, ok)
    PROVE  SrvInv' /\ FileMove
<1>1. /\ ~IsAlloc(io) /\ io.tag \in Cmd /\ ring' = ring \ {io} /\ sq' = sq
      /\ UNCHANGED <<tx, clock, req, cur, wq>>
  BY DEF RwDone, vars, SrvInv, SrvTypes
<1>2. FileMove
  BY StutterMove DEF RwDone
<1>3. FileInv' /\ handle' # "none" /\ WqOwned'
  BY <1>1, <1>2, MoveKeeps, WqStep
<1>4. Answers
  <2>1. CASE sent' = sent
    BY <2>1, NoAnswer
  <2>2. CASE Send(io.tag, Plain(ok))
    BY <1>1, <2>2, OneAnswer, Replies
  <2> QED BY <2>1, <2>2 DEF RwDone, Send
<1>5. ToldSafe'
  BY <1>1, <1>2, <1>4, ToldStep
<1>6. Ledger'
  <2>1. \A x : IsAlloc(x) => (x \in sq' \union ring' <=> x \in sq \union ring)
    BY <1>1
  <2>2. \A x \in sq' : IsAlloc(x) => x \notin ring'
    BY <1>1 DEF SrvInv, Ledger
  <2> QED BY <1>1, <2>1, <2>2, LedgerSame DEF SrvInv
<1>7. SrvTypes'
  BY <1>1, <1>4 DEF SrvInv, SrvTypes, Answers, Idle, IsAlloc
<1> QED BY <1>2, <1>3, <1>5, <1>6, <1>7 DEF SrvInv

(***************************************************************************)
(* The initial states.                                                     *)
(***************************************************************************)

\* A file with one cluster written and a snapshot on top.
LEMMA FileForked == ASSUME Forked, tx = {}, handle = "narrow" PROVE FileInv
<1>1. PICK r \in Nat : r = FormatHwm
  BY Sizes DEF FormatHwm
<1>2. /\ l1_clusters \in Nat /\ l1_clusters >= 1 /\ HwmLimit \in Nat
      /\ r = 3 + l1_clusters /\ hwm = r + 1 + l1_clusters /\ hwm <= HwmLimit
  BY <1>1, Sizes, LimitAssumption DEF FormatHwm, Forked
<1>3. hwm \in 0 .. HwmLimit /\ 3 \in Meta /\ r \in Meta /\ r + 1 \in Meta /\ r >= 4 /\ hwm >= 1
  BY <1>2 DEF Meta
<1>4. /\ empty \in Entry /\ empty.off = 0 /\ empty.w = FALSE
      /\ encode(r, TRUE) \in Entry /\ encode(r, FALSE) \in Entry /\ encode(1, TRUE) \in Entry
      /\ encode(r, TRUE).off = r /\ encode(r, FALSE).off = r /\ encode(1, TRUE).off = 1
      /\ encode(r, FALSE).w = FALSE
  BY DEF empty, encode, Entry
<1>5. /\ SnapEntry(3, 2) \in SnapType /\ SnapEntry(3, 2).root = 3 /\ SnapEntry(3, 2).disk_hwm = 2
      /\ SnapEntry(r + 1, 2) \in SnapType /\ SnapEntry(r + 1, 2).root = r + 1
      /\ SnapEntry(r + 1, 2).disk_hwm = 2
  BY <1>3 DEF SnapEntry, SnapType
<1>6. /\ snaps \in Seq(SnapType) /\ Len(snaps) = 2 /\ head = 2
      /\ snaps[1].root = 3 /\ snaps[2].root = r + 1
      /\ snaps[1].disk_hwm = 2 /\ snaps[2].disk_hwm = 2
  <2>1. snaps = <<SnapEntry(3, 2), SnapEntry(r + 1, 2)>>
    BY <1>1 DEF Forked
  <2> QED BY <1>5, <2>1 DEF head
<1>7. 0 \in L1Idx /\ 0 \in L0Idx
  BY Sizes, SizeAssumption DEF L1Idx, L0Idx
<1>8. /\ root = [m \in Meta |-> [EmptyRoot EXCEPT ![0] =
                   IF m = 3 THEN encode(r, TRUE) ELSE IF m = r + 1 THEN encode(r, FALSE) ELSE empty]]
      /\ l0 = [m \in Meta |-> [EmptyL0 EXCEPT ![0] = IF m = r THEN encode(1, TRUE) ELSE empty]]
  BY <1>1 DEF Forked
<1>9. EmptyRoot = [i \in L1Idx |-> empty] /\ EmptyL0 = [j \in L0Idx |-> empty]
  BY DEF EmptyRoot, EmptyL0
<1>10. root \in [Meta -> [L1Idx -> Entry]]
  BY <1>4, <1>7, <1>8, <1>9
<1>11. l0 \in [Meta -> [L0Idx -> Entry]]
  BY <1>4, <1>7, <1>8, <1>9
<1>12. TypeOK
  BY <1>3, <1>6, <1>10, <1>11 DEF TypeOK, SnapType
<1>13. ASSUME NEW i \in L1Idx
       PROVE  /\ Ref(1, i) = IF i = 0 THEN encode(r, TRUE) ELSE empty
              /\ Ref(2, i) = IF i = 0 THEN encode(r, FALSE) ELSE empty
  BY <1>3, <1>6, <1>7, <1>8, <1>9 DEF Ref
<1>14. ASSUME NEW j \in L0Idx PROVE l0[r][j] = IF j = 0 THEN encode(1, TRUE) ELSE empty
  BY <1>3, <1>7, <1>8, <1>9
<1>15. ASSUME NEW k \in 1 .. head, NEW i \in L1Idx
       PROVE  /\ k \in {1, 2}
              /\ Ref(k, i).off = IF i = 0 THEN r ELSE 0
              /\ valid(Ref(k, i)) <=> i = 0
              /\ valid(Ref(k, i)) /\ Ref(k, i).w => k = 1
              /\ Ref(k, i).off < hwm
              /\ \A j \in L0Idx : i = 0 => Leaf(k, i, j) = IF j = 0 THEN encode(1, TRUE) ELSE empty
  <2>1. k \in {1, 2}
    BY <1>6
  <2>2. Ref(k, i).off = IF i = 0 THEN r ELSE 0
    BY <1>4, <1>13, <2>1
  <2>3. valid(Ref(k, i)) <=> i = 0
    BY <1>3, <2>2 DEF valid
  <2>4. valid(Ref(k, i)) /\ Ref(k, i).w => k = 1
    BY <1>4, <1>13, <2>1, <2>3
  <2>5. Ref(k, i).off < hwm
    BY <1>2, <1>3, <2>2
  <2>6. \A j \in L0Idx : i = 0 => Leaf(k, i, j) = IF j = 0 THEN encode(1, TRUE) ELSE empty
    BY <1>14, <2>2 DEF Leaf
  <2> QED BY <2>1, <2>2, <2>3, <2>4, <2>5, <2>6
<1>16. ASSUME NEW k \in 1 .. head, NEW i \in L1Idx, NEW j \in L0Idx
       PROVE  Cluster(k, i, j) = IF i = 0 /\ j = 0 THEN 1 ELSE 0
  <2>1. CASE i # 0
    BY <1>15, <2>1 DEF Cluster
  <2>2. CASE i = 0
    <3>1. Cluster(k, i, j) = Leaf(k, i, j).off
      BY <1>15, <2>2 DEF Cluster
    <3>2. Leaf(k, i, j) = IF j = 0 THEN encode(1, TRUE) ELSE empty
      BY <1>15, <2>2
    <3> QED BY <1>4, <2>2, <3>1, <3>2
  <2> QED BY <2>1, <2>2
<1>17. RootsOwn
  <2>1. ASSUME NEW k \in 1 .. head PROVE snaps[k].root < hwm
    <3>1. k = 1 \/ k = 2
      BY <1>6
    <3> QED BY <1>2, <1>6, <3>1
  <2>2. ASSUME NEW k1 \in 1 .. head, NEW k2 \in 1 .. head, snaps[k1].root = snaps[k2].root
        PROVE  k1 = k2
    <3>1. (k1 = 1 \/ k1 = 2) /\ (k2 = 1 \/ k2 = 2)
      BY <1>6
    <3> QED BY <1>3, <1>6, <2>2, <3>1
  <2> QED BY <1>3, <1>15, <2>1, <2>2 DEF RootsOwn
<1>18. L0Order
  <2>1. \A k1, k2 \in 1 .. head, i2 \in L1Idx :
           ~(k1 < k2 /\ valid(Ref(k2, i2)) /\ Ref(k2, i2).w)
    <3> SUFFICES ASSUME NEW k1 \in 1 .. head, NEW k2 \in 1 .. head, NEW i2 \in L1Idx,
                        k1 < k2, valid(Ref(k2, i2)), Ref(k2, i2).w
                 PROVE  FALSE
      OBVIOUS
    <3>1. k2 = 1
      BY <1>15
    <3>2. k1 \in Nat /\ k1 >= 1
      BY <1>6
    <3> QED BY <3>1, <3>2
  <2>2. \A k1, k2 \in 1 .. head, i1, i2 \in L1Idx :
           valid(Ref(k1, i1)) /\ valid(Ref(k2, i2)) => i1 = i2
    BY <1>15
  <2> QED BY <2>1, <2>2 DEF L0Order
<1>19. Origin
  <2> SUFFICES ASSUME NEW k1 \in 1 .. head, NEW k2 \in 1 .. head, NEW i1 \in L1Idx, NEW i2 \in L1Idx,
                      NEW j1 \in L0Idx, NEW j2 \in L0Idx,
                      Cluster(k1, i1, j1) # 0, Cluster(k1, i1, j1) = Cluster(k2, i2, j2)
               PROVE  i1 = i2 /\ j1 = j2 /\ Ref(k1, i1).off <= Ref(k2, i2).off
    BY DEF Origin
  <2>1. i1 = 0 /\ j1 = 0 /\ i2 = 0 /\ j2 = 0
    BY <1>16
  <2>2. Ref(k1, i1).off = r /\ Ref(k2, i2).off = r
    BY <1>15, <2>1
  <2> QED BY <2>1, <2>2
<1>20. RefBelowHwm
  <2>1. \A k \in 1 .. head : snaps[k].disk_hwm = 2
    BY <1>6
  <2> QED BY <1>16, <2>1 DEF RefBelowHwm
<1>21. TxOwn
  BY DEF TxOwn
<1> QED BY <1>12, <1>17, <1>18, <1>19, <1>20, <1>21, OriginIff DEF FileInv, XcowInv

\* The server starts with nothing in flight.
LEMMA SrvStart == SrvInit => SrvInv
<1> SUFFICES ASSUME SrvInit PROVE SrvInv
  OBVIOUS
<1>1. FileInv /\ handle # "none"
  BY FileFormatted, FileForked DEF SrvInit, Formatted
<1>2. SrvTypes
  BY DEF SrvInit, SrvTypes
<1>3. Ledger
  BY DEF SrvInit, Ledger, Locked
<1>4. ToldSafe
  <2>1. \A c \in Cmd : Len(sent[c]) = 0
    BY DEF SrvInit
  <2>2. \A c \in Cmd : 1 .. Len(sent[c]) = {}
    BY <2>1
  <2> QED BY <2>2 DEF SrvInit, ToldSafe
<1>5. WqOwned
  BY DEF SrvInit, WqOwned
<1> QED BY <1>1, <1>2, <1>3, <1>4, <1>5 DEF SrvInv

(***************************************************************************)
(* The theorems.                                                           *)
(***************************************************************************)

\* Every handler and every completion keeps the invariant, and does to the
\* map file what a step of XcowFile does.
LEMMA SrvStep == SrvInv /\ [SrvNext]_allVars => SrvInv' /\ FileMove
<1> SUFFICES ASSUME SrvInv, [SrvNext]_allVars PROVE SrvInv' /\ FileMove
  OBVIOUS
<1>1. ASSUME NEW c \in Cmd, NEW rq \in Requests, Submit(c, rq) PROVE SrvInv' /\ FileMove
  BY <1>1, ReadOneSrv, ReadManySrv, FlushSrv, SnapshotSrv, WriteAllocSrv, WriteQueuedSrv,
     WriteReadySrv, WriteThrowsSrv, WriteManySrv DEF Submit
<1>2. CASE WritePiece
  BY <1>2, PieceAllocSrv, PieceQueuedSrv, PieceReadySrv, PieceThrowsSrv DEF WritePiece
<1>3. ASSUME NEW io \in ring, Complete(io) PROVE SrvInv' /\ FileMove
  BY <1>3, AllocDoneSrv, RwDoneSrv DEF Complete
<1>4. CASE UNCHANGED allVars
  <2>1. UNCHANGED vars /\ UNCHANGED <<req, cur, clock, wq, sq, ring, sent, tx>>
    BY <1>4 DEF allVars, srvVars, vars
  <2>2. FileMove /\ Answers /\ IoAdded({})
    BY <2>1, StutterMove, NoAnswer, IosKept
  <2>3. /\ req' \in [Cmd -> Requests \union {None}] /\ wq' \subseteq WorkType
        /\ cur' = Idle \/ (cur'.c \in Cmd /\ cur'.blks \in Seq(Vblk) /\ cur'.blks # <<>>)
        /\ \A d \in wq' : d \in wq \/ Owned(d.m, l1_off(d.v))'
    BY <2>1 DEF SrvInv, SrvTypes
  <2> QED BY <2>1, <2>2, <2>3, QuietSrv
<1> QED BY <1>1, <1>2, <1>3, <1>4 DEF SrvNext

\* The invariant of the server.
THEOREM SrvInvariant == SrvSpec => []SrvInv
  BY SrvStart, SrvStep, PTL DEF SrvSpec

\* Whatever the guest asks and the kernel reports, in any order, the server
\* takes only the steps of module XcowFile; in particular it never begins
\* two allocations of one cluster.
THEOREM FileRefined == SrvSpec => RefinesFile
<1>1. SrvInv /\ [SrvNext]_allVars => [Next]_vars
  BY SrvStep DEF FileMove
<1> QED BY <1>1, SrvInvariant, PTL DEF SrvSpec, RefinesFile

\* A cluster is locked exactly while one transaction of it is open, and that
\* transaction's I/O is one and is still with the ring: no lock outlives its
\* allocation, whatever fails.
THEOREM LockHeldHolds == SrvSpec => []LockHeld
<1>1. SrvInv => LockHeld
  <2> SUFFICES ASSUME SrvInv, NEW v \in Vblk
               PROVE  /\ clock[v] <=> Locked(v)
                      /\ clock[v] => Cardinality({io \in sq \union ring : IsAlloc(io) /\ io.t.v = v}) = 1
    BY DEF LockHeld
  <2>1. Ledger
    BY DEF SrvInv
  <2>2. ASSUME clock[v]
        PROVE  Cardinality({io \in sq \union ring : IsAlloc(io) /\ io.t.v = v}) = 1
    <3>1. PICK t \in tx : t.v = v
      BY <2>1, <2>2 DEF Ledger, Locked
    <3>2. PICK a \in sq \union ring : IsAlloc(a) /\ a.t = t
      BY <2>1 DEF Ledger
    <3>3. {io \in sq \union ring : IsAlloc(io) /\ io.t.v = v} = {a}
      BY <2>1, <3>1, <3>2 DEF Ledger
    <3> QED BY <3>3, FS_Singleton
  <2> QED BY <2>1, <2>2 DEF Ledger
<1> QED BY <1>1, SrvInvariant, PTL

\* No write is let through to a cluster that is still being zeroed or
\* copied, neither by a reply to the router nor by the server's own I/O.
THEOREM NoWriteDuringAllocHolds == SrvSpec => []NoWriteDuringAlloc
<1>1. SrvInv => NoWriteDuringAlloc
  BY DEF SrvInv, Ledger, ToldSafe, Safe, NoWriteDuringAlloc
<1> QED BY <1>1, SrvInvariant, PTL
=============================================================================
