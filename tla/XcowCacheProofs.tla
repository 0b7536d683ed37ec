-------------------------- MODULE XcowCacheProofs --------------------------
(***************************************************************************)
(* Proofs about the data path of XcowCache, for every size of the cache,   *)
(* map file and disk, every number of processors and every set of          *)
(* commands: no copy of it ever holds two translations of one cluster, its *)
(* state keeps its types and, with one queue and the promises of Serial,   *)
(* superseded snapshots keep their contents, the cache agrees with the     *)
(* map, and reads return the last write that was served.                   *)
(***************************************************************************)
EXTENDS XcowCache, XcowReplyProofs, WellFoundedInduction

\* The cache keeps its lines and ways, whatever they hold.
CacheShape == ways = [l \in Line |-> [i \in Way |-> ways[l][i]]]

\* What keeps a cluster in at most one way: the cache's operations.
CacheStep ==
    \/ UNCHANGED ways
    \/ \E v, p, w : lba_update(v, p, w)
    \/ \E v : lba_flush_range(v)
    \/ lba_clear_writable

\* An update replaces the way that holds the cluster, if any does: there is
\* only one.
LEMMA SlotHolds ==
    ASSUME CacheUnique, NEW v, idx(v) \in Line, Cached(v)
    PROVE  Holding(v) = {Slot(v)}
  <1>1. PICK i \in Holding(v) : TRUE
    BY DEF Cached
  <1>2. i \in Way /\ ways[idx(v)][i].vld /\ ways[idx(v)][i].tag = tag(v)
    BY <1>1 DEF Holding
  <1>3. \A j \in Holding(v) : j = i
    BY <1>2 DEF Holding, CacheUnique
  <1>4. Holding(v) = {i}
    BY <1>1, <1>3
  <1>5. i \in Int /\ i <= i
    BY <1>2, CacheAssumption DEF Way
  <1>6. First({i}) = i
    BY <1>5 DEF First
  <1>7. Slot(v) = i
    BY <1>4, <1>6 DEF Slot, Cached
  <1> QED
    BY <1>4, <1>7

\* lba_update of any answer leaves no second translation of its cluster: the
\* way it fills is the one that held it, or none did.
LEMMA UpdateUnique ==
    ASSUME CacheShape, CacheUnique, NEW v, NEW p, NEW w, lba_update(v, p, w)
    PROVE  CacheShape' /\ CacheUnique'
  <1> DEFINE s == Slot(v)  k == idx(v)
  <1>1. ways' = [l \in Line |-> [i \in Way |->
                   IF l = k /\ i = s THEN Filled(v, p, w) ELSE ways[l][i]]]
    BY DEF lba_update, CacheShape
  <1>2. CacheShape'
    BY <1>1 DEF CacheShape
  <1>3. \A i \in Way : k \in Line /\ i # s => ~(ways[k][i].vld /\ ways[k][i].tag = tag(v))
    <2>1. CASE Cached(v)
      BY <2>1, SlotHolds DEF Holding
    <2>2. CASE ~Cached(v)
      BY <2>2 DEF Cached, Holding
    <2> QED
      BY <2>1, <2>2
  <1>4. ASSUME NEW l \in Line, NEW i \in Way, NEW j \in Way,
               ways'[l][i].vld, ways'[l][j].vld, ways'[l][i].tag = ways'[l][j].tag
        PROVE  i = j
    <2> DEFINE e(x) == ways'[l][x]
    <2>1. \A x \in Way : e(x) = IF l = k /\ x = s THEN Filled(v, p, w) ELSE ways[l][x]
      BY <1>1
    <2>2. Filled(v, p, w).tag = tag(v)
      BY DEF Filled
    <2>3. CASE l # k \/ (i # s /\ j # s)
      BY <1>4, <2>1, <2>3 DEF CacheUnique
    <2>4. CASE l = k /\ i = s
      BY <1>3, <1>4, <2>1, <2>2, <2>4
    <2>5. CASE l = k /\ j = s
      BY <1>3, <1>4, <2>1, <2>2, <2>5
    <2> QED
      BY <2>3, <2>4, <2>5
  <1> QED
    BY <1>2, <1>4 DEF CacheUnique

\* Dropping a cluster and clearing WRITABLE make nothing valid and change
\* no tag.
LEMMA ShrinkUnique ==
    ASSUME CacheShape, CacheUnique,
           \/ \E v : lba_flush_range(v)
           \/ lba_clear_writable
    PROVE  CacheShape' /\ CacheUnique'
  <1>1. /\ ways' = [l \in Line |-> [i \in Way |-> ways'[l][i]]]
        /\ \A l \in Line, i \in Way : /\ ways'[l][i].vld => ways[l][i].vld
                                      /\ ways'[l][i].tag = ways[l][i].tag
    <2>1. CASE \E v : lba_flush_range(v)
      <3>1. PICK v : lba_flush_range(v)
        BY <2>1
      <3>2. ways' = [l \in Line |-> IF l = idx(v) THEN Dropped(v) ELSE [i \in Way |-> ways[l][i]]]
        BY <3>1 DEF lba_flush_range, CacheShape
      <3>3. Dropped(v) = [i \in Way |-> Dropped(v)[i]]
        BY DEF Dropped
      <3>4. \A i \in Way : /\ Dropped(v)[i].vld => ways[idx(v)][i].vld
                           /\ Dropped(v)[i].tag = ways[idx(v)][i].tag
        BY DEF Dropped
      <3> QED
        BY <3>2, <3>3, <3>4
    <2>2. CASE lba_clear_writable
      BY <2>2 DEF lba_clear_writable
    <2> QED
      BY <2>1, <2>2
  <1> QED
    BY <1>1 DEF CacheShape, CacheUnique

\* The ways w of some processor hold nothing twice, and neither do those of
\* the processors the program does not run on.
Sound(w) ==
    /\ w = [l \in Line |-> [i \in Way |-> w[l][i]]]
    /\ \A l \in Line : \A i, j \in Way :
          w[l][i].vld /\ w[l][j].vld /\ w[l][i].tag = w[l][j].tag => i = j

CopiesSound ==
    /\ cpu \in Cpus
    /\ copies = [p \in Cpus |-> copies[p]]
    /\ \A p \in Cpus : Sound(copies[p].ways)

\* Empty maps hold nothing twice.
LEMMA CacheInitUnique ==
    ASSUME CacheInit
    PROVE  CacheShape /\ CacheUnique /\ CopiesSound
<1>1. Empty.ways = NoWays
  BY DEF Empty
<1>2. Sound(NoWays)
  BY DEF NoWays, Sound
<1>3. CacheShape /\ CacheUnique
  BY <1>1, <1>2 DEF CacheInit, CacheShape, CacheUnique, Sound
<1>4. CopiesSound
  BY <1>1, <1>2, CacheAssumption DEF CacheInit, CopiesSound
<1> QED BY <1>3, <1>4

\* On another processor the program finds maps that hold nothing twice, and
\* leaves such.
LEMMA RunOnUnique ==
    ASSUME CacheShape, CacheUnique, CopiesSound, NEW p \in Cpus, run_on(p)
    PROVE  CacheShape' /\ CacheUnique' /\ CopiesSound'
<1>1. Sound(ways) /\ Sound(copies[p].ways)
  BY DEF CacheShape, CacheUnique, CopiesSound, Sound
<1>2. ways' = copies[p].ways /\ cpu' = p
  BY DEF run_on
<1>3. CacheShape' /\ CacheUnique'
  BY <1>1, <1>2 DEF CacheShape, CacheUnique, Sound
<1>4. copies' = [u \in Cpus |-> IF u = cpu THEN [ways |-> ways, mru |-> mru] ELSE copies[u]]
  BY DEF run_on, CopiesSound
<1>5. \A u \in Cpus : copies'[u].ways = IF u = cpu THEN ways ELSE copies[u].ways
  BY <1>4
<1>6. \A u \in Cpus : Sound(copies'[u].ways)
  BY <1>1, <1>5 DEF CopiesSound
<1> QED BY <1>2, <1>3, <1>4, <1>6 DEF CopiesSound

\* Only a move of the controller reaches the maps of other processors.
LEMMA PathStepsCpus ==
    ASSUME PathNext
    PROVE  UNCHANGED otherCpus \/ \E p \in Cpus : move(p)
<1>1. ASSUME NEW c \in Cmd, NEW r \in Asked, NEW q \in Queues, Vsq(c, r, q)
      PROVE  UNCHANGED otherCpus
  BY <1>1 DEF Vsq, vsq_hit, vsq_miss, vsq_snapshot, Accept
<1>2. ASSUME NEW q \in Queues, srv_take(q)
      PROVE  UNCHANGED otherCpus
  BY <1>2 DEF srv_take, cacheVars
<1>3. ASSUME NEW q \in Queues, Ncq(q)
      PROVE  UNCHANGED otherCpus
  BY <1>3 DEF Ncq, ncq_valid, ncq_plain, ncq_snapshot, TakeNcq
<1>4. ASSUME NEW io \in ring, srv_done(io)
      PROVE  UNCHANGED otherCpus
  BY <1>4 DEF srv_done, cacheVars
<1>5. ASSUME NEW c \in Cmd, hq_done(c)
      PROVE  UNCHANGED otherCpus
  BY <1>5 DEF hq_done, cacheVars
<1> QED BY <1>1, <1>2, <1>3, <1>4, <1>5 DEF PathNext

\* Every other step of the data path is an operation of the cache in use, or
\* leaves it.
LEMMA PathStepsCache ==
    ASSUME PathNext
    PROVE  CacheStep \/ \E p \in Cpus : move(p)
  <1>1. ASSUME NEW c \in Cmd, NEW r \in Asked, NEW q \in Queues, Vsq(c, r, q)
        PROVE  CacheStep
    BY <1>1 DEF Vsq, vsq_hit, vsq_miss, vsq_snapshot, CacheStep
  <1>2. ASSUME NEW q \in Queues, srv_take(q)
        PROVE  CacheStep
    BY <1>2 DEF srv_take, cacheVars, CacheStep
  <1>3. ASSUME NEW q \in Queues, Ncq(q)
        PROVE  CacheStep
    <2>1. CASE ncq_valid(q)
      BY <2>1 DEF ncq_valid, CacheStep
    <2>2. CASE ncq_plain(q)
      BY <2>2 DEF ncq_plain, CacheStep
    <2>3. CASE ncq_snapshot(q)
      BY <2>3 DEF ncq_snapshot, cacheVars, CacheStep
    <2> QED
      BY <1>3, <2>1, <2>2, <2>3 DEF Ncq
  <1>4. ASSUME NEW io \in ring, srv_done(io)
        PROVE  CacheStep
    BY <1>4 DEF srv_done, cacheVars, CacheStep
  <1>5. ASSUME NEW c \in Cmd, hq_done(c)
        PROVE  CacheStep
    BY <1>5 DEF hq_done, cacheVars, CacheStep
  <1> QED
    BY <1>1, <1>2, <1>3, <1>4, <1>5 DEF PathNext

\* However commands, responses of any content, snapshots and moves of the
\* controller between processors interleave, a cluster has at most one
\* translation in the cache the program uses, so that the update or
\* flush of it leaves no other for a later lookup.
THEOREM CacheUniqueHolds == PathSpec => []CacheUnique
  <1> DEFINE Inv == CacheShape /\ CacheUnique /\ CopiesSound
  <1>1. PathInit => Inv
    BY CacheInitUnique DEF PathInit
  <1>2. Inv /\ [PathNext]_dataVars => Inv'
    <2> SUFFICES ASSUME Inv, [PathNext]_dataVars
                 PROVE  Inv'
      OBVIOUS
    <2>1. CASE PathNext
      <3>1. CASE \E p \in Cpus : move(p)
        BY <3>1, RunOnUnique DEF move
      <3>2. CASE UNCHANGED otherCpus /\ CacheStep
        <4>1. CopiesSound'
          BY <3>2 DEF otherCpus, CopiesSound
        <4>2. CASE UNCHANGED ways
          BY <4>1, <4>2 DEF CacheShape, CacheUnique
        <4> QED
          BY <3>2, <4>1, <4>2, UpdateUnique, ShrinkUnique DEF CacheStep
      <3> QED
        BY <2>1, <3>1, <3>2, PathStepsCache, PathStepsCpus
    <2>2. CASE UNCHANGED dataVars
      BY <2>2 DEF dataVars, cacheVars, otherCpus, CacheShape, CacheUnique, CopiesSound
    <2> QED
      BY <2>1, <2>2
  <1>3. Inv => CacheUnique
    OBVIOUS
  <1> QED
    BY <1>1, <1>2, <1>3, PTL DEF PathSpec

-----------------------------------------------------------------------------
(* The inductive invariant.                                                 *)

\* Where the newest snapshot has cluster v, and whether it may write there.
At(v)   == translate_read(head, v).off
WrAt(v) == Ref(head, l1_off(v)).w /\ ~needs_alloc(translate_read(head, v))

\* What an accepted command records.
CmdType == {[op |-> r.op, v |-> r.v, off |-> r.off, q |-> q] : r \in Asked, q \in Queues}

\* c writes cluster v and waits for its allocation.
Waits(c, v) == c \in Cmd /\ stage[c] = "srv" /\ cmd[c].op = "write" /\ cmd[c].v = v

\* The commands of a ring.
Listed(s, q, where) ==
    /\ s \in Seq(Cmd)
    /\ \A i \in 1 .. Len(s) : stage[s[i]] = where /\ cmd[s[i]].q = q
    /\ \A i, j \in 1 .. Len(s) : s[i] = s[j] => i = j

\* The server keeps to the path: every allocation and continuation has a
\* write that waits for it, and only forwarded answers name a cluster.
Server ==
    /\ SrvInv /\ Waiting
    /\ count = [c \in Cmd |-> 0]
    /\ snaps[head].disk_hwm <= DiskHwmLimit + 1
    /\ \A c \in Cmd : \A n \in 1 .. Len(sent[c]) : ~sent[c][n].fwd => sent[c][n].cl = 0
    /\ \A io \in sq \union ring : IsAlloc(io) => Waits(io.tag, io.t.v)
    /\ \A d \in wq : Waits(d.c, d.v)

\* The commands, where they are, and the rings that hold them.
Path ==
    /\ stage \in [Cmd -> {"new", "nsq", "srv", "ncq", "hq", "done"}]
    /\ cmd \in [Cmd -> CmdType \union {NoReq}]
    /\ \A c \in Cmd : stage[c] # "new" => cmd[c] \in CmdType
    /\ \A c \in Cmd : stage[c] = "new" => cmd[c] = NoReq
    /\ \A c \in Cmd : stage[c] = "ncq" => sent[c] # <<>>
    /\ \A c \in Cmd : stage[c] = "hq" => IsRw(cmd[c])
    /\ slba \in [Cmd -> Disk]
    /\ nsq = [qu \in Queues |-> nsq[qu]] /\ ncq = [qu \in Queues |-> ncq[qu]]
    /\ \A q \in Queues : Listed(nsq[q], q, "nsq") /\ Listed(ncq[q], q, "ncq")

\* The disk, what reads must return, and the cache.
Data ==
    /\ disk \in [Disk -> [Offs -> Value]]
    /\ last \in [Vblk -> [Offs -> Value]]
    /\ CacheTypeOK
    /\ \A l \in Line, i \in Way : ways[l][i].plba \in Disk

\* The maps of the processors the program does not run on.
Copies ==
    /\ CopiesTypeOK
    /\ \A p \in Cpus : \A l \in Line, i \in Way : copies[p].ways[l][i].plba \in Disk

\* The types of the whole path.
PathTypes == Server /\ Path /\ Data

\* Cluster p is written by no allocation and, through the head, only as v.
Parked(p, v)   == Safe(p) /\ \A u \in Vblk : WrAt(u) /\ At(u) = p => u = v
\* Cluster p of the disk has what reads of v must return.
Good(v, p)     == p \in Disk /\ Parked(p, v) /\ \A o \in Offs : disk[p][o] = last[v][o]
\* v may be translated to p; for writing (w) only if the head has it there.
Truth(v, p, w) == Good(v, p) /\ (w => p = At(v) /\ WrAt(v))
\* Command c writes.
Modifies(c)    == cmd[c].op \in {"write", "zeroes"}

\* What the guest keeps to, while commands are in flight.
Flight ==
    /\ \A c, d \in Cmd : c # d /\ InFlight(c) /\ InFlight(d) =>
          ~Overlap(cmd[c], cmd[d]) /\ cmd[c].op # "snapshot"
    /\ \A c \in Cmd : stage[c] = "nsq" /\ cmd[c].op = "read" => ~Shared(cmd[c].v)
    /\ \A c \in Cmd : InFlight(c) /\ cmd[c].op = "snapshot" =>
          \A l \in Line, i \in Way : ~ways[l][i].wr

\* Allocations and continuations refer to the newest snapshot's tables.
Tables ==
    /\ TxCurrent
    /\ \A d \in wq : d.m # 0 /\ Ref(head, l1_off(d.v)) = encode(d.m, TRUE)

\* The newest snapshot has on the disk what was served last.
Newest ==
    /\ \A o \in Offs : disk[0][o] = 0
    /\ \A v \in Vblk, o \in Offs : disk[At(v)][o] = last[v][o]

\* A superseded snapshot has on the disk what it may hold.
Older ==
    /\ frozen = [k \in 1 .. head - 1 |-> frozen[k]]
    /\ \A k \in 1 .. head - 1, v \in Vblk, o \in Offs :
          disk[translate_read(k, v).off][o] \in frozen[k][v][o]

\* A command of the host queue was translated to the right cluster.
Hosted ==
    \A c \in Cmd : stage[c] = "hq" =>
       /\ Modifies(c) => slba[c] = At(cmd[c].v) /\ WrAt(cmd[c].v)
       /\ cmd[c].op = "read" => /\ Parked(slba[c], cmd[c].v)
                                /\ disk[slba[c]][cmd[c].off] = last[cmd[c].v][cmd[c].off]

\* What is cached may be used.
CacheTrue ==
    \A v \in Vblk : \A i \in Holding(v) :
       Truth(v, ways[idx(v)][i].plba, ways[idx(v)][i].wr)

\* The answer to c may be cached and used.
AnsTrue(c) ==
    IsRw(cmd[c]) =>
       /\ Answer(c).vld => Truth(cmd[c].v, Answer(c).cl, Answer(c).wr)
       /\ cmd[c].op = "read" => Answer(c).vld
       /\ cmd[c].op # "read" /\ Answer(c).vld => Answer(c).wr

\* So may every answer of the NCQs.
AnswerTrue == \A q \in Queues : \A i \in 1 .. Len(ncq[q]) : AnsTrue(ncq[q][i])

\* The answer to c translates v: to where v was (stale), to where it is.
Says(c, v)  == IsRw(cmd[c]) /\ cmd[c].v = v /\ Answer(c).vld
Stale(c, v) == Says(c, v) /\ Answer(c).cl # At(v)
Fresh(c, v) == Says(c, v) /\ Answer(c).cl = At(v)
\* The cache, or an answer of ring s, has v where it was or where it is.
StaleWay(v) == \E i \in Holding(v) : ways[idx(v)][i].plba # At(v)
StaleIn(s, v)  == \E i \in 1 .. Len(s) : Stale(s[i], v)
FreshIn(s, v)  == \E i \in 1 .. Len(s) : Fresh(s[i], v) /\ Answer(s[i]).wr

\* In ring s stale answers precede fresh ones; where the cache or the ring
\* is stale, a fresh answer that allows writes is to come, and no write of v
\* is in the host queue; stale answers are only cached over stale ones.
InOrder(s, v) ==
    /\ \A i, j \in 1 .. Len(s) : Stale(s[i], v) /\ Fresh(s[j], v) => i < j
    /\ StaleIn(s, v) \/ StaleWay(v) =>
          /\ FreshIn(s, v)
          /\ \A c \in Cmd : stage[c] = "hq" /\ Modifies(c) => cmd[c].v # v
    /\ StaleIn(s, v) => \A i \in Holding(v) : ways[idx(v)][i].plba # At(v)

\* So it is in every ring.
Ordered == \A q \in Queues, v \in Vblk : InOrder(ncq[q], v)

\* The inductive invariant.
PathInv ==
    /\ PathTypes /\ CacheUnique
    /\ Flight /\ Tables /\ Newest /\ Older /\ Hosted /\ CacheTrue /\ AnswerTrue /\ Ordered

-----------------------------------------------------------------------------
(* Types.                                                                   *)

\* The parts of a step of the server that the data path sees: the file moves
\* on, and its mark stays within the disk.
Marks == snaps[head].disk_hwm <= DiskHwmLimit + 1

\* The list of snapshots after a step.
Spaced ==
    \/ snaps' = snaps
    \/ TakeCluster /\ ~DiskFull
    \/ \E e \in SnapType : snaps' = Append(snaps, e) /\ e.disk_hwm = snaps[head].disk_hwm

\* The mark stays within the disk.
LEMMA MarkStep == ASSUME FileInv, Marks, Spaced PROVE Marks'
<1>1. /\ TypeOK /\ head \in Nat /\ head \in 1 .. head /\ snaps[head].disk_hwm \in Nat
      /\ DiskHwmLimit \in Nat /\ snaps \in Seq(SnapType) /\ head = Len(snaps)
  BY RefType, LimitAssumption DEF FileInv, RefsTyped, TypeOK, SnapType, head
<1>2. CASE snaps' = snaps
  BY <1>2 DEF Marks, head
<1>3. CASE TakeCluster /\ ~DiskFull
  <2>1. head' = head /\ snaps'[head].disk_hwm = snaps[head].disk_hwm + 1
    BY <1>1, <1>3, TakeKeeps DEF KeepsList, head
  <2> QED BY <1>1, <1>3, <2>1 DEF Marks, DiskFull
<1>4. ASSUME NEW e \in SnapType, snaps' = Append(snaps, e), e.disk_hwm = snaps[head].disk_hwm
      PROVE  Marks'
  <2>1. snaps'[Len(snaps')] = e
    BY <1>1, <1>4
  <2> QED BY <1>4, <2>1 DEF Marks, head
<1> QED BY <1>2, <1>3, <1>4 DEF Spaced

\* What a command asks of the server.
LEMMA Asks ==
    ASSUME NEW r \in CmdType
    PROVE  /\ Request(r) \in Requests /\ r.v \in Vblk /\ r.off \in Offs /\ r.q \in Queues
           /\ r.op \in {"read", "write", "zeroes", "snapshot"} /\ Request(r).op = r.op
           /\ r.op # "snapshot" => Request(r).blks = <<r.v>>
<1>1. PICK a \in Asked : \E q \in Queues : r = [op |-> a.op, v |-> a.v, off |-> a.off, q |-> q]
  BY DEF CmdType
<1>2. PICK q \in Queues : r = [op |-> a.op, v |-> a.v, off |-> a.off, q |-> q]
  BY <1>1
<1>3. a \in [op : {"read", "write", "zeroes", "snapshot"}, v : Vblk, off : Offs]
  BY PathAssumption
<1>4. Request(r) = Request(a) /\ Request(a) \in Requests
  BY <1>2, PathAssumption DEF Request
<1> QED BY <1>2, <1>3, <1>4 DEF Request

\* Every request lies within one cluster.
LEMMA PathSingle == SingleCluster
<1> SUFFICES ASSUME NEW rq \in Requests PROVE Len(rq.blks) <= 1
  BY DEF SingleCluster
<1>1. PICK r \in Asked : rq = Request(r)
  BY PathAssumption
<1>2. rq.blks = <<>> \/ rq.blks = <<r.v>>
  BY <1>1 DEF Request
<1>3. Len(<<>>) = 0 /\ Len(<<r.v>>) = 1
  OBVIOUS
<1>4. Len(rq.blks) = 0 \/ Len(rq.blks) = 1
  BY <1>2, <1>3, Zenon
<1>5. \A n \in {0, 1} : n <= 1
  OBVIOUS
<1> QED BY <1>4, <1>5

\* The replies a request can get at once.
Prompt(c, a) ==
    /\ a \in ReplyType /\ (~a.fwd => a.cl = 0)
    /\ sent' = [sent EXCEPT ![c] = Append(sent[c], a)]
    /\ UNCHANGED <<wq, sq, ring, tx>>

\* An allocation for c begins.
Allocates(c, v) ==
    /\ \E io : /\ IsAlloc(io) /\ io.tag = c /\ io.t.v = v
               /\ sq' \union ring' = sq \union ring \union {io}
    /\ UNCHANGED <<sent, wq>>

\* c waits behind another's allocation.
Defers(c, v) ==
    /\ \E d : d.c = c /\ d.v = v /\ wq' = wq \union {d}
    /\ UNCHANGED <<sent, sq, ring, tx>>

\* What the server does with command c that asks r.
Taking(c, r) ==
    /\ SrvInv' /\ FileMove /\ Waiting' /\ UNCHANGED count /\ Spaced
    /\ \/ \E a : Prompt(c, a)
       \/ r.op = "write" /\ (Allocates(c, r.v) \/ Defers(c, r.v))

\* Every handler does one of these.
LEMMA TakeShape ==
    ASSUME SrvInv, Waiting, NEW c \in Cmd, NEW r \in CmdType,
           Submit(c, Request(r)) \/ WriteZeroes(c, Request(r))
    PROVE  Taking(c, r)
<1>1. PICK rq \in Requests : rq = Request(r)
  BY Asks
<1>2. rq.op = r.op /\ rq.op \in {"read", "write", "zeroes", "snapshot"} /\ r.v \in Vblk
  BY <1>1, Asks
<1>3. rq.op # "snapshot" => rq.blks = <<r.v>> /\ Len(rq.blks) = 1 /\ rq.blks[1] = r.v
  <2>1. Len(<<r.v>>) = 1 /\ <<r.v>>[1] = r.v
    OBVIOUS
  <2>2. rq.op # "snapshot" => rq.blks = <<r.v>>
    BY <1>1, Asks
  <2> QED BY <2>1, <2>2, Zenon
<1>4. TypeOK /\ \A t \in Tx : t.v \in Vblk
  BY DEF SrvInv, FileInv, Tx
<1>5. CASE WriteZeroes(c, rq)
  <2>1. /\ Take(c, rq) /\ Send(c, Plain(FALSE)) /\ UNCHANGED <<vars, cur, count, clock, wq, sq, ring>>
    BY <1>5 DEF WriteZeroes
  <2>2. /\ FileMove /\ cur' = Idle /\ req' \in [Cmd -> Requests \union {None}]
        /\ IoAdded({}) /\ tx' = tx /\ snaps' = snaps
    BY <2>1, StutterMove, Taken, IosKept DEF vars
  <2>3. Answers
    BY <2>1, OneAnswer, Replies
  <2>4. wq' = wq /\ wq \subseteq WorkType
    BY <2>1 DEF SrvInv, SrvTypes
  <2>5. SrvInv'
    BY <2>1, <2>2, <2>3, <2>4, QuietSrv
  <2>6. Waiting'
    BY <2>1 DEF Waiting, Idle
  <2>7. Prompt(c, Plain(FALSE))
    BY <2>1, <2>2, Replies DEF Prompt, Send, Plain, Reply
  <2> QED BY <2>1, <2>2, <2>5, <2>6, <2>7 DEF Taking, Spaced
<1>6. CASE Submit(c, rq)
  <2>1. [SrvNext]_allVars
    BY <1>6 DEF SrvNext
  <2>2. SrvInv' /\ FileMove /\ Waiting'
    BY <2>1, SrvStep, WaitingStep, PathSingle
  <2>3. CASE ReadOne(c, rq)
    <3>1. PICK e \in Entry : e = translate_read(head, rq.blks[1])
      BY <1>2, <1>3, <2>3, HeldIsSafe DEF HeldSafe, ReadOne, SrvInv
    <3>2. PICK a \in ReplyType : a = (IF valid(e) THEN Entry_(TRUE, e) ELSE ZeroBlock)
      BY Replies
    <3>3. ~a.fwd => a.cl = 0
      BY <3>2 DEF Entry_, ZeroBlock, Reply
    <3>4. Prompt(c, a)
      BY <2>3, <3>1, <3>2, <3>3 DEF ReadOne, Send, Prompt, vars
    <3> QED BY <2>2, <2>3, <3>4 DEF Taking, ReadOne, Spaced, vars
  <2>4. CASE Snapshot(c, rq)
    <3>1. PICK ok \in BOOLEAN : Send(c, Plain(ok))
      BY <2>4 DEF Snapshot
    <3>2. UNCHANGED <<count, wq, sq, ring, tx>>
      BY <2>4 DEF Snapshot, snap_create, SnapCreate, SnapCreateThrows, vars
    <3>3. Prompt(c, Plain(ok))
      BY <3>1, <3>2, Replies DEF Prompt, Send, Plain, Reply
    <3>4. Spaced
      <4>1. CASE snap_create
        <5>1. PICK e : e = SnapEntry(hwm, snaps[head].disk_hwm)
          OBVIOUS
        <5>2. snaps' = Append(snaps, e) /\ hwm \in Meta /\ snaps[head].disk_hwm \in Nat
          BY <1>4, <4>1, <5>1, RefType, LimitAssumption, Sizes
             DEF snap_create, SnapCreate, MetaSpace, TypeOK, Meta, RefsTyped
        <5>3. e \in SnapType /\ e.disk_hwm = snaps[head].disk_hwm
          BY <5>1, <5>2 DEF SnapEntry, SnapType
        <5> QED BY <5>2, <5>3 DEF Spaced
      <4> QED BY <2>4, <4>1 DEF Snapshot, SnapCreateThrows, vars, Spaced
    <3> QED BY <2>2, <3>2, <3>3, <3>4 DEF Taking
  <2>5. CASE WriteAlloc(c, rq)
    <3>1. /\ BeginTx(r.v) /\ Kick({Alloc(c, t) : t \in tx' \ tx}) /\ UNCHANGED <<cur, count, wq, sent>>
          /\ rq.op = "write"
      BY <1>2, <1>3, <2>5 DEF WriteAlloc
    <3>2. PICK t \in Tx : t.v = r.v /\ t # NoTx /\ tx' \ tx = {t}
      BY <1>2, <3>1, Began
    <3>3. PICK a \in IoType : a = Alloc(c, t) /\ a.t = t /\ a.tag = c
      BY AllocIo
    <3>4. {Alloc(c, u) : u \in tx' \ tx} = {a}
      BY <3>2, <3>3
    <3>5. sq' \union ring' = sq \union ring \union {a}
      BY <3>1, <3>4 DEF Kick
    <3>6. Allocates(c, r.v)
      BY <3>1, <3>2, <3>3, <3>5 DEF Allocates, IsAlloc
    <3> QED BY <1>2, <2>2, <3>1, <3>6 DEF Taking, BeginTx, Spaced
  <2>6. CASE WriteQueued(c, rq)
    <3>1. /\ tx_write_prep(r.v) /\ wq' = wq \union {Cont("reply", c, r.v)} /\ rq.op = "write"
          /\ UNCHANGED <<cur, count, clock, sq, ring, sent>>
      BY <1>2, <1>3, <2>6 DEF WriteQueued
    <3>2. Cont("reply", c, r.v).c = c /\ Cont("reply", c, r.v).v = r.v
      BY DEF Cont
    <3>3. Defers(c, r.v) /\ snaps' = snaps
      BY <3>1, <3>2 DEF Defers, tx_write_prep
    <3> QED BY <1>2, <2>2, <3>1, <3>3 DEF Taking, Spaced
  <2>7. CASE WriteReady(c, rq)
    <3>1. /\ tx_write_prep(r.v) /\ Send(c, Entry_(TRUE, NewEntry(r.v))) /\ UNCHANGED <<count, wq, sq, ring>>
      BY <1>2, <1>3, <2>7 DEF WriteReady
    <3>2. PICK e \in Entry : e = NewEntry(r.v)
      BY <1>2, <3>1, Prep
    <3>3. PICK a \in ReplyType : a = Entry_(TRUE, e)
      BY Replies
    <3>4. a.fwd
      BY <3>3 DEF Entry_, Reply
    <3>5. Prompt(c, a) /\ snaps' = snaps
      BY <3>1, <3>2, <3>3, <3>4 DEF Prompt, Send, tx_write_prep
    <3> QED BY <2>2, <3>1, <3>5 DEF Taking, Spaced
  <2>8. CASE WriteThrows(c, rq)
    <3>1. Throws(r.v) /\ Send(c, Plain(FALSE)) /\ UNCHANGED <<count, wq, sq, ring>>
      BY <1>2, <1>3, <2>8 DEF WriteThrows
    <3>2. UNCHANGED <<snaps, tx>>
      BY <3>1 DEF Throws, vars, tx_write_prep
    <3>3. Prompt(c, Plain(FALSE))
      BY <3>1, <3>2, Replies DEF Prompt, Send, Plain, Reply
    <3> QED BY <2>2, <3>1, <3>2, <3>3 DEF Taking, Spaced
  <2>9. ASSUME ReadMany(c, rq) \/ WriteMany(c, rq) \/ Flush(c, rq) PROVE FALSE
    <3>1. rq.op # "flush" /\ (rq.op \in {"read", "write"} => Len(rq.blks) = 1)
      BY <1>2, <1>3
    <3>2. rq.op \in {"read", "write"} => ~(Len(rq.blks) > 1)
      <4>1. ~(1 > 1)
        OBVIOUS
      <4> QED BY <3>1, <4>1, Zenon
    <3> QED BY <2>9, <3>1, <3>2 DEF ReadMany, WriteMany, Flush
  <2> QED BY <1>6, <2>3, <2>4, <2>5, <2>6, <2>7, <2>8, <2>9 DEF Submit
<1> QED BY <1>1, <1>5, <1>6

\* What the end of an allocation does: its command is answered, then those
\* queued behind it.
Behind(io) == {d \in wq : d.v = io.t.v}

\* What the end of an allocation does.
Finishing(io, ok) ==
    /\ SrvInv' /\ FileMove /\ Waiting' /\ count' = [c \in Cmd |-> count[c]] /\ UNCHANGED snaps
    /\ IsAlloc(io) /\ io.t \in tx /\ (IF ok THEN tx_write_commit(io.t) ELSE Abort(io.t))
    /\ sq' \union ring' = (sq \union ring) \ {io}
    /\ wq' = wq \ Behind(io)
    /\ DOMAIN sent' = Cmd
    /\ \A c \in Cmd :
          \/ c = io.tag /\ sent'[c] = Append(sent[c], Paddr(ok, io.t.out))
          \/ /\ c # io.tag
             /\ \E d \in Behind(io) :
                   d.c = c /\ sent'[c] = Append(sent[c], Entry_(ok, l0'[d.m][l0_off(d.v)]))
          \/ /\ c # io.tag /\ sent'[c] = sent[c]
             /\ \A d \in Behind(io) : d.c # c

\* AllocDone in those terms: every continuation replies.
LEMMA DoneShape ==
    ASSUME SrvInv, Waiting, NEW io \in ring, NEW ok \in BOOLEAN, AllocDone(io, ok)
    PROVE  Finishing(io, ok)
<1>1. [SrvNext]_allVars
  BY DEF SrvNext, Complete
<1>2. SrvInv' /\ FileMove /\ Waiting'
  BY <1>1, SrvStep, WaitingStep, PathSingle
<1>3. IsAlloc(io) /\ io.t \in tx /\ io \notin sq /\ (IF ok THEN tx_write_commit(io.t) ELSE Abort(io.t))
  BY DEF AllocDone, SrvInv, Ledger
<1>4. PICK D \in Drained(io.t.v, ok) :
          LET writes  == {d \in D : d.kind = "io"}
              replies == IF ok THEN D \ writes ELSE D
              ios     == {Rw(d.c, l0'[d.m][l0_off(d.v)].off) : d \in writes}
          IN  /\ wq' = wq \ D
              /\ sent' = [c \in Cmd |->
                    IF c = io.tag THEN Append(sent[c], Paddr(ok, io.t.out))
                    ELSE IF \E d \in replies : d.c = c
                    THEN Append(sent[c], ContReply(CHOOSE d \in replies : d.c = c, ok))
                    ELSE sent[c]]
              /\ \/ /\ ok /\ writes # {}
                    /\ ring' = (ring \ {io}) \union sq \union ios /\ sq' = {}
                    /\ UNCHANGED count
                 \/ /\ ~(ok /\ writes # {})
                    /\ ring' = ring \ {io} /\ UNCHANGED sq
                    /\ count' = [c \in Cmd |->
                          IF \E d \in writes : d.c = c THEN count[c] - 1 ELSE count[c]]
  BY DEF AllocDone
<1>5. \A d \in wq : d.kind = "reply"
  BY DEF Waiting
<1>6. {d \in D : d.kind = "io"} = {}
  BY <1>5, DrainedQueued
<1>7. D = Behind(io)
  BY <1>5 DEF Drained, Behind
<1>8. /\ wq' = wq \ Behind(io) /\ ring' = ring \ {io} /\ sq' = sq
      /\ sent' = [c \in Cmd |->
            IF c = io.tag THEN Append(sent[c], Paddr(ok, io.t.out))
            ELSE IF \E d \in Behind(io) : d.c = c
            THEN Append(sent[c], ContReply(CHOOSE d \in Behind(io) : d.c = c, ok))
            ELSE sent[c]]
      /\ count' = [c \in Cmd |-> count[c]]
  BY <1>4, <1>6, <1>7
<1>9. ASSUME NEW c \in Cmd
      PROVE  \/ c = io.tag /\ sent'[c] = Append(sent[c], Paddr(ok, io.t.out))
             \/ /\ c # io.tag
                /\ \E d \in Behind(io) :
                      d.c = c /\ sent'[c] = Append(sent[c], Entry_(ok, l0'[d.m][l0_off(d.v)]))
             \/ /\ c # io.tag /\ sent'[c] = sent[c]
                /\ \A d \in Behind(io) : d.c # c
  <2>1. CASE c # io.tag /\ \E d \in Behind(io) : d.c = c
    <3>1. PICK d \in Behind(io) : d = (CHOOSE e \in Behind(io) : e.c = c) /\ d.c = c
      BY <2>1
    <3>2. sent'[c] = Append(sent[c], ContReply(d, ok))
      BY <1>8, <2>1, <3>1
    <3>3. d.kind = "reply"
      BY <1>5 DEF Behind
    <3> QED BY <2>1, <3>1, <3>2, <3>3 DEF ContReply
  <2> QED BY <1>8, <2>1
<1>10. sq' \union ring' = (sq \union ring) \ {io} /\ DOMAIN sent' = Cmd /\ snaps' = snaps
  BY <1>3, <1>8 DEF tx_write_commit, Abort
<1> QED BY <1>2, <1>3, <1>8, <1>9, <1>10 DEF Finishing

\* The commands answered by it.
LEMMA DoneReplied ==
    ASSUME SrvInv, NEW io, NEW ok, Finishing(io, ok)
    PROVE  Replied = {c \in Cmd : c = io.tag \/ \E d \in Behind(io) : d.c = c}
<1> SUFFICES ASSUME NEW c \in Cmd
             PROVE  Len(sent'[c]) > Len(sent[c]) <=> c = io.tag \/ \E d \in Behind(io) : d.c = c
  BY DEF Replied
<1>1. sent[c] \in Seq(ReplyType) /\ sent'[c] \in Seq(ReplyType)
  BY DEF SrvInv, SrvTypes, Finishing
<1>2. PICK n \in Nat : n = Len(sent[c])
  BY <1>1
<1>3. \A x : Len(Append(sent[c], x)) = n + 1
  BY <1>1, <1>2
<1>4. ~(n > n) /\ n + 1 > n
  OBVIOUS
<1>5. CASE sent'[c] = sent[c]
  BY <1>2, <1>3, <1>4, <1>5 DEF Finishing
<1>6. CASE sent'[c] # sent[c]
  <2>1. c = io.tag \/ \E d \in Behind(io) : d.c = c
    BY <1>6 DEF Finishing
  <2>2. \E x : sent'[c] = Append(sent[c], x)
    BY <1>6 DEF Finishing
  <2> QED BY <1>2, <1>3, <1>4, <2>1, <2>2
<1> QED BY <1>5, <1>6

\* ... and by the handling of a command.
LEMMA TakeReplied ==
    ASSUME SrvInv, NEW c \in Cmd
    PROVE  /\ \A a : Prompt(c, a) => Replied = {c} /\ sent'[c] = Append(sent[c], a)
                                     /\ \A x \in Cmd : x # c => sent'[x] = sent[x]
           /\ sent' = sent => Replied = {}
<1>1. \A x \in Cmd : sent[x] \in Seq(ReplyType) /\ Len(sent[x]) \in Nat
  BY DEF SrvInv, SrvTypes
<1>2. \A x \in Cmd : sent'[x] = sent[x] => ~(Len(sent'[x]) > Len(sent[x]))
  <2>1. \A n \in Nat : ~(n > n)
    OBVIOUS
  <2> QED BY <1>1, <2>1
<1>3. ASSUME NEW a, Prompt(c, a)
      PROVE  Replied = {c} /\ sent'[c] = Append(sent[c], a) /\ \A x \in Cmd : x # c => sent'[x] = sent[x]
  <2>1. sent'[c] = Append(sent[c], a) /\ \A x \in Cmd : x # c => sent'[x] = sent[x]
    BY <1>3 DEF Prompt, SrvInv, SrvTypes
  <2>2. Len(Append(sent[c], a)) = Len(sent[c]) + 1
    BY <1>1
  <2>3. PICK n \in Nat : n = Len(sent[c])
    BY <1>1
  <2>4. n + 1 > n
    OBVIOUS
  <2>5. Len(sent'[c]) > Len(sent[c])
    BY <2>1, <2>2, <2>3, <2>4, Zenon
  <2> QED BY <1>2, <2>1, <2>5 DEF Replied
<1>4. sent' = sent => Replied = {}
  BY <1>2 DEF Replied
<1> QED BY <1>3, <1>4

\* Two sequences joined.
LEMMA Joined ==
    ASSUME NEW S, NEW s \in Seq(S), NEW z \in Seq(S)
    PROVE  /\ s \o z \in Seq(S) /\ Len(s) \in Nat /\ Len(z) \in Nat /\ Len(s \o z) = Len(s) + Len(z)
           /\ \A i \in 1 .. Len(s) : (s \o z)[i] = s[i]
           /\ \A i \in 1 .. Len(z) : (s \o z)[Len(s) + i] = z[i]
           /\ \A i \in 1 .. Len(s \o z) : i \in 1 .. Len(s) \/ \E j \in 1 .. Len(z) : i = Len(s) + j
<1>1. /\ s \o z \in Seq(S) /\ Len(s) \in Nat /\ Len(z) \in Nat /\ Len(s \o z) = Len(s) + Len(z)
  OBVIOUS
<1>2. \A i \in 1 .. Len(s) : (s \o z)[i] = s[i]
  OBVIOUS
<1>3. \A i \in 1 .. Len(z) : (s \o z)[Len(s) + i] = z[i]
  OBVIOUS
<1>4. ASSUME NEW m \in Nat, NEW n \in Nat, NEW i \in 1 .. m + n
      PROVE  i \in 1 .. m \/ \E j \in 1 .. n : i = m + j
  <2>1. CASE i > m
    <3>1. i - m \in 1 .. n /\ i = m + (i - m)
      BY <2>1
    <3> QED BY <3>1
  <2> QED BY <2>1
<1>5. \A i \in 1 .. Len(s \o z) : i \in 1 .. Len(s) \/ \E j \in 1 .. Len(z) : i = Len(s) + j
  <2>1. PICK m \in Nat : m = Len(s)
    BY <1>1
  <2>2. PICK n \in Nat : n = Len(z)
    BY <1>1
  <2>3. Len(s \o z) = m + n
    BY <1>1, <2>1, <2>2
  <2>4. \A i \in 1 .. m + n : i \in 1 .. m \/ \E j \in 1 .. n : i = m + j
    BY <1>4
  <2> QED BY <2>1, <2>2, <2>3, <2>4, Zenon
<1> QED BY <1>1, <1>2, <1>3, <1>5

\* A ring without its first command.
LEMMA Shorter ==
    ASSUME NEW S, NEW s \in Seq(S), s # <<>>
    PROVE  /\ Head(s) = s[1] /\ s[1] \in S /\ Tail(s) \in Seq(S)
           /\ Len(s) \in Nat /\ Len(s) >= 1 /\ Len(Tail(s)) = Len(s) - 1
           /\ 1 \in 1 .. Len(s)
           /\ \A i \in 1 .. Len(Tail(s)) : i + 1 \in 1 .. Len(s) /\ Tail(s)[i] = s[i + 1]
<1>1. /\ Head(s) = s[1] /\ s[1] \in S /\ Tail(s) \in Seq(S)
      /\ Len(s) \in Nat /\ Len(s) >= 1 /\ Len(Tail(s)) = Len(s) - 1
  OBVIOUS
<1>2. \A i \in 1 .. Len(Tail(s)) : i + 1 \in 1 .. Len(s)
  <2>1. PICK n \in Nat : n = Len(s) /\ n >= 1
    BY <1>1
  <2>2. \A i \in 1 .. n - 1 : i + 1 \in 1 .. n
    BY <2>1
  <2> QED BY <1>1, <2>1, <2>2, Zenon
<1>3. \A i \in 1 .. Len(Tail(s)) : Tail(s)[i] = s[i + 1]
  OBVIOUS
<1>4. 1 \in 1 .. Len(s)
  BY <1>1
<1> QED BY <1>1, <1>2, <1>3, <1>4

\* The commands z are put at the end of a ring.
Adds(s, t, z, q) ==
    /\ z \in Seq(Cmd) /\ t = s \o z
    /\ \A i \in 1 .. Len(z) : z[i] \in Replied /\ cmd[z[i]].q = q
    /\ \A i, j \in 1 .. Len(z) : z[i] = z[j] => i = j

\* process_reply adds the commands answered, c first.
LEMMA Responds ==
    ASSUME NEW c, Respond(c), NEW q \in Queues
    PROVE  \E z : /\ Adds(ncq[q], ncq'[q], z, q)
                  /\ c \in Replied /\ cmd[c].q = q => Len(z) >= 1 /\ z[1] = c
<1>1. PICK s \in [Queues -> UNION {Orders(S) : S \in SUBSET Replied}] :
         /\ \A p \in Queues : /\ s[p] \in Orders({d \in Replied : cmd[d].q = p})
                              /\ c \in Replied /\ cmd[c].q = p => s[p][1] = c
         /\ ncq' = [p \in Queues |-> ncq[p] \o s[p]]
  BY DEF Respond
<1>2. PICK S : S = {d \in Replied : cmd[d].q = q}
  OBVIOUS
<1>3. S \subseteq Cmd /\ IsFiniteSet(S)
  BY <1>2, FS_Subset, PathAssumption DEF Replied
<1>4. PICK n \in Nat : n = Cardinality(S) /\ (n = 0 <=> S = {})
  BY <1>3, FS_CardinalityType, FS_EmptySet
<1>5. PICK z : z = s[q]
  OBVIOUS
<1>6. z \in [1 .. n -> S] /\ \A i, j \in 1 .. n : z[i] = z[j] => i = j
  BY <1>1, <1>2, <1>4, <1>5 DEF Orders
<1>7. z \in Seq(S) /\ Len(z) = n /\ z \in Seq(Cmd)
  BY <1>3, <1>6
<1>8. ASSUME c \in Replied, cmd[c].q = q PROVE Len(z) >= 1 /\ z[1] = c
  <2>1. n # 0 /\ z[1] = c
    BY <1>1, <1>2, <1>4, <1>5, <1>8
  <2> QED BY <1>7, <2>1
<1>9. Adds(ncq[q], ncq'[q], z, q)
  BY <1>1, <1>2, <1>5, <1>6, <1>7 DEF Adds
<1> QED BY <1>8, <1>9

\* The rings across a step of the server: commands answered were not in the
\* NCQs, and keep a place there.
LEMMA NcqStep ==
    ASSUME Path, NEW c, Respond(c), NEW d, Move(d), UNCHANGED cmd,
           \A x \in Replied : stage[x] # "ncq", d \in Cmd => stage[d] # "ncq",
           NEW q \in Queues
    PROVE  Listed(ncq[q], q, "ncq")'
<1>1. PICK z : Adds(ncq[q], ncq'[q], z, q)
  BY Responds
<1>2. PICK s \in Seq(Cmd) : /\ s = ncq[q]
                            /\ \A i \in 1 .. Len(s) : stage[s[i]] = "ncq" /\ cmd[s[i]].q = q
                            /\ \A i, j \in 1 .. Len(s) : s[i] = s[j] => i = j
  BY DEF Path, Listed
<1>3. PICK t : t = ncq'[q]
  OBVIOUS
<1>4. /\ z \in Seq(Cmd) /\ t = s \o z
      /\ \A i \in 1 .. Len(z) : z[i] \in Replied /\ cmd[z[i]].q = q
      /\ \A i, j \in 1 .. Len(z) : z[i] = z[j] => i = j
  BY <1>1, <1>2, <1>3 DEF Adds
<1>5. /\ t \in Seq(Cmd) /\ Len(s) \in Nat
      /\ \A i \in 1 .. Len(s) : t[i] = s[i]
      /\ \A i \in 1 .. Len(z) : t[Len(s) + i] = z[i]
      /\ \A i \in 1 .. Len(t) : i \in 1 .. Len(s) \/ \E j \in 1 .. Len(z) : i = Len(s) + j
  BY <1>4, Joined
<1>6. \A x \in Cmd : stage'[x] = IF x \in Replied THEN "ncq" ELSE IF x = d THEN "srv" ELSE stage[x]
  BY DEF Move
<1>7. \A i \in 1 .. Len(s) : s[i] \in Cmd /\ s[i] \notin Replied /\ s[i] # d
  BY <1>2
<1>8. ASSUME NEW i \in 1 .. Len(t) PROVE stage'[t[i]] = "ncq" /\ cmd'[t[i]].q = q
  <2>1. CASE i \in 1 .. Len(s)
    BY <1>2, <1>5, <1>6, <1>7, <2>1
  <2>2. ASSUME NEW j \in 1 .. Len(z), i = Len(s) + j PROVE stage'[t[i]] = "ncq" /\ cmd'[t[i]].q = q
    <3>1. t[i] = z[j] /\ z[j] \in Cmd /\ z[j] \in Replied /\ cmd[z[j]].q = q
      BY <1>4, <1>5, <2>2
    <3> QED BY <1>6, <3>1, Zenon
  <2> QED BY <1>5, <2>1, <2>2
<1>9. ASSUME NEW i \in 1 .. Len(t), NEW j \in 1 .. Len(t), t[i] = t[j] PROVE i = j
  <2>1. CASE i \in 1 .. Len(s) /\ j \in 1 .. Len(s)
    BY <1>2, <1>5, <1>9, <2>1
  <2>2. ASSUME i \in 1 .. Len(s), NEW m \in 1 .. Len(z), j = Len(s) + m PROVE FALSE
    BY <1>4, <1>5, <1>7, <1>9, <2>2
  <2>3. ASSUME j \in 1 .. Len(s), NEW m \in 1 .. Len(z), i = Len(s) + m PROVE FALSE
    BY <1>4, <1>5, <1>7, <1>9, <2>3
  <2>4. ASSUME NEW m \in 1 .. Len(z), i = Len(s) + m, NEW n \in 1 .. Len(z), j = Len(s) + n PROVE i = j
    BY <1>4, <1>5, <1>9, <2>4
  <2>5. CASE i \in 1 .. Len(s)
    BY <1>5, <2>1, <2>2, <2>5, Zenon
  <2>6. CASE \E m \in 1 .. Len(z) : i = Len(s) + m
    BY <1>5, <2>3, <2>4, <2>6, Zenon
  <2> QED BY <1>5, <2>5, <2>6, Zenon
<1> QED BY <1>3, <1>5, <1>8, <1>9 DEF Listed

\* The first command of a ring is taken out.
LEMMA HeadOut ==
    ASSUME NEW s, NEW q, NEW where, Listed(s, q, where), s # <<>>,
           \A x \in Cmd : stage'[x] # stage[x] => x = s[1] \/ stage[x] # where, UNCHANGED cmd
    PROVE  /\ s[1] \in Cmd /\ Head(s) = s[1] /\ stage[s[1]] = where /\ cmd[s[1]].q = q
           /\ Listed(Tail(s), q, where)'
<1>1. /\ s \in Seq(Cmd)
      /\ \A i \in 1 .. Len(s) : stage[s[i]] = where /\ cmd[s[i]].q = q
      /\ \A i, j \in 1 .. Len(s) : s[i] = s[j] => i = j
  BY DEF Listed
<1>2. PICK z : z = Tail(s)
  OBVIOUS
<1>3. /\ Head(s) = s[1] /\ s[1] \in Cmd /\ z \in Seq(Cmd) /\ 1 \in 1 .. Len(s)
      /\ \A i \in 1 .. Len(z) : i + 1 \in 1 .. Len(s) /\ z[i] = s[i + 1]
  BY <1>1, <1>2, Shorter
<1>4. ASSUME NEW i \in 1 .. Len(z) PROVE stage'[z[i]] = where /\ cmd'[z[i]].q = q
  <2>1. z[i] = s[i + 1] /\ i + 1 # 1 /\ i + 1 \in 1 .. Len(s)
    BY <1>3
  <2>2. z[i] # s[1] /\ stage[z[i]] = where /\ cmd[z[i]].q = q /\ z[i] \in Cmd
    BY <1>1, <1>3, <2>1
  <2> QED BY <2>2
<1>5. ASSUME NEW i \in 1 .. Len(z), NEW j \in 1 .. Len(z), z[i] = z[j] PROVE i = j
  <2>1. i + 1 = j + 1
    BY <1>1, <1>3, <1>5
  <2> QED BY <2>1
<1> QED BY <1>1, <1>2, <1>3, <1>4, <1>5 DEF Listed

\* A ring that the step leaves alone.
LEMMA ListedSame ==
    ASSUME NEW s, NEW q, NEW where, Listed(s, q, where),
           \A x \in Cmd : stage[x] = where => stage'[x] = where /\ cmd'[x].q = cmd[x].q
    PROVE  Listed(s, q, where)'
<1>1. \A i \in 1 .. Len(s) : s[i] \in Cmd
  BY DEF Listed
<1> QED BY <1>1 DEF Listed

\* A nonempty set of natural numbers has a least element.
LEMMA LeastNat == ASSUME NEW T, T \subseteq Nat, T # {} PROVE \E x \in T : \A y \in T : x <= y
<1>1. PICK R : R = {p \in Nat \X Nat : p[1] < p[2]}
  OBVIOUS
<1>2. IsWellFoundedOn(R, Nat)
  BY <1>1, NatLessThanWellFounded DEF OpToRel
<1>3. PICK x \in T : \A y \in T : ~(<<y, x>> \in R)
  BY <1>2, WFMin
<1>4. \A y \in T : ~(y < x)
  BY <1>1, <1>3
<1> QED BY <1>4

\* The search of a line finds one of the ways it searches for.
LEMMA FirstIn == ASSUME NEW S, S \subseteq Way, S # {} PROVE First(S) \in S
<1>1. S \subseteq Nat
  BY CacheAssumption DEF Way
<1>2. \E i \in S : \A j \in S : i <= j
  BY <1>1, LeastNat
<1> QED BY <1>2 DEF First

\* The line, tag and way of a cluster.
LEMMA SlotWay ==
    ASSUME NEW v \in Vblk
    PROVE  /\ idx(v) \in Line /\ tag(v) \in Nat /\ Slot(v) \in Way
           /\ Cached(v) => First(Holding(v)) \in Holding(v) /\ First(Holding(v)) \in Way
<1>1. v \in Nat
  BY SizeAssumption DEF Vblk
<1>2. idx(v) \in Line /\ tag(v) \in Nat
  BY <1>1, CacheAssumption, DivMod DEF idx, tag, Line
<1>3. Cached(v) => First(Holding(v)) \in Holding(v) /\ First(Holding(v)) \in Way
  BY FirstIn DEF Cached, Holding
<1>4. 0 \in Way
  BY CacheAssumption DEF Way
<1>5. PICK A : A = {i \in Way : ~ways[idx(v)][i].vld}
  OBVIOUS
<1>6. PICK B : B = Way \ mru[idx(v)]
  OBVIOUS
<1>7. (A # {} => First(A) \in Way) /\ (B # {} => First(B) \in Way)
  BY <1>5, <1>6, FirstIn
<1> QED BY <1>2, <1>3, <1>4, <1>5, <1>6, <1>7 DEF Slot

\* The cache's operations keep its types.
WaysTyped == ways \in [Line -> [Way -> WayType]] /\ \A l \in Line, i \in Way : ways[l][i].plba \in Disk
\* The ways' contents and the lines' recent ways.
MruTyped  == mru \in [Line -> SUBSET Way]

\* The cache's operations keep its ways typed ...
LEMMA WaysSteps ==
    ASSUME WaysTyped, NEW v \in Vblk
    PROVE  /\ \A p \in Disk, w \in BOOLEAN : lba_update(v, p, w) => WaysTyped'
           /\ lba_flush_range(v) => WaysTyped'
           /\ lba_clear_writable => WaysTyped'
           /\ UNCHANGED ways => WaysTyped'
           /\ Cached(v) => Found(v).plba \in Disk
<1>1. /\ idx(v) \in Line /\ tag(v) \in Nat /\ Slot(v) \in Way
      /\ Cached(v) => First(Holding(v)) \in Holding(v) /\ First(Holding(v)) \in Way
  BY SlotWay
<1>2. \A p \in Disk : p \in Nat
  BY LimitAssumption DEF Disk
<1>3. ASSUME NEW p \in Disk, NEW w \in BOOLEAN, lba_update(v, p, w) PROVE WaysTyped'
  <2>1. Filled(v, p, w) \in WayType /\ Filled(v, p, w).plba = p
    BY <1>1, <1>2 DEF Filled, WayType
  <2>2. ways' = [ways EXCEPT ![idx(v)] = [ways[idx(v)] EXCEPT ![Slot(v)] = Filled(v, p, w)]]
    BY <1>3 DEF lba_update
  <2>3. PICK f : f = Filled(v, p, w)
    OBVIOUS
  <2>4. PICK s \in Way : s = Slot(v)
    BY <1>1
  <2>5. PICK k \in Line : k = idx(v)
    BY <1>1
  <2>6. ways' = [ways EXCEPT ![k] = [ways[k] EXCEPT ![s] = f]]
    BY <2>2, <2>3, <2>4, <2>5
  <2> QED BY <2>1, <2>3, <2>6 DEF WaysTyped
<1>4. ASSUME lba_flush_range(v) PROVE WaysTyped'
  <2>1. PICK f : f = Dropped(v)
    OBVIOUS
  <2>2. f \in [Way -> WayType] /\ \A i \in Way : f[i].plba = ways[idx(v)][i].plba
    BY <1>1, <2>1 DEF Dropped, WaysTyped, WayType
  <2>3. PICK k \in Line : k = idx(v)
    BY <1>1
  <2>4. ways' = [ways EXCEPT ![k] = f]
    BY <1>4, <2>1, <2>3 DEF lba_flush_range
  <2> QED BY <2>2, <2>3, <2>4 DEF WaysTyped
<1>5. lba_clear_writable => WaysTyped'
  BY DEF lba_clear_writable, WaysTyped, WayType
<1>6. UNCHANGED ways => WaysTyped'
  BY DEF WaysTyped
<1>7. Cached(v) => Found(v).plba \in Disk
  BY <1>1 DEF Found, WaysTyped
<1> QED BY <1>3, <1>4, <1>5, <1>6, <1>7

\* ... and its recent ways.
LEMMA MruSteps ==
    ASSUME MruTyped, NEW v \in Vblk
    PROVE  /\ \A p, w : lba_update(v, p, w) => MruTyped'
           /\ lba_lookup(v) => MruTyped'
           /\ UNCHANGED mru => MruTyped'
<1>1. /\ idx(v) \in Line /\ Slot(v) \in Way
      /\ Cached(v) => First(Holding(v)) \in Way
  BY SlotWay
<1>2. ASSUME NEW i \in Way, Touch(v, i) PROVE MruTyped'
  <2>1. Marked(mru[idx(v)], i) \subseteq Way
    BY <1>1 DEF Marked, MruTyped
  <2> QED BY <1>1, <1>2, <2>1 DEF Touch, MruTyped
<1>3. ASSUME NEW p, NEW w, lba_update(v, p, w) PROVE MruTyped'
  BY <1>1, <1>2, <1>3 DEF lba_update
<1>4. lba_lookup(v) => MruTyped'
  BY <1>1, <1>2 DEF lba_lookup, MruTyped
<1> QED BY <1>3, <1>4 DEF MruTyped

\* The cache's types, taken apart.
LEMMA DataTypes ==
    Data <=> /\ disk \in [Disk -> [Offs -> Value]] /\ last \in [Vblk -> [Offs -> Value]]
             /\ WaysTyped /\ MruTyped
  BY DEF Data, WaysTyped, MruTyped, CacheTypeOK

\* The same after a step.
LEMMA DataTypesNext ==
    Data' <=> /\ disk' \in [Disk -> [Offs -> Value]] /\ last' \in [Vblk -> [Offs -> Value]]
              /\ WaysTyped' /\ MruTyped'
  BY DEF Data, WaysTyped, MruTyped, CacheTypeOK

\* The server's part, where the server does not step.
LEMMA ServerSame ==
    ASSUME Server, UNCHANGED allVars,
           \A c \in Cmd : stage[c] = "srv" => stage'[c] = "srv" /\ cmd'[c] = cmd[c]
    PROVE  Server'
<1>1. UNCHANGED <<hwm, root, l0, snaps, tx, handle, req, cur, count, clock, wq, sq, ring, sent>>
  BY DEF allVars, vars, srvVars
<1>2. SrvInv' /\ Waiting'
  BY <1>1, SrvStep DEF Server, Waiting, Idle
<1>3. \A c, v : Waits(c, v) => Waits(c, v)'
  BY DEF Waits
<1> QED BY <1>1, <1>2, <1>3 DEF Server, head

\* A command is put at the end of a ring.
LEMMA Appends ==
    ASSUME NEW s, NEW q, NEW where, Listed(s, q, where), NEW c \in Cmd, stage[c] # where,
           stage'[c] = where, cmd'[c].q = q,
           \A x \in Cmd : stage[x] = where => stage'[x] = where /\ cmd'[x].q = cmd[x].q
    PROVE  Listed(Append(s, c), q, where)'
<1>1. /\ s \in Seq(Cmd)
      /\ \A i \in 1 .. Len(s) : stage[s[i]] = where /\ cmd[s[i]].q = q
      /\ \A i, j \in 1 .. Len(s) : s[i] = s[j] => i = j
  BY DEF Listed
<1>2. PICK t : t = Append(s, c)
  OBVIOUS
<1>3. PICK n \in Nat : n = Len(s)
  BY <1>1
<1>4. /\ t \in Seq(Cmd) /\ Len(t) = n + 1 /\ t[n + 1] = c
      /\ \A i \in 1 .. n : t[i] = s[i] /\ s[i] \in Cmd
  BY <1>1, <1>2, <1>3
<1>5. \A i \in 1 .. n + 1 : i \in 1 .. n \/ i = n + 1
  OBVIOUS
<1>6. \A i \in 1 .. n : t[i] \in Cmd /\ t[i] # c /\ stage'[t[i]] = where /\ cmd'[t[i]].q = q
  BY <1>1, <1>3, <1>4
<1>7. \A i \in 1 .. n + 1 : stage'[t[i]] = where /\ cmd'[t[i]].q = q
  BY <1>4, <1>5, <1>6
<1>8. \A i, j \in 1 .. n + 1 : t[i] = t[j] => i = j
  BY <1>1, <1>3, <1>4, <1>5, <1>6
<1> QED BY <1>2, <1>4, <1>7, <1>8 DEF Listed

\* A command the guest issues.
Issued(c, r, q, to) ==
    /\ stage[c] = "new"
    /\ cmd' = [cmd EXCEPT ![c] = [op |-> r.op, v |-> r.v, off |-> r.off, q |-> q]]
    /\ stage' = [stage EXCEPT ![c] = to]
    /\ nsq' = IF to = "nsq" THEN [nsq EXCEPT ![q] = Append(nsq[q], c)] ELSE nsq
    /\ UNCHANGED <<allVars, ncq, disk, bandRet, last, frozen>>
    /\ to \in {"nsq", "done"} \/ (to = "hq" /\ IsRw(r))
    /\ slba' \in [Cmd -> Disk]

\* Every VSQ hook does that.
LEMMA VsqShape ==
    ASSUME PathTypes, NEW c \in Cmd, NEW r \in Asked, NEW q \in Queues, Vsq(c, r, q)
    PROVE  \E to : Issued(c, r, q, to)
<1>1. r.v \in Vblk /\ WaysTyped /\ slba \in [Cmd -> Disk]
  BY PathAssumption, DataTypes DEF PathTypes, Path
<1>2. CASE vsq_hit(c, r, q)
  <2>1. Cached(r.v) => Found(r.v).plba \in Disk
    BY <1>1, WaysSteps
  <2> QED BY <1>1, <1>2, <2>1 DEF vsq_hit, MayIssue, Translated, Accept, Issued
<1>3. CASE vsq_miss(c, r, q)
  BY <1>1, <1>3 DEF vsq_miss, MayIssue, Accept, Issued
<1>4. CASE vsq_snapshot(c, r, q)
  BY <1>1, <1>4 DEF vsq_snapshot, MayIssue, Accept, Issued
<1> QED BY <1>2, <1>3, <1>4 DEF Vsq

\* An accepted command joins the path.
LEMMA IssuedPath ==
    ASSUME Path, NEW c \in Cmd, NEW r \in Asked, NEW q \in Queues, NEW to, Issued(c, r, q, to)
    PROVE  Path'
<1>1. PICK z : z = [op |-> r.op, v |-> r.v, off |-> r.off, q |-> q]
  OBVIOUS
<1>2. z \in CmdType /\ z.q = q /\ z.op = r.op /\ (IsRw(r) => IsRw(z))
  BY <1>1 DEF CmdType, IsRw
<1>3. /\ cmd' = [cmd EXCEPT ![c] = z] /\ stage' = [stage EXCEPT ![c] = to] /\ stage[c] = "new"
      /\ ncq' = ncq /\ slba' \in [Cmd -> Disk] /\ sent' = sent
      /\ to \in {"nsq", "done"} \/ (to = "hq" /\ IsRw(r))
  BY <1>1 DEF Issued, allVars, srvVars
<1>4. /\ cmd \in [Cmd -> CmdType \union {NoReq}]
      /\ stage \in [Cmd -> {"new", "nsq", "srv", "ncq", "hq", "done"}]
      /\ nsq = [qu \in Queues |-> nsq[qu]] /\ ncq = [qu \in Queues |-> ncq[qu]]
      /\ \A p \in Queues : Listed(nsq[p], p, "nsq") /\ Listed(ncq[p], p, "ncq")
      /\ \A x \in Cmd : stage[x] # "new" => cmd[x] \in CmdType
      /\ \A x \in Cmd : stage[x] = "new" => cmd[x] = NoReq
      /\ \A x \in Cmd : stage[x] = "ncq" => sent[x] # <<>>
      /\ \A x \in Cmd : stage[x] = "hq" => IsRw(cmd[x])
  BY DEF Path
<1>5. /\ cmd'[c] = z /\ stage'[c] = to
      /\ \A x \in Cmd : x # c => cmd'[x] = cmd[x] /\ stage'[x] = stage[x]
  BY <1>3, <1>4
<1>6. \A x \in Cmd : stage[x] # "new" => stage'[x] = stage[x] /\ cmd'[x] = cmd[x]
  BY <1>3, <1>5
<1>7. /\ cmd' \in [Cmd -> CmdType \union {NoReq}]
      /\ stage' \in [Cmd -> {"new", "nsq", "srv", "ncq", "hq", "done"}]
      /\ \A x \in Cmd : stage'[x] # "new" => cmd'[x] \in CmdType
      /\ \A x \in Cmd : stage'[x] = "new" => cmd'[x] = NoReq
      /\ \A x \in Cmd : stage'[x] = "ncq" => sent'[x] # <<>>
      /\ \A x \in Cmd : stage'[x] = "hq" => IsRw(cmd'[x])
  BY <1>2, <1>3, <1>4, <1>5
<1>8. ASSUME NEW p \in Queues PROVE Listed(ncq[p], p, "ncq")'
  <2>1. PICK s : s = ncq[p] /\ s = ncq'[p]
    BY <1>3
  <2>2. Listed(s, p, "ncq")
    BY <1>4, <2>1
  <2>3. Listed(s, p, "ncq")'
    BY <1>6, <2>2, ListedSame
  <2> QED BY <2>1, <2>3
<1>9. nsq' = [qu \in Queues |-> nsq'[qu]] /\ \A p \in Queues : Listed(nsq[p], p, "nsq")'
  <2>1. nsq' = [qu \in Queues |-> nsq'[qu]] /\ \A p \in Queues : nsq'[p] = IF to = "nsq" /\ p = q THEN Append(nsq[q], c) ELSE nsq[p]
    BY <1>4 DEF Issued
  <2>2. ASSUME NEW p \in Queues PROVE Listed(nsq[p], p, "nsq")'
    <3>1. PICK s : s = nsq[p]
      OBVIOUS
    <3>2. Listed(s, p, "nsq")
      BY <1>4, <3>1
    <3>3. CASE to = "nsq" /\ p = q
      <4>1. Listed(Append(s, c), p, "nsq")'
        BY <1>2, <1>3, <1>5, <1>6, <3>2, <3>3, Appends
      <4>2. PICK t : t = Append(s, c) /\ t = nsq'[p]
        BY <2>1, <3>1, <3>3
      <4> QED BY <4>1, <4>2
    <3>4. CASE ~(to = "nsq" /\ p = q)
      <4>1. Listed(s, p, "nsq")'
        BY <1>6, <3>2, ListedSame
      <4>2. s = nsq'[p]
        BY <2>1, <3>1, <3>4
      <4> QED BY <4>1, <4>2
    <3> QED BY <3>3, <3>4
  <2> QED BY <2>1, <2>2
<1> QED BY <1>3, <1>4, <1>7, <1>8, <1>9 DEF Path

\* The VSQ hooks keep the types.
LEMMA VsqTypes ==
    ASSUME PathTypes, NEW c \in Cmd, NEW r \in Asked, NEW q \in Queues, Vsq(c, r, q)
    PROVE  PathTypes'
<1>1. PICK to : Issued(c, r, q, to)
  BY VsqShape
<1>2. Path'
  BY <1>1, IssuedPath DEF PathTypes
<1>3. Server'
  <2>1. \A x \in Cmd : stage[x] = "srv" => stage'[x] = "srv" /\ cmd'[x] = cmd[x]
    BY <1>1 DEF Issued, PathTypes, Path
  <2> QED BY <1>1, <2>1, ServerSame DEF PathTypes, Issued
<1>4. Data'
  <2>1. r.v \in Vblk /\ WaysTyped /\ MruTyped
    BY PathAssumption, DataTypes DEF PathTypes
  <2>2. WaysTyped'
    BY <2>1, WaysSteps DEF Vsq, vsq_hit, vsq_miss, vsq_snapshot
  <2>3. MruTyped'
    BY <2>1, MruSteps DEF Vsq, vsq_hit, vsq_miss, vsq_snapshot
  <2>4. disk' = disk /\ last' = last
    BY <1>1 DEF Issued
  <2> QED BY <2>2, <2>3, <2>4, DataTypes, DataTypesNext DEF PathTypes
<1> QED BY <1>2, <1>3, <1>4 DEF PathTypes

\* The answer to a command names a cluster of the disk.
LEMMA AnswerType ==
    ASSUME Server, NEW c \in Cmd, sent[c] # <<>>
    PROVE  /\ Answer(c) \in ReplyType /\ Answer(c).cl \in Disk
           /\ Answer(c).fwd => Safe(Answer(c).cl)
           /\ ~Answer(c).fwd => Answer(c).cl = 0
<1>1. sent[c] \in Seq(ReplyType) /\ TypeOK
  BY DEF Server, SrvInv, SrvTypes, FileInv
<1>2. PICK n \in 1 .. Len(sent[c]) : n = Len(sent[c])
  BY <1>1
<1>3. PICK a \in ReplyType : a = sent[c][n]
  BY <1>1
<1>4. Answer(c) = a
  BY <1>2, <1>3 DEF Answer
<1>5. (a.fwd => Safe(a.cl)) /\ (~a.fwd => a.cl = 0) /\ a.cl \in Nat
  BY <1>2, <1>3 DEF Server, SrvInv, ToldSafe, ReplyType
<1>6. snaps[head].disk_hwm \in Nat /\ snaps[head].disk_hwm <= DiskHwmLimit + 1 /\ DiskHwmLimit \in Nat
  BY <1>1, RefType, LimitAssumption DEF RefsTyped, Server
<1>7. a.cl \in Disk
  BY <1>5, <1>6 DEF Safe, Disk
<1> QED BY <1>4, <1>5, <1>7, <1>3

\* The step takes the first answer of queue q.
LEMMA NcqPath ==
    ASSUME Path, NEW q \in Queues, ncq[q] # <<>>, NEW to \in {"hq", "done"}, TakeNcq(q, to),
           to = "hq" => IsRw(cmd[Head(ncq[q])]), slba' \in [Cmd -> Disk]
    PROVE  /\ Path' /\ Head(ncq[q]) \in Cmd /\ stage[Head(ncq[q])] = "ncq" /\ sent[Head(ncq[q])] # <<>>
           /\ cmd[Head(ncq[q])] \in CmdType /\ cmd[Head(ncq[q])].q = q
<1>1. PICK s : s = ncq[q]
  OBVIOUS
<1>2. /\ cmd \in [Cmd -> CmdType \union {NoReq}]
      /\ stage \in [Cmd -> {"new", "nsq", "srv", "ncq", "hq", "done"}]
      /\ nsq = [qu \in Queues |-> nsq[qu]] /\ ncq = [qu \in Queues |-> ncq[qu]]
      /\ \A p \in Queues : Listed(nsq[p], p, "nsq") /\ Listed(ncq[p], p, "ncq")
      /\ \A x \in Cmd : stage[x] # "new" => cmd[x] \in CmdType
      /\ \A x \in Cmd : stage[x] = "new" => cmd[x] = NoReq
      /\ \A x \in Cmd : stage[x] = "ncq" => sent[x] # <<>>
      /\ \A x \in Cmd : stage[x] = "hq" => IsRw(cmd[x])
  BY DEF Path
<1>3. Listed(s, q, "ncq") /\ s # <<>>
  BY <1>1, <1>2
<1>4. PICK c : c = Head(s)
  OBVIOUS
<1>5. s \in Seq(Cmd) /\ c = s[1] /\ c \in Cmd
  BY <1>3, <1>4, Shorter DEF Listed
<1>6. /\ stage' = [stage EXCEPT ![c] = to] /\ cmd' = cmd /\ nsq' = nsq /\ sent' = sent
      /\ ncq' = [ncq EXCEPT ![q] = Tail(s)] /\ (to = "hq" => IsRw(cmd[c]))
  BY <1>1, <1>4 DEF TakeNcq, allVars, srvVars
<1>7. stage'[c] = to /\ \A x \in Cmd : x # c => stage'[x] = stage[x]
  BY <1>2, <1>5, <1>6
<1>8. stage[c] = "ncq" /\ cmd[c].q = q /\ Listed(Tail(s), q, "ncq")'
  BY <1>3, <1>5, <1>6, <1>7, HeadOut
<1>9. /\ stage' \in [Cmd -> {"new", "nsq", "srv", "ncq", "hq", "done"}]
      /\ \A x \in Cmd : stage'[x] # "new" => cmd'[x] \in CmdType
      /\ \A x \in Cmd : stage'[x] = "new" => cmd'[x] = NoReq
      /\ \A x \in Cmd : stage'[x] = "ncq" => sent'[x] # <<>>
      /\ \A x \in Cmd : stage'[x] = "hq" => IsRw(cmd'[x])
  BY <1>2, <1>5, <1>6, <1>7, <1>8
<1>10. ASSUME NEW p \in Queues PROVE Listed(nsq[p], p, "nsq")' /\ Listed(ncq[p], p, "ncq")'
  <2>1. PICK z : z = nsq[p] /\ z = nsq'[p]
    BY <1>6
  <2>2. Listed(z, p, "nsq")
    BY <1>2, <2>1
  <2>3. Listed(z, p, "nsq")'
    BY <1>6, <1>7, <1>8, <2>2, ListedSame
  <2>4. Listed(nsq[p], p, "nsq")'
    BY <2>1, <2>3
  <2>5. CASE p = q
    <3>1. PICK t : t = Tail(s) /\ t = ncq'[p]
      BY <1>2, <1>6, <2>5
    <3> QED BY <1>8, <2>4, <2>5, <3>1
  <2>6. CASE p # q
    <3>1. PICK t : t = ncq[p] /\ t = ncq'[p]
      BY <1>2, <1>6, <2>6
    <3>2. Listed(t, p, "ncq")
      BY <1>2, <3>1
    <3>3. \A i \in 1 .. Len(t) : t[i] \in Cmd /\ t[i] # c /\ stage[t[i]] = "ncq" /\ cmd[t[i]].q = p
      BY <1>8, <2>6, <3>2 DEF Listed
    <3>4. Listed(t, p, "ncq")'
      BY <1>6, <1>7, <3>2, <3>3 DEF Listed
    <3> QED BY <2>4, <3>1, <3>4
  <2> QED BY <2>5, <2>6
<1>11. ncq' = [qu \in Queues |-> ncq'[qu]]
  BY <1>2, <1>6
<1>12. Path'
  BY <1>2, <1>6, <1>9, <1>10, <1>11 DEF Path
<1> QED BY <1>1, <1>2, <1>4, <1>5, <1>8, <1>12

\* The NFD_WRITE hooks keep the types.
LEMMA NcqTypes ==
    ASSUME PathTypes, NEW q \in Queues, Ncq(q)
    PROVE  PathTypes'
<1>1. PICK c : c = Head(ncq[q])
  OBVIOUS
<1>2. ncq[q] # <<>> /\ slba \in [Cmd -> Disk]
  BY DEF Ncq, ncq_valid, ncq_plain, ncq_snapshot, PathTypes, Path
<1>3. c \in Cmd /\ stage[c] = "ncq"
  <2>1. PICK s : s = ncq[q]
    OBVIOUS
  <2>2. Listed(s, q, "ncq") /\ s # <<>>
    BY <1>2, <2>1 DEF PathTypes, Path
  <2> QED BY <1>1, <2>1, <2>2, Shorter DEF Listed
<1>4. cmd[c] \in CmdType /\ sent[c] # <<>> /\ cmd[c].v \in Vblk
  BY <1>3, Asks DEF PathTypes, Path
<1>5. Answer(c) \in ReplyType /\ Answer(c).cl \in Disk
  BY <1>3, <1>4, AnswerType DEF PathTypes
<1>6. Answer(c).wr \in BOOLEAN
  BY <1>5 DEF ReplyType
<1>7. PICK to \in {"hq", "done"} : TakeNcq(q, to) /\ (to = "hq" => IsRw(cmd[c]))
  BY <1>1 DEF Ncq, ncq_valid, ncq_plain, ncq_snapshot
<1>8. slba' \in [Cmd -> Disk]
  BY <1>1, <1>2, <1>3, <1>5 DEF Ncq, ncq_valid, ncq_plain, ncq_snapshot
<1>9. Path'
  BY <1>1, <1>2, <1>7, <1>8, NcqPath DEF PathTypes
<1>10. Server'
  <2>1. \A x \in Cmd : stage[x] = "srv" => stage'[x] = "srv" /\ cmd'[x] = cmd[x]
    BY <1>1, <1>3, <1>7 DEF TakeNcq, PathTypes, Path
  <2> QED BY <1>7, <2>1, ServerSame DEF PathTypes, TakeNcq
<1>11. Data'
  <2>1. WaysTyped /\ MruTyped
    BY DataTypes DEF PathTypes
  <2>2. WaysTyped'
    BY <1>1, <1>4, <1>5, <1>6, <2>1, WaysSteps DEF Ncq, ncq_valid, ncq_plain, ncq_snapshot, cacheVars
  <2>3. MruTyped'
    BY <1>1, <1>4, <2>1, MruSteps DEF Ncq, ncq_valid, ncq_plain, ncq_snapshot, cacheVars
  <2>4. disk' = disk /\ last' = last
    BY <1>7 DEF TakeNcq
  <2> QED BY <2>2, <2>3, <2>4, DataTypes, DataTypesNext DEF PathTypes
<1> QED BY <1>9, <1>10, <1>11 DEF PathTypes

\* The values that commands leave.
LEMMA Values == 0 \in Value /\ Junk \in Value /\ \A c \in Cmd : c \in Value /\ c # 0
<1>1. PICK n \in Nat : n = Cardinality(Cmd)
  BY PathAssumption, FS_CardinalityType
<1>2. Cmd = 1 .. n
  BY <1>1, PathAssumption
<1>3. Junk = n + 1
  BY <1>1 DEF Junk
<1>4. Value = 0 .. n + 1
  BY <1>3 DEF Value
<1>5. 0 \in 0 .. n + 1 /\ n + 1 \in 0 .. n + 1 /\ \A c \in 1 .. n : c \in 0 .. n + 1 /\ c # 0
  OBVIOUS
<1> QED BY <1>2, <1>3, <1>4, <1>5, Zenon

\* What a command leaves in its block.
Left(c) == IF cmd[c].op = "write" THEN c ELSE 0

\* The disk keeps the types.
LEMMA HqTypes ==
    ASSUME PathTypes, NEW c \in Cmd, hq_done(c)
    PROVE  PathTypes'
<1>1. /\ cmd \in [Cmd -> CmdType \union {NoReq}]
      /\ stage \in [Cmd -> {"new", "nsq", "srv", "ncq", "hq", "done"}]
      /\ slba \in [Cmd -> Disk]
      /\ nsq = [qu \in Queues |-> nsq[qu]] /\ ncq = [qu \in Queues |-> ncq[qu]]
      /\ \A p \in Queues : Listed(nsq[p], p, "nsq") /\ Listed(ncq[p], p, "ncq")
      /\ \A x \in Cmd : stage[x] # "new" => cmd[x] \in CmdType
      /\ \A x \in Cmd : stage[x] = "new" => cmd[x] = NoReq
      /\ \A x \in Cmd : stage[x] = "ncq" => sent[x] # <<>>
      /\ \A x \in Cmd : stage[x] = "hq" => IsRw(cmd[x])
  BY DEF PathTypes, Path
<1>2. /\ stage[c] = "hq" /\ stage' = [stage EXCEPT ![c] = "done"]
      /\ UNCHANGED <<allVars, cacheVars, cmd, slba, nsq, ncq>>
  BY DEF hq_done
<1>3. stage'[c] = "done" /\ \A x \in Cmd : x # c => stage'[x] = stage[x]
  BY <1>1, <1>2
<1>4. \A x \in Cmd : stage[x] # "hq" => stage'[x] = stage[x] /\ cmd'[x] = cmd[x]
  BY <1>2, <1>3
<1>5. Server'
  BY <1>2, <1>4, ServerSame DEF PathTypes
<1>6. ASSUME NEW p \in Queues PROVE Listed(nsq[p], p, "nsq")' /\ Listed(ncq[p], p, "ncq")'
  <2>1. PICK s : s = nsq[p] /\ s = nsq'[p]
    BY <1>2
  <2>2. PICK t : t = ncq[p] /\ t = ncq'[p]
    BY <1>2
  <2>3. Listed(s, p, "nsq") /\ Listed(t, p, "ncq")
    BY <1>1, <2>1, <2>2
  <2>4. Listed(s, p, "nsq")' /\ Listed(t, p, "ncq")'
    BY <1>4, <2>3, ListedSame
  <2> QED BY <2>1, <2>2, <2>4
<1>7. sent' = sent
  BY <1>2 DEF allVars, srvVars
<1>8. Path'
  BY <1>1, <1>2, <1>3, <1>6, <1>7 DEF Path
<1>9. cmd[c].v \in Vblk /\ cmd[c].off \in Offs /\ slba[c] \in Disk
  BY <1>1, <1>2, Asks
<1>10. Left(c) \in Value
  BY Values DEF Left
<1>11. /\ disk \in [Disk -> [Offs -> Value]] /\ last \in [Vblk -> [Offs -> Value]]
       /\ WaysTyped /\ MruTyped
  BY DataTypes DEF PathTypes
<1>12. disk' = disk \/ disk' = [disk EXCEPT ![slba[c]] = [disk[slba[c]] EXCEPT ![cmd[c].off] = Left(c)]]
  BY DEF hq_done, Left
<1>13. last' = last \/ last' = [last EXCEPT ![cmd[c].v] = [last[cmd[c].v] EXCEPT ![cmd[c].off] = Left(c)]]
  BY DEF hq_done, Served, Left
<1>14. disk' \in [Disk -> [Offs -> Value]]
  BY <1>9, <1>10, <1>11, <1>12
<1>15. last' \in [Vblk -> [Offs -> Value]]
  <2>1. PICK v \in Vblk : v = cmd[c].v
    BY <1>9
  <2>2. PICK o \in Offs : o = cmd[c].off
    BY <1>9
  <2>3. PICK x \in Value : x = Left(c)
    BY <1>10
  <2>4. last' = last \/ last' = [last EXCEPT ![v] = [last[v] EXCEPT ![o] = x]]
    BY <1>13, <2>1, <2>2, <2>3
  <2> QED BY <1>11, <2>4
<1>16. WaysTyped' /\ MruTyped'
  BY <1>2, <1>11 DEF cacheVars, WaysTyped, MruTyped
<1> QED BY <1>5, <1>8, <1>14, <1>15, <1>16, DataTypesNext DEF PathTypes

\* The rings across a step of the server that takes d, or none.
LEMMA SrvPath ==
    ASSUME Path, NEW e, Respond(e), NEW d, Move(d), UNCHANGED <<cmd, slba>>,
           \A x \in Replied : stage[x] = "srv" \/ x = d, d \in Cmd => stage[d] = "nsq",
           \A x \in Cmd : sent[x] # <<>> \/ x \in Replied => sent'[x] # <<>>,
           nsq' = [qu \in Queues |-> nsq'[qu]], \A q \in Queues : Listed(nsq[q], q, "nsq")'
    PROVE  Path'
<1>1. /\ cmd \in [Cmd -> CmdType \union {NoReq}]
      /\ stage \in [Cmd -> {"new", "nsq", "srv", "ncq", "hq", "done"}]
      /\ slba \in [Cmd -> Disk]
      /\ \A x \in Cmd : stage[x] # "new" => cmd[x] \in CmdType
      /\ \A x \in Cmd : stage[x] = "new" => cmd[x] = NoReq
      /\ \A x \in Cmd : stage[x] = "ncq" => sent[x] # <<>>
      /\ \A x \in Cmd : stage[x] = "hq" => IsRw(cmd[x])
  BY DEF Path
<1>2. /\ stage' \in [Cmd -> {"new", "nsq", "srv", "ncq", "hq", "done"}]
      /\ \A x \in Cmd : stage'[x] = IF x \in Replied THEN "ncq" ELSE IF x = d THEN "srv" ELSE stage[x]
  BY <1>1 DEF Move
<1>3. Replied \subseteq Cmd
  BY DEF Replied
<1>4. \A x \in Replied : stage[x] # "ncq" /\ stage[x] # "new"
  BY <1>3
<1>5. \A q \in Queues : Listed(ncq[q], q, "ncq")'
  BY <1>4, NcqStep
<1>6. ncq' = [qu \in Queues |-> ncq'[qu]]
  BY DEF Respond
<1>7. /\ \A x \in Cmd : stage'[x] # "new" => cmd'[x] \in CmdType
      /\ \A x \in Cmd : stage'[x] = "new" => cmd'[x] = NoReq
      /\ \A x \in Cmd : stage'[x] = "ncq" => sent'[x] # <<>>
      /\ \A x \in Cmd : stage'[x] = "hq" => IsRw(cmd'[x])
  BY <1>1, <1>2, <1>3, <1>4
<1> QED BY <1>1, <1>2, <1>5, <1>6, <1>7 DEF Path

\* The first command of an NSQ.
LEMMA NsqHead ==
    ASSUME Path, NEW q \in Queues, nsq[q] # <<>>
    PROVE  /\ Head(nsq[q]) \in Cmd /\ stage[Head(nsq[q])] = "nsq" /\ cmd[Head(nsq[q])] \in CmdType
           /\ cmd[Head(nsq[q])].q = q
<1>1. PICK s : s = nsq[q]
  OBVIOUS
<1>2. Listed(s, q, "nsq") /\ s # <<>>
  BY <1>1 DEF Path
<1>3. Head(s) = s[1] /\ s[1] \in Cmd /\ stage[s[1]] = "nsq" /\ cmd[s[1]].q = q
  BY <1>2, Shorter DEF Listed
<1> QED BY <1>1, <1>3 DEF Path

\* It is taken out.
LEMMA NsqStep ==
    ASSUME Path, NEW q \in Queues, nsq[q] # <<>>, nsq' = [nsq EXCEPT ![q] = Tail(nsq[q])],
           UNCHANGED cmd,
           \A x \in Cmd : stage[x] = "nsq" /\ x # Head(nsq[q]) => stage'[x] = "nsq"
    PROVE  nsq' = [qu \in Queues |-> nsq'[qu]] /\ \A p \in Queues : Listed(nsq[p], p, "nsq")'
<1>1. PICK s : s = nsq[q]
  OBVIOUS
<1>2. Listed(s, q, "nsq") /\ s # <<>> /\ nsq = [qu \in Queues |-> nsq[qu]]
  BY <1>1 DEF Path
<1>3. PICK c : c = Head(s)
  OBVIOUS
<1>4. c = s[1] /\ c \in Cmd /\ stage[c] = "nsq" /\ cmd[c].q = q
  BY <1>2, <1>3, Shorter DEF Listed
<1>5. \A x \in Cmd : stage[x] = "nsq" /\ x # c => stage'[x] = "nsq"
  BY <1>1, <1>3
<1>6. Listed(Tail(s), q, "nsq")'
  BY <1>2, <1>4, <1>5, HeadOut
<1>7. nsq'[q] = Tail(s) /\ \A p \in Queues : p # q => nsq'[p] = nsq[p]
  BY <1>1, <1>2
<1>8. ASSUME NEW p \in Queues PROVE Listed(nsq[p], p, "nsq")'
  <2>1. CASE p = q
    <3>1. PICK t : t = Tail(s) /\ t = nsq'[p]
      BY <1>7, <2>1
    <3> QED BY <1>6, <2>1, <3>1
  <2>2. CASE p # q
    <3>1. PICK t : t = nsq[p] /\ t = nsq'[p]
      BY <1>7, <2>2
    <3>2. Listed(t, p, "nsq")
      BY <3>1 DEF Path
    <3>3. \A i \in 1 .. Len(t) : t[i] \in Cmd /\ t[i] # c /\ stage[t[i]] = "nsq" /\ cmd[t[i]].q = p
      BY <1>4, <2>2, <3>2 DEF Listed
    <3>4. Listed(t, p, "nsq")'
      BY <1>5, <3>2, <3>3 DEF Listed
    <3> QED BY <3>1, <3>4
  <2> QED BY <2>1, <2>2
<1> QED BY <1>2, <1>8

\* A reply is put at the end of a command's replies.
LEMMA SentMore ==
    ASSUME NEW s \in Seq(ReplyType), NEW a \in ReplyType, \A n \in 1 .. Len(s) : ~s[n].fwd => s[n].cl = 0,
           ~a.fwd => a.cl = 0, NEW t, t = Append(s, a)
    PROVE  /\ t # <<>> /\ t[Len(t)] = a
           /\ \A n \in 1 .. Len(t) : ~t[n].fwd => t[n].cl = 0
<1>2. PICK m \in Nat : m = Len(s)
  OBVIOUS
<1>3. t # <<>> /\ Len(t) = m + 1 /\ t[m + 1] = a /\ \A n \in 1 .. m : t[n] = s[n]
  BY <1>2
<1>4. \A n \in 1 .. m + 1 : n \in 1 .. m \/ n = m + 1
  OBVIOUS
<1>5. \A n \in 1 .. m + 1 : ~t[n].fwd => t[n].cl = 0
  BY <1>2, <1>3, <1>4
<1> QED BY <1>3, <1>5

\* What the path sees of it: c is answered, or waits.
Settles(c, r) ==
    /\ \/ Replied = {c} /\ UNCHANGED <<wq, sq, ring, tx>>
       \/ Replied = {} /\ r.op = "write" /\ (Allocates(c, r.v) \/ Defers(c, r.v))
    /\ \A x \in Cmd : sent[x] # <<>> \/ x \in Replied => sent'[x] # <<>>
    /\ \A x \in Cmd : \A n \in 1 .. Len(sent'[x]) : ~sent'[x][n].fwd => sent'[x][n].cl = 0

\* Taking a command keeps the types.
LEMMA TakeTypes ==
    ASSUME PathTypes, NEW q \in Queues, srv_take(q)
    PROVE  PathTypes'
<1>1. PICK c : c = Head(nsq[q])
  OBVIOUS
<1>2. nsq[q] # <<>> /\ Path /\ Server /\ Data
  BY DEF srv_take, PathTypes
<1>3. c \in Cmd /\ stage[c] = "nsq" /\ cmd[c] \in CmdType
  BY <1>1, <1>2, NsqHead
<1>4. /\ Submit(c, Request(cmd[c])) \/ WriteZeroes(c, Request(cmd[c]))
      /\ Move(c) /\ Respond(c) /\ nsq' = [nsq EXCEPT ![q] = Tail(nsq[q])]
      /\ UNCHANGED <<cacheVars, cmd, slba, disk, bandRet, last>>
  BY <1>1 DEF srv_take
<1>5. PICK r \in CmdType : r = cmd[c]
  BY <1>3
<1>6. Taking(c, r)
  BY <1>2, <1>3, <1>4, <1>5, TakeShape DEF Server
<1>7. /\ SrvInv /\ SrvInv' /\ Waiting' /\ count' = count /\ Spaced /\ FileInv
      /\ (\E a : Prompt(c, a)) \/ (r.op = "write" /\ (Allocates(c, r.v) \/ Defers(c, r.v)))
  BY <1>2, <1>6 DEF Taking, Server, SrvInv
<1>8. Marks'
  BY <1>2, <1>7, MarkStep DEF Server, Marks
<1>9. sent \in [Cmd -> Seq(ReplyType)]
  BY <1>7 DEF SrvInv, SrvTypes
<1>17. Settles(c, r)
  <2>1. ASSUME NEW a, Prompt(c, a) PROVE Settles(c, r)
    <3>1. /\ Replied = {c} /\ sent'[c] = Append(sent[c], a) /\ \A x \in Cmd : x # c => sent'[x] = sent[x]
          /\ a \in ReplyType /\ (~a.fwd => a.cl = 0) /\ UNCHANGED <<wq, sq, ring, tx>>
      BY <1>3, <1>7, <2>1, TakeReplied DEF Prompt
    <3>2. PICK s \in Seq(ReplyType) : s = sent[c]
      BY <1>3, <1>9
    <3>3. \A n \in 1 .. Len(s) : ~s[n].fwd => s[n].cl = 0
      BY <1>2, <1>3, <3>2 DEF Server
    <3>4. PICK t : t = Append(s, a) /\ t = sent'[c]
      BY <3>1, <3>2
    <3>5. t # <<>> /\ \A n \in 1 .. Len(t) : ~t[n].fwd => t[n].cl = 0
      BY <3>1, <3>2, <3>3, <3>4, SentMore
    <3>6. \A x \in Cmd : sent[x] # <<>> \/ x \in Replied => sent'[x] # <<>>
      BY <3>1, <3>4, <3>5
    <3>7. \A x \in Cmd : \A n \in 1 .. Len(sent'[x]) : ~sent'[x][n].fwd => sent'[x][n].cl = 0
      BY <1>2, <3>1, <3>4, <3>5 DEF Server
    <3> QED BY <3>1, <3>6, <3>7 DEF Settles
  <2>2. CASE r.op = "write" /\ (Allocates(c, r.v) \/ Defers(c, r.v))
    <3>1. sent' = sent
      BY <2>2 DEF Allocates, Defers
    <3>2. Replied = {}
      BY <1>3, <1>7, <3>1, TakeReplied
    <3> QED BY <1>2, <2>2, <3>1, <3>2 DEF Server, Settles
  <2> QED BY <1>7, <2>1, <2>2
<1>10. /\ \/ Replied = {c} /\ UNCHANGED <<wq, sq, ring, tx>>
          \/ Replied = {} /\ r.op = "write" /\ (Allocates(c, r.v) \/ Defers(c, r.v))
       /\ \A x \in Cmd : sent[x] # <<>> \/ x \in Replied => sent'[x] # <<>>
       /\ \A x \in Cmd : \A n \in 1 .. Len(sent'[x]) : ~sent'[x][n].fwd => sent'[x][n].cl = 0
  BY <1>17 DEF Settles
<1>11. Path'
  <2>1. \A x \in Cmd : stage[x] = "nsq" /\ x # c => stage'[x] = "nsq"
    BY <1>4, <1>10 DEF Move
  <2>2. nsq' = [qu \in Queues |-> nsq'[qu]] /\ \A p \in Queues : Listed(nsq[p], p, "nsq")'
    BY <1>1, <1>2, <1>4, <2>1, NsqStep
  <2>3. \A x \in Replied : stage[x] = "srv" \/ x = c
    BY <1>10
  <2> QED BY <1>2, <1>3, <1>4, <1>10, <2>2, <2>3, SrvPath
<1>12. \A x, v : Waits(x, v) => Waits(x, v)'
  <2>1. \A x \in Cmd : stage[x] = "srv" => stage'[x] = "srv" /\ cmd'[x] = cmd[x]
    BY <1>3, <1>4, <1>10 DEF Move
  <2> QED BY <2>1 DEF Waits
<1>13. Replied = {} /\ r.op = "write" => Waits(c, r.v)'
  BY <1>3, <1>4, <1>5 DEF Move, Waits
<1>14. /\ \A io \in sq' \union ring' : IsAlloc(io) => Waits(io.tag, io.t.v)'
       /\ \A d \in wq' : Waits(d.c, d.v)'
  <2>1. /\ \A io \in sq \union ring : IsAlloc(io) => Waits(io.tag, io.t.v)
        /\ \A d \in wq : Waits(d.c, d.v)
    BY <1>2 DEF Server
  <2>2. CASE Replied = {c} /\ UNCHANGED <<wq, sq, ring, tx>>
    BY <1>12, <2>1, <2>2
  <2>3. CASE Replied = {} /\ r.op = "write" /\ Allocates(c, r.v)
    BY <1>12, <1>13, <2>1, <2>3 DEF Allocates
  <2>4. CASE Replied = {} /\ r.op = "write" /\ Defers(c, r.v)
    BY <1>12, <1>13, <2>1, <2>4 DEF Defers
  <2> QED BY <1>10, <2>2, <2>3, <2>4
<1>15. Server'
  BY <1>2, <1>7, <1>8, <1>10, <1>14 DEF Server, Marks
<1>16. Data'
  BY <1>2, <1>4 DEF Data, cacheVars, CacheTypeOK
<1> QED BY <1>11, <1>15, <1>16 DEF PathTypes

\* The clusters that owned tables and the head refer to are on the disk.
LEMMA SafeDisk ==
    ASSUME Server, NEW p \in Nat, Safe(p)
    PROVE  p \in Disk
<1>1. snaps[head].disk_hwm \in Nat /\ snaps[head].disk_hwm <= DiskHwmLimit + 1 /\ DiskHwmLimit \in Nat
  BY RefType, LimitAssumption DEF RefsTyped, Server, SrvInv, FileInv
<1> QED BY <1>1 DEF Safe, Disk

\* What an allocation leaves is a cluster's contents.
LEMMA AllocatedType ==
    ASSUME Server, Data, NEW t \in tx
    PROVE  /\ Allocated(t) \in [Offs -> Value]
           /\ l0[t.m][l0_off(t.v)].off \in Disk /\ l0[t.m][l0_off(t.v)] \in Entry
<1>1. /\ t.v \in Vblk /\ t.m \in Meta /\ t.m # 0 /\ t.sn \in 1 .. head
      /\ Ref(t.sn, l1_off(t.v)) = encode(t.m, TRUE)
  BY TxTable DEF Server
<1>2. Owned(t.m, l1_off(t.v))
  BY <1>1 DEF Owned
<1>3. PICK e : e = l0[t.m][l0_off(t.v)]
  OBVIOUS
<1>4. e \in Entry /\ e.off \in Nat /\ Safe(e.off)
  BY <1>1, <1>2, <1>3, HeldIsSafe DEF HeldSafe, Server, SrvInv
<1>5. e.off \in Disk
  BY <1>4, SafeDisk
<1>6. Allocated(t) \in [Offs -> Value]
  BY <1>3, <1>5, Values DEF Allocated, Data
<1> QED BY <1>3, <1>4, <1>5, <1>6

\* The end of an allocation keeps the types.
LEMMA DoneTypes ==
    ASSUME PathTypes, NEW io \in ring, srv_done(io)
    PROVE  PathTypes'
<1>1. Path /\ Server /\ Data /\ SrvInv /\ Waiting
  BY DEF PathTypes, Server
<1>2. PICK ok \in BOOLEAN :
         /\ AllocDone(io, ok)
         /\ disk' = IF ok THEN [disk EXCEPT ![io.t.out] = Allocated(io.t)] ELSE disk
  BY DEF srv_done
<1>3. /\ Move(0) /\ Respond(io.tag) /\ UNCHANGED <<cacheVars, cmd, slba, nsq, bandRet, last, frozen>>
  BY DEF srv_done
<1>4. Finishing(io, ok)
  BY <1>1, <1>2, DoneShape
<1>5. /\ SrvInv' /\ Waiting' /\ count' = [c \in Cmd |-> count[c]] /\ snaps' = snaps
      /\ IsAlloc(io) /\ io.t \in tx
      /\ sq' \union ring' = (sq \union ring) \ {io} /\ wq' = wq \ Behind(io)
  BY <1>4 DEF Finishing
<1>6. Replied = {c \in Cmd : c = io.tag \/ \E d \in Behind(io) : d.c = c}
  BY <1>1, <1>4, DoneReplied
<1>7. /\ \A a \in sq \union ring : IsAlloc(a) => Waits(a.tag, a.t.v)
      /\ \A d \in wq : Waits(d.c, d.v)
  BY <1>1 DEF Server
<1>8. 0 \notin Cmd
  BY Values
<1>9. \A x \in Cmd : stage'[x] = IF x \in Replied THEN "ncq" ELSE stage[x]
  BY <1>3, <1>8 DEF Move
<1>10. \A x \in Replied : x \in Cmd /\ stage[x] = "srv" /\ cmd[x].v = io.t.v
  BY <1>5, <1>6, <1>7 DEF Waits, Behind
<1>11. \A x, v : Waits(x, v) /\ v # io.t.v => Waits(x, v)'
  BY <1>3, <1>9, <1>10 DEF Waits
<1>12. ASSUME NEW a \in sq' \union ring', IsAlloc(a) PROVE Waits(a.tag, a.t.v)'
  <2>1. a \in sq \union ring /\ a # io
    BY <1>5
  <2>2. a.t.v # io.t.v
    BY <1>1, <1>5, <1>12, <2>1 DEF SrvInv, Ledger
  <2> QED BY <1>7, <1>11, <1>12, <2>1, <2>2
<1>13. ASSUME NEW d \in wq' PROVE Waits(d.c, d.v)'
  BY <1>5, <1>7, <1>11 DEF Behind
<1>14. /\ \A x \in Cmd : sent[x] # <<>> \/ x \in Replied => sent'[x] # <<>>
       /\ \A x \in Cmd : \A n \in 1 .. Len(sent'[x]) : ~sent'[x][n].fwd => sent'[x][n].cl = 0
  <2> SUFFICES ASSUME NEW x \in Cmd
               PROVE  /\ sent[x] # <<>> \/ x \in Replied => sent'[x] # <<>>
                      /\ \A n \in 1 .. Len(sent'[x]) : ~sent'[x][n].fwd => sent'[x][n].cl = 0
    OBVIOUS
  <2>1. PICK s \in Seq(ReplyType) : s = sent[x]
    BY <1>1 DEF SrvInv, SrvTypes
  <2>2. \A n \in 1 .. Len(s) : ~s[n].fwd => s[n].cl = 0
    BY <1>1, <2>1 DEF Server
  <2>3. CASE sent'[x] = sent[x] /\ x \notin Replied
    BY <2>1, <2>2, <2>3
  <2>4. ASSUME NEW a, sent'[x] = Append(sent[x], a), a.fwd, a \in ReplyType
        PROVE  /\ sent'[x] # <<>>
               /\ \A n \in 1 .. Len(sent'[x]) : ~sent'[x][n].fwd => sent'[x][n].cl = 0
    <3>1. PICK t : t = Append(s, a) /\ t = sent'[x]
      BY <2>1, <2>4
    <3>2. t # <<>> /\ \A n \in 1 .. Len(t) : ~t[n].fwd => t[n].cl = 0
      BY <2>1, <2>2, <2>4, <3>1, SentMore
    <3> QED BY <3>1, <3>2
  <2>5. \/ sent'[x] = sent[x] /\ x \notin Replied
        \/ \E a : sent'[x] = Append(sent[x], a) /\ a.fwd
    <3>1. CASE x = io.tag
      BY <1>4, <3>1 DEF Finishing, Paddr, Reply
    <3>2. CASE x # io.tag /\ \E d \in Behind(io) : d.c = x
      <4>1. PICK d \in Behind(io) : sent'[x] = Append(sent[x], Entry_(ok, l0'[d.m][l0_off(d.v)]))
        BY <1>4, <3>2 DEF Finishing
      <4>2. Entry_(ok, l0'[d.m][l0_off(d.v)]).fwd
        BY DEF Entry_, Reply
      <4> QED BY <4>1, <4>2
    <3>3. CASE x # io.tag /\ \A d \in Behind(io) : d.c # x
      BY <1>4, <1>6, <3>3 DEF Finishing
    <3> QED BY <3>1, <3>2, <3>3
  <2>6. \A a : sent'[x] = Append(sent[x], a) => a \in ReplyType
    <3>1. PICK t \in Seq(ReplyType) : t = sent'[x]
      BY <1>5 DEF SrvInv, SrvTypes
    <3>2. ASSUME NEW a, t = Append(s, a) PROVE a \in ReplyType
      <4>1. PICK n \in Nat : n = Len(s)
        BY <2>1
      <4>2. Len(t) = n + 1 /\ t[n + 1] = a
        BY <2>1, <3>2, <4>1
      <4> QED BY <3>1, <4>1, <4>2
    <3> QED BY <2>1, <3>1, <3>2
  <2> QED BY <2>3, <2>4, <2>5, <2>6
<1>15. Path'
  <2>1. nsq' = [qu \in Queues |-> nsq'[qu]]
    BY <1>1, <1>3 DEF Path
  <2>2. ASSUME NEW q \in Queues PROVE Listed(nsq[q], q, "nsq")'
    <3>1. PICK s : s = nsq[q] /\ s = nsq'[q]
      BY <1>3
    <3>2. Listed(s, q, "nsq")
      BY <1>1, <3>1 DEF Path
    <3>3. Listed(s, q, "nsq")'
      BY <1>3, <1>9, <1>10, <3>2, ListedSame
    <3> QED BY <3>1, <3>3
  <2> QED BY <1>1, <1>3, <1>8, <1>10, <1>14, <2>1, <2>2, SrvPath
<1>16. Server'
  BY <1>1, <1>5, <1>12, <1>13, <1>14 DEF Server, head
<1>17. Data'
  <2>1. disk' \in [Disk -> [Offs -> Value]]
    BY <1>1, <1>2, <1>5, AllocatedType DEF Data
  <2> QED BY <1>1, <1>3, <2>1 DEF Data, cacheVars, CacheTypeOK
<1> QED BY <1>15, <1>16, <1>17 DEF PathTypes

\* The data path as the program finds it.
LEMMA PathStart == PathInit => PathTypes /\ Copies
<1> SUFFICES ASSUME PathInit PROVE PathTypes /\ Copies
  OBVIOUS
<1>1. SrvInit /\ SrvInv /\ FileInv
  BY SrvStart DEF PathInit, SrvInv
<1>2. Server
  <2>1. /\ cur = Idle /\ wq = {} /\ sq = {} /\ ring = {} /\ count = [c \in Cmd |-> 0]
        /\ sent = [c \in Cmd |-> <<>>]
    BY <1>1 DEF SrvInit
  <2>2. snaps[head].disk_hwm <= DiskHwmLimit + 1
    <3>1. CASE Formatted
      <4>1. snaps = <<SnapEntry(3, 1)>>
        BY <3>1 DEF Formatted
      <4>2. Len(snaps) = 1 /\ snaps[1] = SnapEntry(3, 1)
        BY <4>1
      <4> QED BY <4>2, PathAssumption, LimitAssumption DEF SnapEntry, head
    <3>2. CASE Forked
      <4>1. PICK a : a = SnapEntry(3, 2)
        OBVIOUS
      <4>2. PICK b : b = SnapEntry(FormatHwm + 1, 2)
        OBVIOUS
      <4>3. snaps = <<a, b>>
        BY <3>2, <4>1, <4>2 DEF Forked
      <4>4. Len(snaps) = 2 /\ snaps[2] = b
        BY <4>3
      <4> QED BY <4>2, <4>4, PathAssumption, LimitAssumption DEF SnapEntry, head
    <3> QED BY <1>1, <3>1, <3>2 DEF SrvInit
  <2>3. \A c \in Cmd : Len(sent[c]) = 0
    BY <2>1
  <2>4. \A c \in Cmd : 1 .. Len(sent[c]) = {}
    BY <2>3
  <2> QED BY <1>1, <2>1, <2>2, <2>4 DEF Server, Waiting
<1>3. Path
  <2>1. /\ cmd = [c \in Cmd |-> NoReq] /\ stage = [c \in Cmd |-> "new"] /\ slba = [c \in Cmd |-> 0]
        /\ nsq = [q \in Queues |-> <<>>] /\ ncq = [q \in Queues |-> <<>>]
    BY DEF PathInit
  <2>2. PICK s : s = <<>>
    OBVIOUS
  <2>3. s \in Seq(Cmd) /\ 1 .. Len(s) = {}
    BY <2>2
  <2>4. \A q, where : Listed(s, q, where)
    BY <2>3 DEF Listed
  <2>5. 0 \in Disk
    BY LimitAssumption DEF Disk
  <2> QED BY <2>1, <2>2, <2>4, <2>5 DEF Path
<1>4. disk \in [Disk -> [Offs -> Value]]
  BY Values DEF PathInit
<1>5. last \in [Vblk -> [Offs -> Value]]
  <2>1. last = Contents(head)
    BY DEF PathInit
  <2>2. ASSUME NEW v \in Vblk PROVE translate_read(head, v).off \in Disk
    BY <1>1, <1>2, HeldIsSafe, SafeDisk DEF HeldSafe
  <2> QED BY <1>4, <2>1, <2>2, Values DEF Contents
<1>6. /\ Empty.ways \in [Line -> [Way -> WayType]] /\ Empty.mru \in [Line -> SUBSET Way]
      /\ \A l \in Line, i \in Way : Empty.ways[l][i].plba \in Disk
  <2>1. 0 \in Disk /\ 0 \in Nat
    BY LimitAssumption DEF Disk
  <2>2. Empty.ways = NoWays /\ Empty.mru = [l \in Line |-> {}]
    BY DEF Empty
  <2> QED BY <2>1, <2>2 DEF NoWays, WayType
<1>7. WaysTyped /\ MruTyped
  BY <1>6 DEF PathInit, CacheInit, WaysTyped, MruTyped
<1>8. Copies
  <2>1. Empty \in [ways : [Line -> [Way -> WayType]], mru : [Line -> SUBSET Way]]
    BY <1>6 DEF Empty
  <2>2. copies = [p \in Cpus |-> Empty] /\ cpu \in Cpus
    BY CacheAssumption DEF PathInit, CacheInit
  <2> QED BY <1>6, <2>1, <2>2 DEF Copies, CopiesTypeOK
<1> QED BY <1>2, <1>3, <1>4, <1>5, <1>7, <1>8, DataTypes DEF PathTypes

\* A move of the controller keeps the types: the maps it leaves and those it
\* finds have them.
LEMMA MoveTypes ==
    ASSUME PathTypes, Copies, NEW p \in Cpus, move(p)
    PROVE  PathTypes' /\ Copies'
<1>1. UNCHANGED allVars /\ UNCHANGED <<cmd, stage, slba, nsq, ncq, disk, last, sent>>
  BY DEF move, pathVars, allVars, srvVars
<1>2. Server'
  BY <1>1, ServerSame DEF PathTypes
<1>3. Path'
  BY <1>1 DEF PathTypes, Path, Listed
<1>4. /\ ways' = copies[p].ways /\ mru' = copies[p].mru /\ cpu' = p
      /\ copies' = [copies EXCEPT ![cpu] = [ways |-> ways, mru |-> mru]]
  BY DEF move, run_on
<1>5. /\ copies[p].ways \in [Line -> [Way -> WayType]] /\ copies[p].mru \in [Line -> SUBSET Way]
      /\ \A l \in Line, i \in Way : copies[p].ways[l][i].plba \in Disk
  BY DEF Copies, CopiesTypeOK
<1>6. WaysTyped' /\ MruTyped'
  BY <1>4, <1>5 DEF WaysTyped, MruTyped
<1>7. Data'
  BY <1>1, <1>6, DataTypes, DataTypesNext DEF PathTypes
<1>8. WaysTyped /\ MruTyped
  BY DataTypes DEF PathTypes
<1>9. PICK m : m = [ways |-> ways, mru |-> mru]
  OBVIOUS
<1>10. /\ m \in [ways : [Line -> [Way -> WayType]], mru : [Line -> SUBSET Way]]
       /\ \A l \in Line, i \in Way : m.ways[l][i].plba \in Disk
  BY <1>8, <1>9 DEF WaysTyped, MruTyped
<1>11. copies' = [copies EXCEPT ![cpu] = m]
  BY <1>4, <1>9
<1>12. Copies'
  BY <1>4, <1>10, <1>11 DEF Copies, CopiesTypeOK
<1> QED BY <1>2, <1>3, <1>7, <1>12 DEF PathTypes

\* Every step keeps the types.
LEMMA PathStep == PathTypes /\ Copies /\ [PathNext]_dataVars => PathTypes' /\ Copies'
<1> SUFFICES ASSUME PathTypes, Copies, [PathNext]_dataVars PROVE PathTypes' /\ Copies'
  OBVIOUS
<1>1. CASE PathNext
  <2>1. CASE \E p \in Cpus : move(p)
    BY <2>1, MoveTypes
  <2>2. CASE UNCHANGED otherCpus /\ ~\E p \in Cpus : move(p)
    <3>1. Copies'
      BY <2>2 DEF otherCpus, Copies, CopiesTypeOK
    <3>2. PathTypes'
      BY <1>1, <2>2, VsqTypes, TakeTypes, NcqTypes, DoneTypes, HqTypes DEF PathNext
    <3> QED BY <3>1, <3>2
  <2> QED BY <1>1, <2>1, <2>2, PathStepsCpus
<1>2. CASE UNCHANGED dataVars
  <2>1. /\ UNCHANGED allVars /\ UNCHANGED cacheVars
        /\ UNCHANGED <<cmd, stage, slba, nsq, ncq, disk, last, sent>>
    BY <1>2 DEF dataVars, pathVars, allVars, srvVars
  <2>2. Server'
    BY <2>1, ServerSame DEF PathTypes
  <2>3. Path'
    BY <2>1 DEF PathTypes, Path, Listed
  <2>4. Data'
    BY <2>1 DEF PathTypes, Data, CacheTypeOK, cacheVars
  <2>5. Copies'
    BY <2>1 DEF cacheVars, otherCpus, Copies, CopiesTypeOK
  <2> QED BY <2>2, <2>3, <2>4, <2>5 DEF PathTypes
<1> QED BY <1>1, <1>2

\* The inductive types imply those a run checks.
LEMMA PathTyped == PathTypes /\ Copies => PathTypeOK
<1> SUFFICES ASSUME PathTypes, Copies PROVE PathTypeOK
  OBVIOUS
<1>1. Server /\ Path /\ Data /\ SrvInv /\ Waiting /\ TypeOK /\ SrvTypes
  BY DEF PathTypes, Server, SrvInv, FileInv
<1>2. cur.c \in Cmd \union {NoCmd} /\ (cur = Idle) = (cur.c = NoCmd)
  BY <1>1 DEF Waiting, Idle
<1>3. SrvTypeOK
  BY <1>1, <1>2 DEF SrvTypeOK, SrvTypes, Server, WorkType
<1>4. nsq \in [Queues -> Seq(Cmd)] /\ ncq \in [Queues -> Seq(Cmd)]
  BY <1>1 DEF Path, Listed
<1> QED BY <1>1, <1>3, <1>4 DEF PathTypeOK, Path, Data, Copies

\* The types of the whole path, for any number of queues, wherever the
\* controller is moved and whether disk I/O fails or not: commands that translate or answer name clusters within
\* the disk.
THEOREM PathTypeCorrect == PathSpec => []PathTypeOK
  BY PathStart, PathStep, PathTyped, PTL DEF PathSpec

-----------------------------------------------------------------------------
(* What the data path sees of the map file.                                 *)

\* The newest snapshot's clusters, in the terms of the file's invariant.
LEMMA AtCluster ==
    ASSUME NEW v \in Vblk
    PROVE  /\ \A k : translate_read(k, v).off = Cluster(k, l1_off(v), l0_off(v))
           /\ At(v) = Cluster(head, l1_off(v), l0_off(v))
           /\ WrAt(v) <=> Writable(l1_off(v), l0_off(v))
  BY DEF At, WrAt, translate_read, Cluster, Writable, needs_alloc, valid, empty, encode

\* The same after a step.
LEMMA AtClusterNext ==
    ASSUME NEW v \in Vblk
    PROVE  /\ \A k : translate_read(k, v)'.off = Cluster(k, l1_off(v), l0_off(v))'
           /\ At(v)' = Cluster(head, l1_off(v), l0_off(v))'
           /\ WrAt(v)' <=> Writable(l1_off(v), l0_off(v))'
  BY DEF At, WrAt, translate_read, Cluster, Writable, needs_alloc, valid, empty, encode

\* A cluster that the head may write is nobody else's.
LEMMA AtOwn ==
    ASSUME FileInv
    PROVE  /\ \A u, v \in Vblk : WrAt(v) /\ At(u) = At(v) => u = v
           /\ \A v, u \in Vblk, k \in 1 .. head - 1 : WrAt(v) => translate_read(k, u).off # At(v)
           /\ \A v \in Vblk : WrAt(v) => At(v) # 0
           /\ \A u \in Vblk, k \in 1 .. head : \A t \in tx : translate_read(k, u).off # t.out
<1>1. WriteExclusive /\ head \in Nat /\ head \in 1 .. head
  BY Exclusive, RefType DEF FileInv, RefsTyped
<1>2. \A u \in Vblk : l1_off(u) \in L1Idx /\ l0_off(u) \in L0Idx
  BY Indices
<1>3. ASSUME NEW u \in Vblk, NEW v \in Vblk, WrAt(v), At(u) = At(v) PROVE u = v
  <2>1. l1_off(u) = l1_off(v) /\ l0_off(u) = l0_off(v)
    BY <1>1, <1>2, <1>3, AtCluster DEF WriteExclusive
  <2> QED BY <2>1, SameAddress
<1>4. ASSUME NEW v \in Vblk, NEW u \in Vblk, NEW k \in 1 .. head - 1, WrAt(v)
      PROVE  translate_read(k, u).off # At(v)
  <2>1. k \in 1 .. head /\ k # head
    BY <1>1
  <2> QED BY <1>1, <1>2, <1>4, <2>1, AtCluster DEF WriteExclusive
<1>5. \A v \in Vblk : WrAt(v) => At(v) # 0
  BY DEF WrAt, At, needs_alloc, valid
<1>6. \A u \in Vblk, k \in 1 .. head : \A t \in tx : translate_read(k, u).off # t.out
  BY <1>1, <1>2, AtCluster DEF WriteExclusive
<1> QED BY <1>3, <1>4, <1>5, <1>6

\* The head's clusters are on the disk, and written by no allocation.
LEMMA AtType ==
    ASSUME Server, NEW v \in Vblk
    PROVE  At(v) \in Disk /\ Safe(At(v)) /\ translate_read(head, v) \in Entry
<1>1. PICK e \in Entry : e = translate_read(head, v) /\ e.off \in Nat /\ Safe(e.off)
  BY HeldIsSafe DEF HeldSafe, Server, SrvInv
<1>2. e.off \in Disk
  BY <1>1, SafeDisk
<1> QED BY <1>1, <1>2 DEF At

\* The older snapshots' clusters are on the disk too.
LEMMA OlderDisk ==
    ASSUME Server, NEW k \in 1 .. head, NEW u \in Vblk
    PROVE  translate_read(k, u).off \in Disk
<1>1. FileInv /\ RefsTyped /\ RootsOwn /\ RefBelowHwm /\ head \in Nat /\ head \in 1 .. head
  BY RefType DEF Server, SrvInv, FileInv, XcowInv, RefsTyped
<1>2. l1_off(u) \in L1Idx /\ l0_off(u) \in L0Idx
  BY Indices
<1>3. PICK p \in Nat : p = Cluster(k, l1_off(u), l0_off(u))
  BY <1>1, <1>2 DEF RefsTyped
<1>4. p < snaps[k].disk_hwm /\ snaps[k].disk_hwm <= snaps[head].disk_hwm
  BY <1>1, <1>2, <1>3 DEF RefBelowHwm
<1>5. /\ snaps[k].disk_hwm \in Nat /\ snaps[head].disk_hwm \in Nat /\ DiskHwmLimit \in Nat
      /\ snaps[head].disk_hwm <= DiskHwmLimit + 1
  BY <1>1, LimitAssumption DEF RefsTyped, Server
<1>6. p \in Disk
  BY <1>3, <1>4, <1>5 DEF Disk
<1> QED BY <1>3, <1>6, AtCluster

\* The step changes no translation.
SameView ==
    /\ head' = head
    /\ \A u \in Vblk : /\ At(u)' = At(u) /\ (WrAt(u)' <=> WrAt(u))
                       /\ Shared(u)' => Shared(u)
    /\ \A k \in 1 .. head - 1, u \in Vblk : translate_read(k, u)'.off = translate_read(k, u).off
    /\ \A p \in Disk : Safe(p) => Safe(p)'

\* Clusters are numbers.
LEMMA DiskNat == Disk \subseteq Nat /\ 0 \in Disk
  BY LimitAssumption DEF Disk

\* Neither does a step that leaves the tables alone.
LEMMA ViewStutter ==
    ASSUME SrvInv, FileMove, UNCHANGED <<root, l0, snaps>>
    PROVE  SameView
<1>1. \A p \in Disk : Safe(p) => Safe(p)'
  BY MoveKeeps, DiskNat
<1> QED BY <1>1 DEF SameView, At, WrAt, translate_read, Ref, Leaf, head, Shared

\* A leaf table of its own gives the newest snapshot the same clusters.
LEMMA ViewPrep ==
    ASSUME SrvInv, FileMove, NEW v \in Vblk, OwnL0(v), KeepsList
    PROVE  /\ SameView
           /\ Ref(head, l1_off(v))' = encode(NewTable(v), TRUE) /\ NewTable(v) # 0
           /\ translate_read(head, v)' = NewEntry(v)
<1>1. TypeOK /\ XcowInv /\ FileInv'
  BY MoveKeeps DEF SrvInv, FileInv
<1>2. /\ RefStep(l1_off(v)) /\ LeafStep(l1_off(v), 0, 0, -1) /\ NewTable(v) # 0
      /\ Ref(head, l1_off(v))' = encode(NewTable(v), TRUE)
  BY <1>1, OwnStep
<1>3. /\ RefsTyped /\ RefsTyped' /\ RootsOwn /\ RootsOwn' /\ head' = head /\ head \in Nat /\ head \in 1 .. head
  BY <1>1, RefType, RefTypeNext DEF FileInv, XcowInv, RefsTyped, KeepsList, head
<1>4. \A u \in Vblk : l1_off(u) \in L1Idx /\ l0_off(u) \in L0Idx
  BY Indices
<1>5. ASSUME NEW k \in 1 .. head, NEW i \in L1Idx, NEW j \in L0Idx
      PROVE  /\ Cluster(k, i, j)' = Cluster(k, i, j)
             /\ Wr(k, i, j)' => Wr(k, i, j) /\ Ref(k, i)' = Ref(k, i)
  <2>1. Cluster(k, i, j)' \in Nat
    BY <1>3 DEF RefsTyped
  <2> QED BY <1>2, <2>1 DEF LeafStep
<1>6. \A k \in 1 .. head, u \in Vblk : translate_read(k, u)'.off = translate_read(k, u).off
  BY <1>4, <1>5, AtCluster, AtClusterNext
<1>7. ASSUME NEW u \in Vblk, WrAt(u)' PROVE WrAt(u)
  <2>1. PICK i \in L1Idx : i = l1_off(u)
    BY <1>4
  <2>2. PICK j \in L0Idx : j = l0_off(u)
    BY <1>4
  <2>3. Writable(i, j)'
    BY <1>7, <2>1, <2>2, AtClusterNext
  <2>4. Wr(head, i, j)' /\ Cluster(head, i, j)' # 0 /\ Ref(head, i)'.w
    BY <2>3 DEF Writable, Wr, Cluster, valid
  <2>5. Wr(head, i, j) /\ Ref(head, i)' = Ref(head, i) /\ Cluster(head, i, j) # 0
    BY <1>3, <1>5, <2>4
  <2>6. Writable(i, j)
    BY <1>3, <2>4, <2>5 DEF Writable, Wr, Cluster, valid
  <2> QED BY <2>1, <2>2, <2>6, AtCluster
<1>8. ASSUME NEW u \in Vblk, WrAt(u) PROVE WrAt(u)'
  <2>1. PICK i \in L1Idx : i = l1_off(u)
    BY <1>4
  <2>2. PICK j \in L0Idx : j = l0_off(u)
    BY <1>4
  <2>3. valid(Ref(head, i)) /\ Ref(head, i).w /\ valid(Leaf(head, i, j)) /\ Leaf(head, i, j).w
    BY <1>8, <2>1, <2>2, AtCluster DEF Writable
  <2>4. PICK m \in Meta : m = Ref(head, i).off /\ m \in Nat /\ m < hwm /\ hwm \in Nat
    BY <1>3 DEF RefsTyped
  <2>5. Ref(head, i)' = Ref(head, i)
    BY <1>2, <1>3, <2>3 DEF RefStep
  <2>6. l0'[m] = l0[m]
    BY <1>1, <2>4 DEF OwnL0, TypeOK
  <2>7. Leaf(head, i, j)' = Leaf(head, i, j)
    BY <2>4, <2>5, <2>6 DEF Leaf
  <2>8. Writable(i, j)'
    BY <2>3, <2>5, <2>7 DEF Writable, valid
  <2> QED BY <2>1, <2>2, <2>8, AtClusterNext
<1>9. ASSUME NEW u \in Vblk, Shared(u)' PROVE Shared(u)
  <2>1. PICK i \in L1Idx : i = l1_off(u)
    BY <1>4
  <2>2. valid(Ref(head, i)') /\ ~Ref(head, i)'.w
    BY <1>9, <2>1 DEF Shared, valid
  <2>3. Ref(head, i)' = Ref(head, i)
    BY <1>2, <1>3, <2>2 DEF RefStep, encode
  <2> QED BY <2>1, <2>2, <2>3 DEF Shared
<1>10. \A p \in Disk : Safe(p) => Safe(p)'
  BY MoveKeeps, DiskNat
<1>11. \A u \in Vblk : At(u)' = At(u)
  BY <1>3, <1>6 DEF At
<1>12. SameView
  <2>1. \A k \in 1 .. head - 1 : k \in 1 .. head
    BY <1>3
  <2> QED BY <1>3, <1>6, <1>7, <1>8, <1>9, <1>10, <1>11, <2>1 DEF SameView
<1>13. translate_read(head, v)' = NewEntry(v)
  BY <1>2, <1>3, OwnTable DEF NewEntry
<1> QED BY <1>2, <1>12, <1>13

\* What the end of allocation t does to the translations: the newest
\* snapshot has its cluster where the allocation put it, and may write there.
CommitView(t) ==
    /\ head' = head
    /\ At(t.v)' = t.out /\ WrAt(t.v)' /\ ~WrAt(t.v)
    /\ l0[t.m][l0_off(t.v)] = translate_read(head, t.v)
    /\ \A m : Ref(head, l1_off(t.v)) = encode(m, TRUE) => l0'[m][l0_off(t.v)] = encode(t.out, TRUE)
    /\ \A u \in Vblk : u # t.v => At(u)' = At(u) /\ (WrAt(u)' <=> WrAt(u))
    /\ \A u \in Vblk : Shared(u)' => Shared(u)
    /\ \A k \in 1 .. head - 1, u \in Vblk : translate_read(k, u)'.off = translate_read(k, u).off
    /\ \A p \in Disk : Safe(p) => Safe(p)'
    /\ t.out \in Nat /\ t.out # 0 /\ Safe(t.out)'
    /\ t.v \in Vblk
    /\ TxCurrent'
    /\ \A i \in L1Idx : Ref(head, i)' = Ref(head, i)

\* tx_write_commit of a current transaction does that.
LEMMA ViewCommit ==
    ASSUME SrvInv, TxCurrent, NEW t \in tx, tx_write_commit(t)
    PROVE  CommitView(t)
<1>1. /\ t.v \in Vblk /\ t.m \in Meta /\ t.m \in Nat /\ t.m # 0 /\ t.out \in Nat /\ t.out # 0
      /\ t.sn = head /\ Ref(head, l1_off(t.v)) = encode(t.m, TRUE) /\ head \in 1 .. head
  BY TxTable DEF TxCurrent
<1>2. PICK i \in L1Idx : i = l1_off(t.v)
  BY <1>1, Indices
<1>3. PICK j \in L0Idx : j = l0_off(t.v)
  BY <1>1, Indices
<1>4. PICK e : e = encode(t.out, TRUE)
  OBVIOUS
<1>5. needs_alloc(l0[t.m][j]) /\ l0 \in [Meta -> [L0Idx -> Entry]]
  BY <1>3 DEF TxCurrent, SrvInv, FileInv, TypeOK
<1>6. /\ l0' = [l0 EXCEPT ![t.m] = [l0[t.m] EXCEPT ![j] = e]]
      /\ tx' = tx \ {t} /\ UNCHANGED <<hwm, root, snaps, handle>>
  BY <1>3, <1>4, <1>5 DEF tx_write_commit
<1>7. /\ l0'[t.m][j] = e
      /\ \A m \in Meta, x \in L0Idx : m # t.m \/ x # j => l0'[m][x] = l0[m][x]
  BY <1>1, <1>5, <1>6
<1>8. FileMove
  BY CommitMove
<1>9. /\ RefsTyped /\ RootsOwn /\ L0Order /\ head' = head /\ head \in Nat
  BY <1>6, RefType DEF SrvInv, FileInv, XcowInv, RefsTyped, head
<1>10. \A k, x : Ref(k, x)' = Ref(k, x)
  BY <1>6 DEF Ref
<1>11. \A k \in 1 .. head, x \in L1Idx : Ref(k, x).off \in Meta
  BY <1>9 DEF RefsTyped
\* The table is the newest snapshot's, and serves one root index.
<1>12. ASSUME NEW k \in 1 .. head, NEW u \in Vblk, k # head \/ u # t.v
       PROVE  translate_read(k, u)' = translate_read(k, u)
  <2>1. PICK x \in L1Idx : x = l1_off(u)
    BY Indices
  <2>2. PICK y \in L0Idx : y = l0_off(u)
    BY Indices
  <2>3. PICK m \in Meta : m = Ref(k, x).off
    BY <1>11
  <2>4. valid(Ref(k, x)) => m # t.m \/ y # j
    <3> SUFFICES ASSUME valid(Ref(k, x)), m = t.m, y = j PROVE FALSE
      OBVIOUS
    <3>1. valid(Ref(head, i)) /\ Ref(head, i).w /\ Ref(head, i).off = t.m
      BY <1>1, <1>2 DEF valid, encode
    <3>2. x = i
      BY <1>1, <1>9, <2>3, <3>1 DEF L0Order
    <3>3. u = t.v
      BY <1>1, <1>2, <1>3, <2>1, <2>2, <3>2, SameAddress
    <3>4. k < head
      BY <1>9, <1>12, <3>3
    <3>5. Ref(k, x).off < Ref(head, i).off
      BY <1>1, <1>9, <3>1, <3>4 DEF L0Order
    <3>6. t.m < t.m
      BY <2>3, <3>1, <3>5, Zenon
    <3>7. PICK n \in Nat : n = t.m
      BY <1>1
    <3> QED BY <3>6, <3>7
  <2>5. valid(Ref(k, x)) => Leaf(k, x, y)' = Leaf(k, x, y)
    BY <1>7, <1>10, <2>3, <2>4 DEF Leaf
  <2> QED BY <1>10, <2>1, <2>2, <2>5 DEF translate_read, valid
<1>13. translate_read(head, t.v) = l0[t.m][j]
  BY <1>1, <1>2, <1>3 DEF translate_read, Leaf, valid, encode
<1>14. translate_read(head, t.v)' = e
  BY <1>1, <1>2, <1>3, <1>7, <1>9, <1>10 DEF translate_read, Leaf, valid, encode
<1>15. At(t.v)' = t.out /\ WrAt(t.v)' /\ ~WrAt(t.v)
  <2>1. At(t.v)' = t.out
    BY <1>4, <1>6, <1>14 DEF At, encode
  <2>2. WrAt(t.v)'
    <3>1. Ref(head, l1_off(t.v))'.w
      BY <1>1, <1>9, <1>10 DEF encode
    <3>2. ~needs_alloc(translate_read(head, t.v)')
      BY <1>1, <1>4, <1>14 DEF encode, needs_alloc, valid
    <3> QED BY <3>1, <3>2 DEF WrAt, needs_alloc, valid
  <2>3. ~WrAt(t.v)
    BY <1>5, <1>13 DEF WrAt
  <2> QED BY <2>1, <2>2, <2>3
<1>16. \A u \in Vblk : u # t.v => At(u)' = At(u) /\ (WrAt(u)' <=> WrAt(u))
  BY <1>1, <1>9, <1>10, <1>12 DEF At, WrAt, needs_alloc, valid
<1>17. \A u \in Vblk : Shared(u)' => Shared(u)
  BY <1>9, <1>10 DEF Shared, valid
<1>18. \A k \in 1 .. head - 1, u \in Vblk : translate_read(k, u)'.off = translate_read(k, u).off
  <2>1. \A k \in 1 .. head - 1 : k \in 1 .. head /\ k # head
    BY <1>9
  <2> QED BY <1>12, <2>1
<1>19. \A p \in Disk : Safe(p) => Safe(p)'
  BY <1>8, MoveKeeps, DiskNat
<1>20. Safe(t.out)'
  BY <1>6, <1>8, FilledSafe
<1>21. \A m : Ref(head, l1_off(t.v)) = encode(m, TRUE) => l0'[m][l0_off(t.v)] = encode(t.out, TRUE)
  BY <1>1, <1>3, <1>4, <1>7 DEF encode
<1>22. TxCurrent'
  <2> SUFFICES ASSUME NEW u \in tx, u # t PROVE u.sn = head /\ needs_alloc(l0'[u.m][l0_off(u.v)])
    BY <1>6, <1>9 DEF TxCurrent
  <2>1. /\ u.v \in Vblk /\ u.m \in Meta /\ u.m # 0 /\ u.sn = head /\ u.v # t.v
        /\ Ref(head, l1_off(u.v)) = encode(u.m, TRUE)
    BY TxTable DEF TxCurrent, SrvInv, Ledger
  <2>2. translate_read(head, u.v) = l0[u.m][l0_off(u.v)]
    BY <2>1 DEF translate_read, Leaf, valid, encode
  <2>3. translate_read(head, u.v)' = l0'[u.m][l0_off(u.v)]
    BY <1>9, <1>10, <2>1, OwnTable
  <2>4. translate_read(head, u.v)' = translate_read(head, u.v)
    BY <1>1, <1>9, <1>12, <2>1
  <2> QED BY <2>1, <2>2, <2>3, <2>4 DEF TxCurrent
<1> QED BY <1>1, <1>3, <1>9, <1>10, <1>13, <1>15, <1>16, <1>17, <1>18, <1>19, <1>20, <1>21, <1>22
        DEF CommitView

\* What a snapshot does: the same clusters, none of which may be written.
SnapView ==
    /\ head' = head + 1
    /\ \A u \in Vblk : At(u)' = At(u) /\ ~WrAt(u)'
    /\ \A k \in 1 .. head, u \in Vblk : translate_read(k, u)'.off = translate_read(k, u).off
    /\ \A p \in Disk : Safe(p) => Safe(p)'

\* snap_create does that where the handle spans the root table.
LEMMA ViewSnap ==
    ASSUME SrvInv, snap_create, l0count <= PerCluster
    PROVE  SnapView
<1>1. FileMove /\ FileInv /\ SnapCreate(head, handle) /\ handle' = "wide"
  BY SnapMove DEF SrvInv, snap_create
<1>2. /\ RefsTyped /\ RootsOwn /\ head \in Nat /\ head \in 1 .. head /\ hwm \in Nat
      /\ root \in [Meta -> [L1Idx -> Entry]] /\ snaps \in Seq(SnapType) /\ l0count \in Nat /\ PerCluster \in Nat
  <2>1. TypeOK /\ RefsTyped /\ RootsOwn
    BY <1>1, RefType DEF FileInv, XcowInv
  <2>2. head \in Nat /\ head \in 1 .. head /\ hwm \in Nat
    BY <2>1 DEF RefsTyped
  <2> QED BY <2>1, <2>2, Sizes, SizeAssumption DEF TypeOK, SnapType
<1>3. /\ head' = head + 1
      /\ \A i \in L1Idx, j \in L0Idx : Spanned(handle, i) => Cluster(head, i, j)' = Cluster(head, i, j)
  BY <1>1, <1>2, SnapStep
<1>4. \A i \in L1Idx : Spanned(handle, i)
  BY <1>2 DEF Spanned, L1Idx
<1>5. \A u \in Vblk : l1_off(u) \in L1Idx /\ l0_off(u) \in L0Idx
  BY Indices
<1>6. \A u \in Vblk : At(u)' = At(u)
  BY <1>3, <1>4, <1>5, AtCluster, AtClusterNext
<1>7. PICK e : e = SnapEntry(hwm, snaps[head].disk_hwm)
  OBVIOUS
<1>8. /\ root' = [root EXCEPT ![hwm] = SnapRoot(head, handle)] /\ l0' = l0
      /\ snaps' = Append(snaps, e) /\ e.root = hwm
      /\ hwm \in Meta
  BY <1>1, <1>2, <1>7, Sizes, LimitAssumption DEF SnapCreate, SnapEntry, MetaSpace, Meta
<1>9. snaps'[Len(snaps')] = e /\ \A k \in 1 .. head : snaps'[k] = snaps[k]
  BY <1>2, <1>8 DEF head
<1>10. ASSUME NEW u \in Vblk PROVE ~WrAt(u)'
  <2>1. Ref(head, l1_off(u))' = SnapRoot(head, handle)[l1_off(u)]
    BY <1>2, <1>8, <1>9 DEF Ref, head
  <2>2. ~SnapRoot(head, handle)[l1_off(u)].w
    BY <1>4, <1>5 DEF SnapRoot, ReadOnly, encode
  <2> QED BY <2>1, <2>2 DEF WrAt
<1>11. ASSUME NEW k \in 1 .. head, NEW u \in Vblk
       PROVE  translate_read(k, u)'.off = translate_read(k, u).off
  <2>1. snaps[k].root # hwm /\ snaps[k].root \in Meta
    BY <1>2 DEF RefsTyped, RootsOwn
  <2>2. \A i : Ref(k, i)' = Ref(k, i)
    BY <1>2, <1>8, <1>9, <2>1 DEF Ref
  <2> QED BY <1>8, <2>2 DEF translate_read, Leaf, valid
<1>12. \A p \in Disk : Safe(p) => Safe(p)'
  BY <1>1, MoveKeeps, DiskNat
<1> QED BY <1>3, <1>6, <1>10, <1>11, <1>12 DEF SnapView

\* What the newest snapshot holds may be handed out.
LEMMA AtGood ==
    ASSUME Server, Newest, NEW v \in Vblk
    PROVE  Good(v, At(v)) /\ Truth(v, At(v), WrAt(v))
<1>1. At(v) \in Disk /\ Safe(At(v))
  BY AtType
<1>2. \A u \in Vblk : WrAt(u) /\ At(u) = At(v) => u = v
  BY AtOwn DEF Server, SrvInv
<1> QED BY <1>1, <1>2 DEF Good, Truth, Parked, Newest

\* What is true stays true of the translations handed out before.
TruthKept ==
    /\ \A v \in Vblk : \A p \in Disk : Parked(p, v) => Parked(p, v)'
    /\ \A v \in Vblk : \A p, w : Truth(v, p, w) => Truth(v, p, w)'

\* A step that changes no translation and no contents keeps the truth.
LEMMA TruthSame ==
    ASSUME SameView, UNCHANGED <<disk, last>>
    PROVE  /\ TruthKept
           /\ Newest => Newest'
           /\ Older /\ UNCHANGED frozen => Older'
<1>1. ASSUME NEW v \in Vblk, NEW p \in Disk, Parked(p, v) PROVE Parked(p, v)'
  BY <1>1 DEF SameView, Parked
<1>2. ASSUME NEW v \in Vblk, NEW p, NEW w, Truth(v, p, w) PROVE Truth(v, p, w)'
  <2>1. p \in Disk /\ Parked(p, v)'
    BY <1>1, <1>2 DEF Truth, Good
  <2> QED BY <1>2, <2>1 DEF Truth, Good, SameView
<1>3. Newest => Newest'
  BY DEF SameView, Newest
<1>4. Older /\ UNCHANGED frozen => Older'
  BY DEF SameView, Older
<1> QED BY <1>1, <1>2, <1>3, <1>4 DEF TruthKept


\* A sequence given by its elements, and one more.
LEMMA OneLonger ==
    ASSUME NEW n \in Nat, NEW s, s = [k \in 1 .. n |-> s[k]], NEW f
    PROVE  /\ Len(s) = n
           /\ Append(s, f) = [k \in 1 .. n + 1 |-> IF k = n + 1 THEN f ELSE s[k]]
<1>1. PICK S : S = {s[k] : k \in 1 .. n} \union {f}
  OBVIOUS
<1>2. s \in [1 .. n -> S] /\ f \in S
  BY <1>1
<1>3. s \in Seq(S) /\ Len(s) = n
  BY <1>2
<1>4. PICK t : t = Append(s, f)
  OBVIOUS
<1>5. /\ t \in Seq(S) /\ Len(t) = n + 1 /\ t[n + 1] = f
      /\ \A k \in 1 .. n : t[k] = s[k]
  BY <1>2, <1>3, <1>4
<1>6. t = [k \in 1 .. n + 1 |-> t[k]]
  BY <1>5
<1>7. \A k \in 1 .. n + 1 : t[k] = IF k = n + 1 THEN f ELSE s[k]
  BY <1>5
<1> QED BY <1>3, <1>4, <1>6, <1>7

\* A snapshot keeps it of translations that may not be written.
LEMMA TruthSnap ==
    ASSUME Server, SnapView, UNCHANGED <<disk, last>>, Newest, Older, NEW f,
           frozen' = Append(frozen, f), \A v \in Vblk, o \in Offs : last[v][o] \in f[v][o]
    PROVE  /\ \A v \in Vblk : \A p : Truth(v, p, FALSE) => Truth(v, p, FALSE)'
           /\ Newest' /\ Older'
<1>1. ASSUME NEW v \in Vblk, NEW p, Truth(v, p, FALSE) PROVE Truth(v, p, FALSE)'
  <2>1. p \in Disk /\ Safe(p) /\ \A o \in Offs : disk[p][o] = last[v][o]
    BY <1>1 DEF Truth, Good, Parked
  <2>2. Parked(p, v)'
    BY <2>1 DEF SnapView, Parked
  <2> QED BY <2>1, <2>2 DEF Truth, Good
<1>2. Newest'
  BY DEF SnapView, Newest
<1>3. PICK n \in Nat : n + 1 = head /\ n = head - 1
  <2>1. head \in Nat /\ head >= 1
    BY RefType DEF Server, SrvInv, FileInv, RefsTyped
  <2> QED BY <2>1
<1>4. /\ head' - 1 = n + 1 /\ frozen = [k \in 1 .. n |-> frozen[k]]
      /\ \A k \in 1 .. n, v \in Vblk, o \in Offs : disk[translate_read(k, v).off][o] \in frozen[k][v][o]
  BY <1>3 DEF SnapView, Older
<1>5. frozen' = [k \in 1 .. n + 1 |-> IF k = n + 1 THEN f ELSE frozen[k]]
  BY <1>4, OneLonger
<1>6. frozen' = [k \in 1 .. n + 1 |-> frozen'[k]]
  BY <1>5
<1>7. ASSUME NEW k \in 1 .. n + 1, NEW v \in Vblk, NEW o \in Offs
      PROVE  disk'[translate_read(k, v)'.off][o] \in frozen'[k][v][o]
  <2>1. translate_read(k, v)'.off = translate_read(k, v).off
    BY <1>3 DEF SnapView
  <2>2. CASE k = n + 1
    <3>1. translate_read(k, v).off = At(v) /\ frozen'[k] = f
      BY <1>3, <1>5, <2>2 DEF At
    <3> QED BY <2>1, <3>1 DEF Newest
  <2>3. CASE k # n + 1
    <3>1. k \in 1 .. n /\ frozen'[k] = frozen[k]
      BY <1>5, <2>3
    <3> QED BY <1>4, <2>1, <3>1
  <2> QED BY <2>2, <2>3
<1>8. Older'
  BY <1>4, <1>6, <1>7 DEF Older
<1> QED BY <1>1, <1>2, <1>8

\* An allocation fills a cluster that nothing refers to with what the
\* cluster it replaces holds.
LEMMA TruthCommit ==
    ASSUME Server, Data, Newest, Older, NEW t \in tx, CommitView(t),
           disk' = [disk EXCEPT ![t.out] = Allocated(t)], UNCHANGED <<last, frozen>>, Server'
    PROVE  /\ TruthKept /\ Newest' /\ Older'
           /\ Truth(t.v, t.out, TRUE)'
           /\ \A v \in Vblk : \A p \in Disk : Parked(p, v) => p # t.out
<1>1. /\ t.v \in Vblk /\ t.out \in Nat /\ t.out # 0 /\ Safe(t.out)' /\ head' = head
      /\ At(t.v)' = t.out /\ WrAt(t.v)' /\ ~WrAt(t.v)
      /\ l0[t.m][l0_off(t.v)] = translate_read(head, t.v)
      /\ \A u \in Vblk : u # t.v => At(u)' = At(u) /\ (WrAt(u)' <=> WrAt(u))
      /\ \A k \in 1 .. head - 1, u \in Vblk : translate_read(k, u)'.off = translate_read(k, u).off
      /\ \A p \in Disk : Safe(p) => Safe(p)'
  BY DEF CommitView
<1>2. t.out \in Disk
  <2>1. PICK p \in Nat : p = t.out
    BY <1>1
  <2>2. snaps'[head'].disk_hwm \in Nat /\ snaps'[head'].disk_hwm <= DiskHwmLimit + 1 /\ DiskHwmLimit \in Nat
    BY RefTypeNext, LimitAssumption DEF RefsTyped, Server, SrvInv, FileInv
  <2>3. p < snaps'[head'].disk_hwm
    BY <1>1, <2>1 DEF Safe
  <2> QED BY <2>1, <2>2, <2>3 DEF Disk
<1>3. disk' \in [Disk -> [Offs -> Value]] /\ disk'[t.out] = Allocated(t) /\ \A p \in Disk : p # t.out => disk'[p] = disk[p]
  BY <1>2, AllocatedType DEF Data
<1>4. \A p \in Disk : Safe(p) => p # t.out
  BY DEF Safe
<1>5. \A o \in Offs : disk'[t.out][o] = last[t.v][o]
  <2>1. PICK e : e = translate_read(head, t.v)
    OBVIOUS
  <2>2. At(t.v) = e.off /\ Allocated(t) = IF valid(e) THEN disk[e.off] ELSE [o \in Offs |-> 0]
    BY <1>1, <2>1 DEF At, Allocated
  <2>3. \A o \in Offs : disk[e.off][o] = last[t.v][o] /\ (e.off = 0 => last[t.v][o] = 0)
    BY <1>1, <2>2 DEF Newest
  <2> QED BY <1>3, <2>2, <2>3 DEF valid
<1>6. \A u \in Vblk : At(u) \in Disk /\ Safe(At(u)) /\ At(u) # t.out
  BY <1>4, AtType
<1>7. ASSUME NEW v \in Vblk, NEW p \in Disk, Parked(p, v) PROVE Parked(p, v)'
  <2>1. Safe(p) /\ p # t.out /\ Safe(p)'
    BY <1>1, <1>4, <1>7 DEF Parked
  <2> QED BY <1>1, <1>7, <2>1 DEF Parked
<1>8. ASSUME NEW v \in Vblk, NEW p, NEW w, Truth(v, p, w) PROVE Truth(v, p, w)'
  <2>1. p \in Disk /\ Parked(p, v)' /\ p # t.out /\ \A o \in Offs : disk'[p][o] = last'[v][o]
    BY <1>3, <1>4, <1>7, <1>8 DEF Truth, Good, Parked
  <2>2. w => p = At(v)' /\ WrAt(v)'
    BY <1>1, <1>8 DEF Truth
  <2> QED BY <2>1, <2>2 DEF Truth, Good
<1>9. Newest'
  <2>1. \A o \in Offs : disk'[0][o] = 0
    BY <1>1, <1>3, DiskNat DEF Newest
  <2>2. \A v \in Vblk, o \in Offs : disk'[At(v)'][o] = last[v][o]
    BY <1>1, <1>3, <1>5, <1>6 DEF Newest
  <2> QED BY <2>1, <2>2 DEF Newest
<1>10. Older'
  <2>1. ASSUME NEW k \in 1 .. head - 1, NEW v \in Vblk, NEW o \in Offs
        PROVE  disk'[translate_read(k, v).off][o] \in frozen[k][v][o]
    <3>1. k \in 1 .. head
      BY RefType DEF Server, SrvInv, FileInv, RefsTyped
    <3>2. translate_read(k, v).off \in Disk /\ translate_read(k, v).off # t.out
      BY <3>1, OlderDisk, AtOwn DEF Server, SrvInv
    <3> QED BY <1>3, <3>2 DEF Older
  <2> QED BY <1>1, <2>1 DEF Older
<1>11. Truth(t.v, t.out, TRUE)'
  <2>1. PICK p \in Disk : p = t.out
    BY <1>2
  <2>2. Parked(p, t.v)'
    BY <1>1, <1>6, <2>1 DEF Parked
  <2>3. Truth(t.v, p, TRUE)'
    BY <1>1, <1>5, <2>1, <2>2 DEF Truth, Good
  <2> QED BY <2>1, <2>3
<1>12. \A v \in Vblk : \A p \in Disk : Parked(p, v) => p # t.out
  BY <1>4 DEF Parked
<1> QED BY <1>7, <1>8, <1>9, <1>10, <1>11, <1>12 DEF TruthKept

\* A step that leaves what was handed out as good as it was.
ViewKept ==
    /\ \A v \in Vblk : WrAt(v) => At(v)' = At(v) /\ WrAt(v)'
    /\ \A v \in Vblk : \A p \in Disk : Parked(p, v) => Parked(p, v)' /\ \A o \in Offs : disk'[p][o] = disk[p][o]
    /\ \A v \in Vblk : \A p, w : Truth(v, p, w) => Truth(v, p, w)'
    /\ last' = last

\* Such a step leaves it all.
LEMMA KeptSame == ASSUME SameView, UNCHANGED <<disk, last>> PROVE ViewKept
<1>1. TruthKept
  BY TruthSame
<1> QED BY <1>1 DEF ViewKept, TruthKept, SameView

\* So does the end of an allocation, which writes where nobody looks.
LEMMA KeptCommit ==
    ASSUME Server, Data, Newest, Older, NEW t \in tx, CommitView(t),
           disk' = [disk EXCEPT ![t.out] = Allocated(t)], UNCHANGED <<last, frozen>>, Server'
    PROVE  ViewKept
<1>1. TruthKept /\ \A v \in Vblk : \A p \in Disk : Parked(p, v) => p # t.out
  BY TruthCommit
<1>2. \A p \in Disk : p # t.out => disk'[p] = disk[p]
  BY DEF Data
<1>3. \A v \in Vblk : WrAt(v) => At(v)' = At(v) /\ WrAt(v)'
  BY DEF CommitView
<1> QED BY <1>1, <1>2, <1>3 DEF ViewKept, TruthKept

\* A command of the host queue that stays there.
HostOK(c) ==
    /\ Modifies(c) => slba[c] = At(cmd[c].v) /\ WrAt(cmd[c].v)
    /\ cmd[c].op = "read" => /\ Parked(slba[c], cmd[c].v)
                             /\ disk[slba[c]][cmd[c].off] = last[cmd[c].v][cmd[c].off]

\* It is still translated to the right cluster.
LEMMA HostKept ==
    ASSUME Path, Hosted, ViewKept, NEW c \in Cmd, stage[c] = "hq", cmd'[c] = cmd[c], slba'[c] = slba[c]
    PROVE  HostOK(c)'
<1>1. PICK r \in CmdType : r = cmd[c]
  BY DEF Path
<1>2. PICK p \in Disk : p = slba[c]
  BY DEF Path
<1>3. PICK v \in Vblk : v = r.v
  BY Asks
<1>4. PICK o \in Offs : o = r.off
  BY Asks
<1>5. /\ r.op \in {"write", "zeroes"} => p = At(v) /\ WrAt(v)
      /\ r.op = "read" => Parked(p, v) /\ disk[p][o] = last[v][o]
  BY <1>1, <1>2, <1>3, <1>4 DEF Hosted, Modifies
<1>6. /\ r.op \in {"write", "zeroes"} => p = At(v)' /\ WrAt(v)'
      /\ r.op = "read" => Parked(p, v)' /\ disk'[p][o] = last'[v][o]
  BY <1>5 DEF ViewKept
<1>7. r = cmd'[c] /\ p = slba'[c]
  BY <1>1, <1>2
<1> QED BY <1>3, <1>4, <1>6, <1>7 DEF HostOK, Modifies

\* Hosted, command by command.
LEMMA HostedIff == Hosted' <=> \A c \in Cmd : stage'[c] = "hq" => HostOK(c)'
  BY DEF Hosted, HostOK, Modifies

\* The host queue, when nothing joins it.
LEMMA HostedStays ==
    ASSUME Path, Hosted, ViewKept,
           \A c \in Cmd : stage'[c] = "hq" => stage[c] = "hq" /\ cmd'[c] = cmd[c] /\ slba'[c] = slba[c]
    PROVE  Hosted'
  BY HostKept, HostedIff

\* The step caches nothing new about cluster v.
NoNews(v) ==
    \A i \in Way : i \in Holding(v)' =>
       /\ i \in Holding(v)
       /\ ways'[idx(v)][i].plba = ways[idx(v)][i].plba
       /\ ways'[idx(v)][i].wr => ways[idx(v)][i].wr

\* lba_flush_range leaves nothing of v and adds nothing.
LEMMA FlushNews ==
    ASSUME WaysTyped, NEW v \in Vblk, lba_flush_range(v)
    PROVE  Holding(v)' = {} /\ \A u \in Vblk : NoNews(u)
<1>1. PICK k \in Line : k = idx(v)
  BY SlotWay
<1>2. ways' = [ways EXCEPT ![k] = Dropped(v)] /\ ways \in [Line -> [Way -> WayType]]
  BY <1>1 DEF lba_flush_range, WaysTyped
<1>3. \A u \in Vblk : idx(u) \in Line
  BY SlotWay
<1>4. \A i \in Way : ways'[k][i] = Dropped(v)[i]
  BY <1>2
<1>5. ASSUME NEW i \in Way PROVE IF i \in Holding(v) THEN ~ways'[k][i].vld ELSE ways'[k][i] = ways[k][i]
  <2>1. /\ i \in Holding(v) => ~Dropped(v)[i].vld
        /\ i \notin Holding(v) => Dropped(v)[i] = ways[k][i]
    BY <1>1 DEF Dropped
  <2> QED BY <1>4, <2>1
<1>6. Holding(v)' = {}
  BY <1>1, <1>5 DEF Holding
<1>7. ASSUME NEW u \in Vblk PROVE NoNews(u)
  <2>1. CASE idx(u) = k
    BY <1>5, <2>1 DEF NoNews, Holding
  <2>2. CASE idx(u) # k
    <3>1. ways'[idx(u)] = ways[idx(u)]
      BY <1>2, <1>3, <2>2
    <3> QED BY <3>1 DEF NoNews, Holding
  <2> QED BY <2>1, <2>2
<1> QED BY <1>6, <1>7

\* lba_clear_writable adds nothing and leaves nothing writable.
LEMMA ClearNews ==
    ASSUME lba_clear_writable, NEW u \in Vblk
    PROVE  NoNews(u) /\ \A l \in Line, i \in Way : ~ways'[l][i].wr
<1>1. idx(u) \in Line
  BY SlotWay
<1>2. \A i \in Way : /\ ways'[idx(u)][i].vld = ways[idx(u)][i].vld /\ ways'[idx(u)][i].tag = ways[idx(u)][i].tag
                     /\ ways'[idx(u)][i].plba = ways[idx(u)][i].plba /\ ~ways'[idx(u)][i].wr
  BY <1>1 DEF lba_clear_writable
<1> QED BY <1>2 DEF NoNews, Holding, lba_clear_writable

\* A cache left alone has no news.
LEMMA SameNews == ASSUME UNCHANGED ways, NEW u \in Vblk PROVE NoNews(u) /\ Holding(u)' = Holding(u)
  BY DEF NoNews, Holding

\* Line and tag name a cluster.
LEMMA TagOf == ASSUME NEW u \in Vblk, NEW v \in Vblk, idx(u) = idx(v), tag(u) = tag(v) PROVE u = v
<1>1. u \in Nat /\ v \in Nat /\ Lines \in Nat /\ Lines >= 1
  BY SizeAssumption, CacheAssumption DEF Vblk
<1>2. u = Lines * (u \div Lines) + (u % Lines) /\ v = Lines * (v \div Lines) + (v % Lines)
  BY <1>1, DivMod
<1>3. u \div Lines = v \div Lines /\ u % Lines = v % Lines
  BY DEF idx, tag
<1> QED BY <1>2, <1>3, Zenon

\* lba_update replaces what is cached of v and adds nothing else.
LEMMA UpdateNews ==
    ASSUME WaysTyped, CacheUnique, NEW v \in Vblk, NEW p, NEW w, lba_update(v, p, w)
    PROVE  /\ \A i \in Way : i \in Holding(v)' => ways'[idx(v)][i].plba = p /\ ways'[idx(v)][i].wr = w
           /\ Holding(v)' # {}
           /\ \A u \in Vblk : u # v => NoNews(u)
<1>1. PICK k \in Line : k = idx(v)
  BY SlotWay
<1>2. PICK s \in Way : s = Slot(v)
  BY SlotWay
<1>3. PICK f : f = Filled(v, p, w)
  OBVIOUS
<1>4. ways' = [ways EXCEPT ![k] = [ways[k] EXCEPT ![s] = f]] /\ ways \in [Line -> [Way -> WayType]]
  BY <1>1, <1>2, <1>3 DEF lba_update, WaysTyped
<1>5. /\ \A i \in Way : ways'[k][i] = IF i = s THEN f ELSE ways[k][i]
      /\ \A l \in Line : l # k => ways'[l] = ways[l]
  BY <1>4
<1>6. f.vld /\ f.tag = tag(v) /\ f.plba = p /\ f.wr = w
  BY <1>3 DEF Filled
<1>7. \A i \in Way : i # s => ~(ways[k][i].vld /\ ways[k][i].tag = tag(v))
  <2>1. CASE Cached(v)
    BY <1>1, <1>2, <2>1, SlotHolds DEF Holding
  <2>2. CASE ~Cached(v)
    BY <1>1, <2>2 DEF Cached, Holding
  <2> QED BY <2>1, <2>2
<1>8. \A i \in Way : i \in Holding(v)' <=> i = s
  BY <1>1, <1>5, <1>6, <1>7 DEF Holding
<1>9. ASSUME NEW u \in Vblk, u # v PROVE NoNews(u)
  <2>1. idx(u) \in Line
    BY SlotWay
  <2>2. CASE idx(u) # k
    <3>1. ways'[idx(u)] = ways[idx(u)]
      BY <1>5, <2>1, <2>2
    <3> QED BY <3>1 DEF NoNews, Holding
  <2>3. CASE idx(u) = k
    <3>1. tag(u) # tag(v)
      BY <1>1, <1>9, <2>3, TagOf
    <3> QED BY <1>5, <1>6, <2>3, <3>1 DEF NoNews, Holding
  <2> QED BY <2>2, <2>3
<1>10. \A i \in Way : i \in Holding(v)' => ways'[idx(v)][i].plba = p /\ ways'[idx(v)][i].wr = w
  BY <1>1, <1>5, <1>6, <1>8
<1>11. Holding(v)' # {}
  BY <1>8
<1> QED BY <1>9, <1>10, <1>11

\* A cache without news is still true.
LEMMA NoNewsTrue ==
    ASSUME CacheTrue, ViewKept, NEW v \in Vblk, NoNews(v), NEW i \in Way, i \in Holding(v)'
    PROVE  Truth(v, ways[idx(v)][i].plba, ways[idx(v)][i].wr)'
<1>1. PICK p : p = ways[idx(v)][i].plba /\ p = ways'[idx(v)][i].plba
  BY DEF NoNews
<1>2. PICK w : w = ways'[idx(v)][i].wr
  OBVIOUS
<1>3. Truth(v, p, w)
  BY <1>1, <1>2 DEF NoNews, CacheTrue, Truth
<1>4. Truth(v, p, w)'
  BY <1>3 DEF ViewKept
<1> QED BY <1>1, <1>2, <1>4

\* Ways are ways.
LEMMA HoldingWay == \A v : Holding(v) \subseteq Way /\ Holding(v)' \subseteq Way
  BY DEF Holding

-----------------------------------------------------------------------------
(* The answers and their order.                                             *)

\* A step that touches neither the server nor the disk.
LEMMA LocalView ==
    ASSUME Server, Tables, Newest, Older, UNCHANGED <<allVars, disk, last, frozen>>
    PROVE  /\ SameView /\ ViewKept /\ Tables' /\ Newest' /\ Older' /\ sent' = sent
<1>1. SrvInv /\ UNCHANGED vars /\ sent' = sent /\ wq' = wq
  BY DEF Server, allVars, srvVars
<1>2. UNCHANGED <<root, l0, snaps, tx>>
  BY <1>1 DEF vars
<1>3. FileMove
  BY <1>1, StutterMove
<1>4. SameView
  BY <1>1, <1>2, <1>3, ViewStutter
<1>5. ViewKept
  BY <1>4, KeptSame
<1>6. Newest' /\ Older'
  BY <1>4, TruthSame
<1>7. Tables'
  BY <1>1, <1>2 DEF Tables, TxCurrent, head, Ref
<1> QED BY <1>1, <1>4, <1>5, <1>6, <1>7

\* An answer stays true.
LEMMA AnsKept ==
    ASSUME ViewKept, NEW c \in Cmd, cmd[c] \in CmdType, AnsTrue(c), cmd'[c] = cmd[c], sent'[c] = sent[c]
    PROVE  AnsTrue(c)'
<1>1. PICK r \in CmdType : r = cmd[c] /\ r = cmd'[c]
  OBVIOUS
<1>2. PICK a : a = Answer(c) /\ a = Answer(c)'
  BY DEF Answer
<1>3. PICK v \in Vblk : v = r.v
  BY Asks
<1>4. IsRw(r) => /\ a.vld => Truth(v, a.cl, a.wr)
                 /\ r.op = "read" => a.vld
                 /\ r.op # "read" /\ a.vld => a.wr
  BY <1>1, <1>2, <1>3 DEF AnsTrue
<1>5. \A p, w : Truth(v, p, w) => Truth(v, p, w)'
  BY DEF ViewKept
<1>6. IsRw(r) => /\ a.vld => Truth(v, a.cl, a.wr)'
                 /\ r.op = "read" => a.vld
                 /\ r.op # "read" /\ a.vld => a.wr
  BY <1>4, <1>5
<1> QED BY <1>1, <1>2, <1>3, <1>6 DEF AnsTrue, IsRw

\* Nothing of the order is lost when the step neither moves cluster v nor
\* answers nor caches, and starts no write of it.
LEMMA OrderQuiet ==
    ASSUME NEW v \in Vblk, NEW s \in Seq(Cmd), InOrder(s, v), At(v)' = At(v), NoNews(v),
           \A i \in 1 .. Len(s) : cmd'[s[i]] = cmd[s[i]] /\ sent'[s[i]] = sent[s[i]],
           \A c \in Cmd : stage'[c] = "hq" /\ Modifies(c)' /\ cmd'[c].v = v =>
              \/ stage[c] = "hq" /\ Modifies(c) /\ cmd[c].v = v
              \/ ~(StaleIn(s, v) \/ StaleWay(v))
    PROVE  InOrder(s, v)'
<1>1. ASSUME NEW i \in 1 .. Len(s)
      PROVE  /\ Stale(s[i], v)' <=> Stale(s[i], v)
             /\ Fresh(s[i], v)' <=> Fresh(s[i], v)
             /\ Answer(s[i])' = Answer(s[i])
  <2>1. PICK c \in Cmd : c = s[i]
    OBVIOUS
  <2>2. Answer(c)' = Answer(c) /\ (Says(c, v)' <=> Says(c, v))
    BY <2>1 DEF Answer, Says, IsRw
  <2> QED BY <2>1, <2>2 DEF Stale, Fresh
<1>2. StaleIn(s, v)' <=> StaleIn(s, v)
  BY <1>1 DEF StaleIn
<1>3. FreshIn(s, v)' <=> FreshIn(s, v)
  BY <1>1 DEF FreshIn
<1>4. \A i \in Holding(v)' : i \in Holding(v) /\ ways'[idx(v)][i].plba = ways[idx(v)][i].plba
  BY HoldingWay DEF NoNews
<1>5. StaleWay(v)' => StaleWay(v)
  BY <1>4 DEF StaleWay
<1>6. \A i, j \in 1 .. Len(s) : Stale(s[i], v)' /\ Fresh(s[j], v)' => i < j
  BY <1>1 DEF InOrder
<1>7. StaleIn(s, v)' \/ StaleWay(v)' =>
         /\ FreshIn(s, v)'
         /\ \A c \in Cmd : stage'[c] = "hq" /\ Modifies(c)' => cmd'[c].v # v
  BY <1>2, <1>3, <1>5 DEF InOrder
<1>8. StaleIn(s, v)' => \A i \in Holding(v)' : ways'[idx(v)][i].plba # At(v)'
  BY <1>2, <1>4 DEF InOrder
<1> QED BY <1>6, <1>7, <1>8 DEF InOrder

\* The first answer says nothing of v.
LEMMA OrderTail ==
    ASSUME NEW v \in Vblk, NEW s \in Seq(Cmd), s # <<>>, NEW t, t = Tail(s), ~Says(s[1], v), InOrder(s, v)
    PROVE  InOrder(t, v)
<1>1. PICK n \in Nat : n = Len(t) /\ Len(s) = n + 1
  BY Shorter
<1>2. \A i \in 1 .. n : i + 1 \in 1 .. n + 1 /\ t[i] = s[i + 1]
  BY <1>1, Shorter
<1>3. \A i \in 1 .. n + 1 : i = 1 \/ (i - 1 \in 1 .. n /\ i - 1 + 1 = i)
  BY <1>1
<1>4. ~Stale(s[1], v) /\ ~Fresh(s[1], v)
  BY DEF Stale, Fresh
<1>5. StaleIn(t, v) => StaleIn(s, v)
  BY <1>1, <1>2 DEF StaleIn
<1>6. FreshIn(s, v) => FreshIn(t, v)
  <2> SUFFICES ASSUME NEW i \in 1 .. Len(s), Fresh(s[i], v), Answer(s[i]).wr PROVE FreshIn(t, v)
    BY DEF FreshIn
  <2>1. i # 1 /\ i \in 1 .. n + 1
    BY <1>1, <1>4
  <2>2. PICK j \in 1 .. n : j + 1 = i
    BY <1>3, <2>1
  <2>3. t[j] = s[i]
    BY <1>2, <2>2
  <2> QED BY <1>1, <2>3 DEF FreshIn
<1>7. ASSUME NEW i \in 1 .. Len(t), NEW j \in 1 .. Len(t), Stale(t[i], v), Fresh(t[j], v) PROVE i < j
  <2>1. i \in 1 .. n /\ j \in 1 .. n
    BY <1>1
  <2>2. i + 1 \in 1 .. Len(s) /\ j + 1 \in 1 .. Len(s) /\ Stale(s[i + 1], v) /\ Fresh(s[j + 1], v)
    BY <1>1, <1>2, <1>7, <2>1
  <2>3. i + 1 < j + 1
    BY <2>2 DEF InOrder
  <2> QED BY <2>1, <2>3
<1> QED BY <1>5, <1>6, <1>7 DEF InOrder

\* More answers, none of them stale.
LEMMA OrderMore ==
    ASSUME NEW v \in Vblk, NEW s \in Seq(Cmd), NEW z \in Seq(Cmd), NEW t, t = s \o z, InOrder(s, v)',
           \A i \in 1 .. Len(z) : ~Stale(z[i], v)'
    PROVE  InOrder(t, v)'
<1>1. PICK n \in Nat : n = Len(s)
  OBVIOUS
<1>2. PICK m \in Nat : m = Len(z)
  OBVIOUS
<1>3. Len(t) = n + m /\ \A i \in 1 .. n : t[i] = s[i]
  BY <1>1, <1>2, Joined
<1>4. \A i \in 1 .. n + m : i \in 1 .. n \/ \E j \in 1 .. m : i = n + j /\ t[i] = z[j]
  BY <1>1, <1>2, <1>3, Joined
<1>5. \A i \in 1 .. n + m : Stale(t[i], v)' => i \in 1 .. n /\ Stale(s[i], v)'
  <2> SUFFICES ASSUME NEW i \in 1 .. n + m, Stale(t[i], v)' PROVE i \in 1 .. n /\ Stale(s[i], v)'
    OBVIOUS
  <2>1. CASE i \in 1 .. n
    BY <1>3, <2>1
  <2>2. ASSUME NEW j \in 1 .. m, i = n + j, t[i] = z[j] PROVE FALSE
    BY <1>2, <2>2
  <2> QED BY <1>4, <2>1, <2>2
<1>6. StaleIn(t, v)' => StaleIn(s, v)'
  BY <1>1, <1>3, <1>5 DEF StaleIn
<1>7. \A i \in 1 .. n : i \in 1 .. n + m
  OBVIOUS
<1>8. FreshIn(s, v)' => FreshIn(t, v)'
  BY <1>1, <1>3, <1>7 DEF FreshIn
<1>9. ASSUME NEW i \in 1 .. Len(t), NEW j \in 1 .. Len(t), Stale(t[i], v)', Fresh(t[j], v)' PROVE i < j
  <2>1. i \in 1 .. n /\ Stale(s[i], v)' /\ j \in 1 .. n + m
    BY <1>3, <1>5, <1>9
  <2>2. CASE j \in 1 .. n
    <3>1. Fresh(s[j], v)'
      BY <1>3, <1>9, <2>2
    <3> QED BY <1>1, <2>1, <2>2, <3>1 DEF InOrder
  <2>3. CASE j \notin 1 .. n
    BY <2>1, <2>3
  <2> QED BY <2>2, <2>3
<1> QED BY <1>6, <1>8, <1>9 DEF InOrder

-----------------------------------------------------------------------------
(* The hooks of the program.                                                *)

\* What the guest and the set-up promise: one queue, no failing disk I/O,
\* snapshots asked for with nothing in flight, no reads under a shared leaf
\* table, a root table that the server's handle spans, a controller that is
\* moved only to processors it has not filled the maps of, and a data disk
\* whose first cluster was zeroed.
Serial ==
    /\ ~MayFail /\ Quiesced /\ ~SharedReads
    /\ ~MovesBack /\ FirstZeroed
    /\ \E q \in Queues : Queues = {q}
    /\ l0count <= PerCluster

\* The invariant beyond the types: the cache, the answers, the map and the
\* disk agree.
Agreed == Flight /\ Tables /\ Newest /\ Older /\ Hosted /\ CacheTrue /\ AnswerTrue /\ Ordered

\* Fewer commands in flight, and nothing written to the cache as writable.
LEMMA FlightLess ==
    ASSUME Flight,
           \A c \in Cmd : InFlight(c)' => InFlight(c) /\ cmd'[c] = cmd[c],
           \A c \in Cmd : stage'[c] = "nsq" => stage[c] = "nsq",
           \A c \in Cmd : stage'[c] = "nsq" /\ cmd[c].op = "read" => (Shared(cmd[c].v)' => Shared(cmd[c].v)),
           \A c \in Cmd : InFlight(c)' /\ cmd[c].op = "snapshot" =>
              \A l \in Line, i \in Way : ways'[l][i].wr => ways[l][i].wr
    PROVE  Flight'
<1>1. \A c, d \in Cmd : c # d /\ InFlight(c)' /\ InFlight(d)' => ~Overlap(cmd'[c], cmd'[d]) /\ cmd'[c].op # "snapshot"
  BY DEF Flight, Overlap, IsRw
<1>2. ASSUME NEW c \in Cmd, stage'[c] = "nsq", cmd'[c].op = "read" PROVE ~Shared(cmd[c].v)'
  <2>1. InFlight(c)'
    BY <1>2 DEF InFlight
  <2>2. cmd'[c] = cmd[c]
    BY <2>1
  <2>3. PICK v : v = cmd[c].v /\ v = cmd'[c].v
    BY <2>2
  <2>4. ~Shared(v)
    BY <1>2, <2>2, <2>3 DEF Flight
  <2>5. ~Shared(v)'
    BY <1>2, <2>2, <2>3, <2>4
  <2> QED BY <2>3, <2>5
<1>3. \A c \in Cmd : InFlight(c)' /\ cmd'[c].op = "snapshot" => \A l \in Line, i \in Way : ~ways'[l][i].wr
  BY DEF Flight
<1> QED BY <1>1, <1>2, <1>3 DEF Flight, Overlap, IsRw

\* The answers in the queues stay true.
LEMMA AnswersKept ==
    ASSUME Path, AnswerTrue, ViewKept, NEW q \in Queues, NEW s, s = ncq[q],
           \A i \in 1 .. Len(s) : cmd'[s[i]] = cmd[s[i]] /\ sent'[s[i]] = sent[s[i]]
    PROVE  /\ s \in Seq(Cmd)
           /\ \A i \in 1 .. Len(s) : s[i] \in Cmd /\ stage[s[i]] = "ncq" /\ AnsTrue(s[i])'
<1>1. Listed(s, q, "ncq")
  BY DEF Path
<1>2. s \in Seq(Cmd) /\ \A i \in 1 .. Len(s) : s[i] \in Cmd /\ stage[s[i]] = "ncq"
  BY <1>1 DEF Listed
<1>3. ASSUME NEW i \in 1 .. Len(s) PROVE AnsTrue(s[i])'
  <2>1. PICK c \in Cmd : c = s[i]
    BY <1>2
  <2>2. cmd[c] \in CmdType
    BY <1>2, <2>1 DEF Path
  <2>3. AnsTrue(c) /\ cmd'[c] = cmd[c] /\ sent'[c] = sent[c]
    BY <2>1 DEF AnswerTrue
  <2>4. AnsTrue(c)'
    BY <2>2, <2>3, AnsKept
  <2> QED BY <2>1, <2>4
<1> QED BY <1>2, <1>3

\* A cache without news is true.
LEMMA CacheKept ==
    ASSUME CacheTrue, ViewKept, \A v \in Vblk : NoNews(v)
    PROVE  CacheTrue'
<1> SUFFICES ASSUME NEW v \in Vblk, NEW i \in Holding(v)'
             PROVE  Truth(v, ways[idx(v)][i].plba, ways[idx(v)][i].wr)'
  BY DEF CacheTrue
<1>1. i \in Way
  BY HoldingWay
<1> QED BY <1>1, NoNewsTrue

\* Where the queue's order lets a command be translated for writing, what
\* is cached is where the newest snapshot has the cluster.
LEMMA HitTrue ==
    ASSUME PathTypes, CacheUnique, CacheTrue, NEW v \in Vblk, Cached(v)
    PROVE  /\ Truth(v, Found(v).plba, Found(v).wr)
           /\ Found(v).wr => ~StaleWay(v) /\ \A i \in Holding(v) : ways[idx(v)][i].plba = At(v)
<1>1. PICK i \in Holding(v) : i = First(Holding(v))
  BY SlotWay
<1>2. Found(v) = ways[idx(v)][i]
  BY <1>1 DEF Found
<1>3. Truth(v, Found(v).plba, Found(v).wr)
  BY <1>2 DEF CacheTrue
<1>4. Holding(v) = {Slot(v)}
  BY SlotHolds, SlotWay
<1>5. \A j \in Holding(v) : j = i
  BY <1>4
<1>6. Found(v).wr => \A j \in Holding(v) : ways[idx(v)][j].plba = At(v)
  BY <1>2, <1>3, <1>5 DEF Truth
<1> QED BY <1>3, <1>6 DEF StaleWay

\* What the three hooks of a virtual queue have in common.
LEMMA VsqCommon ==
    ASSUME PathTypes, NEW c \in Cmd, NEW r \in Asked, NEW q \in Queues, Vsq(c, r, q)
    PROVE  /\ MayIssue(c, r) /\ stage[c] = "new" /\ UNCHANGED <<allVars, ncq, disk, last, frozen>>
           /\ cmd'[c] \in CmdType /\ cmd'[c].op = r.op /\ cmd'[c].v = r.v /\ cmd'[c].off = r.off
           /\ \A x \in Cmd : x # c => cmd'[x] = cmd[x] /\ stage'[x] = stage[x] /\ slba'[x] = slba[x]
           /\ stage'[c] \in {"nsq", "hq", "done"}
           /\ \A v \in Vblk : NoNews(v)
           /\ r.op = "snapshot" => \A l \in Line, i \in Way : ~ways'[l][i].wr
           /\ stage'[c] = "hq" => IsRw(r) /\ Translated(r) /\ slba'[c] = Found(r.v).plba
           /\ r.v \in Vblk /\ r.off \in Offs
<1>1. PICK to : Issued(c, r, q, to)
  BY VsqShape
<1>2. MayIssue(c, r) /\ stage[c] = "new"
  BY <1>1 DEF Vsq, vsq_hit, vsq_miss, vsq_snapshot, Issued
<1>3. /\ stage' = [stage EXCEPT ![c] = to] /\ to \in {"nsq", "hq", "done"}
      /\ cmd' = [cmd EXCEPT ![c] = [op |-> r.op, v |-> r.v, off |-> r.off, q |-> q]]
      /\ UNCHANGED <<allVars, ncq, disk, last, frozen>>
  BY <1>1 DEF Issued
<1>4. /\ stage \in [Cmd -> {"new", "nsq", "srv", "ncq", "hq", "done"}]
      /\ cmd \in [Cmd -> CmdType \union {NoReq}] /\ slba \in [Cmd -> Disk] /\ WaysTyped
  BY DataTypes DEF PathTypes, Path
<1>5. /\ cmd'[c] = [op |-> r.op, v |-> r.v, off |-> r.off, q |-> q] /\ stage'[c] = to
      /\ \A x \in Cmd : x # c => cmd'[x] = cmd[x] /\ stage'[x] = stage[x]
  BY <1>3, <1>4
<1>6. cmd'[c] \in CmdType
  BY <1>5 DEF CmdType
<1>7. r.v \in Vblk /\ r.off \in Offs
  BY PathAssumption
<1>8. CASE vsq_hit(c, r, q)
  <2>1. /\ slba' = [slba EXCEPT ![c] = Found(r.v).plba] /\ UNCHANGED ways /\ Translated(r) /\ IsRw(r)
    BY <1>8 DEF vsq_hit
  <2>2. slba'[c] = Found(r.v).plba /\ \A x \in Cmd : x # c => slba'[x] = slba[x]
    BY <1>4, <2>1
  <2>3. \A v \in Vblk : NoNews(v)
    BY <2>1, SameNews
  <2>4. r.op # "snapshot"
    BY <2>1 DEF IsRw
  <2> QED BY <1>2, <1>3, <1>5, <1>6, <1>7, <2>1, <2>2, <2>3, <2>4
<1>9. CASE vsq_miss(c, r, q)
  <2>1. /\ slba' = slba /\ IsRw(r) /\ (UNCHANGED ways \/ lba_flush_range(r.v))
        /\ stage' = [stage EXCEPT ![c] = "nsq"]
    BY <1>9 DEF vsq_miss, Accept
  <2>2. stage'[c] = "nsq"
    BY <1>4, <2>1
  <2>3. \A v \in Vblk : NoNews(v)
    BY <1>4, <1>7, <2>1, SameNews, FlushNews
  <2>4. r.op # "snapshot"
    BY <2>1 DEF IsRw
  <2> QED BY <1>2, <1>3, <1>5, <1>6, <1>7, <2>1, <2>2, <2>3, <2>4
<1>10. CASE vsq_snapshot(c, r, q)
  <2>1. /\ slba' = slba /\ lba_clear_writable
        /\ stage' = [stage EXCEPT ![c] = IF bandRet = Lines THEN "nsq" ELSE "done"]
    BY <1>10 DEF vsq_snapshot, Accept
  <2>2. stage'[c] # "hq"
    BY <1>4, <2>1
  <2>3. \A v \in Vblk : NoNews(v)
    BY <2>1, ClearNews
  <2>4. \A l \in Line, i \in Way : ~ways'[l][i].wr
    BY <1>7, <2>1, ClearNews
  <2> QED BY <1>2, <1>3, <1>5, <1>6, <1>7, <2>1, <2>2, <2>3, <2>4
<1> QED BY <1>8, <1>9, <1>10 DEF Vsq

\* Taking a command from the guest.
LEMMA VsqAgreed ==
    ASSUME Serial, PathInv, NEW c \in Cmd, NEW r \in Asked, NEW q \in Queues, Vsq(c, r, q)
    PROVE  Agreed'
<1>1. /\ PathTypes /\ Path /\ Server /\ CacheUnique /\ Flight /\ Tables /\ Newest /\ Older /\ Hosted
      /\ CacheTrue /\ AnswerTrue /\ Ordered
  BY DEF PathInv, PathTypes
<1>2. /\ MayIssue(c, r) /\ stage[c] = "new" /\ UNCHANGED <<allVars, ncq, disk, last, frozen>>
      /\ cmd'[c] \in CmdType /\ cmd'[c].op = r.op /\ cmd'[c].v = r.v /\ cmd'[c].off = r.off
      /\ \A x \in Cmd : x # c => cmd'[x] = cmd[x] /\ stage'[x] = stage[x] /\ slba'[x] = slba[x]
      /\ stage'[c] \in {"nsq", "hq", "done"}
      /\ \A v \in Vblk : NoNews(v)
      /\ r.op = "snapshot" => \A l \in Line, i \in Way : ~ways'[l][i].wr
      /\ stage'[c] = "hq" => IsRw(r) /\ Translated(r) /\ slba'[c] = Found(r.v).plba
      /\ r.v \in Vblk /\ r.off \in Offs
  BY <1>1, VsqCommon
<1>3. SameView /\ ViewKept /\ Tables' /\ Newest' /\ Older' /\ sent' = sent
  BY <1>1, <1>2, LocalView
<1>4. /\ \A d \in Cmd : InFlight(d) => ~Overlap(r, cmd[d]) /\ r.op # "snapshot" /\ cmd[d].op # "snapshot"
      /\ r.op = "read" => ~Shared(r.v)
  BY <1>2 DEF MayIssue, Serial
<1>5. \A d \in Cmd : d # c => (InFlight(d)' <=> InFlight(d))
  BY <1>2 DEF InFlight
<1>6. Flight'
  <2>1. ASSUME NEW x \in Cmd, NEW y \in Cmd, x # y, InFlight(x)', InFlight(y)'
        PROVE  ~Overlap(cmd'[x], cmd'[y]) /\ cmd'[x].op # "snapshot"
    <3>1. CASE x = c
      BY <1>2, <1>4, <1>5, <2>1, <3>1 DEF Overlap, IsRw
    <3>2. CASE y = c
      BY <1>2, <1>4, <1>5, <2>1, <3>2 DEF Overlap, IsRw
    <3>3. CASE x # c /\ y # c
      BY <1>1, <1>2, <1>5, <2>1, <3>3 DEF Flight
    <3> QED BY <3>1, <3>2, <3>3
  <2>2. ASSUME NEW x \in Cmd, stage'[x] = "nsq", cmd'[x].op = "read" PROVE ~Shared(cmd[x].v)'
    <3>1. PICK v : v = cmd'[x].v
      OBVIOUS
    <3>2. v \in Vblk
      <4>1. CASE x = c
        BY <1>2, <3>1, <4>1
      <4>2. CASE x # c
        BY <1>1, <1>2, <2>2, <3>1, <4>2, Asks DEF Path
      <4> QED BY <4>1, <4>2
    <3>3. ~Shared(v)
      BY <1>1, <1>2, <1>4, <2>2, <3>1 DEF Flight
    <3>4. ~Shared(v)'
      BY <1>3, <3>2, <3>3 DEF SameView
    <3> QED BY <3>1, <3>4
  <2>3. ASSUME NEW x \in Cmd, InFlight(x)', cmd'[x].op = "snapshot"
        PROVE  \A l \in Line, i \in Way : ~ways'[l][i].wr
    BY <1>2, <1>4, <1>5, <2>3
  <2> QED BY <2>1, <2>2, <2>3 DEF Flight, Overlap, IsRw
<1>7. ASSUME stage'[c] = "hq" PROVE Truth(r.v, slba'[c], Found(r.v).wr) /\ (r.op # "read" => Found(r.v).wr)
  <2>1. Cached(r.v) /\ (r.op = "read" \/ Found(r.v).wr)
    BY <1>2, <1>7 DEF Translated
  <2> QED BY <1>1, <1>2, <1>7, <2>1, HitTrue
<1>8. Hosted'
  <2> SUFFICES ASSUME NEW x \in Cmd, stage'[x] = "hq" PROVE HostOK(x)'
    BY HostedIff
  <2>1. CASE x # c
    BY <1>1, <1>2, <1>3, <2>1, HostKept
  <2>2. CASE x = c
    <3>1. PICK v \in Vblk : v = r.v /\ v = cmd'[c].v
      BY <1>2
    <3>2. PICK p : p = slba'[c]
      OBVIOUS
    <3>3. PICK w : w = Found(v).wr
      OBVIOUS
    <3>4. Truth(v, p, w) /\ (r.op # "read" => w)
      BY <1>7, <2>2, <3>1, <3>2, <3>3
    <3>5. Truth(v, p, w)'
      BY <1>3, <3>4 DEF ViewKept
    <3>6. cmd'[c].op = r.op /\ cmd'[c].off \in Offs
      BY <1>2
    <3> QED BY <2>2, <3>1, <3>2, <3>4, <3>5, <3>6 DEF HostOK, Modifies, Truth, Good
  <2> QED BY <2>1, <2>2
<1>9. CacheTrue'
  BY <1>1, <1>2, <1>3, CacheKept
<1>10. ASSUME NEW p \in Queues
       PROVE  /\ ncq[p] \in Seq(Cmd)
              /\ \A i \in 1 .. Len(ncq[p]) : cmd'[ncq[p][i]] = cmd[ncq[p][i]] /\ sent'[ncq[p][i]] = sent[ncq[p][i]]
  BY <1>1, <1>2, <1>3 DEF Path, Listed
<1>11. AnswerTrue'
  <2> SUFFICES ASSUME NEW p \in Queues, NEW i \in 1 .. Len(ncq[p]) PROVE AnsTrue(ncq[p][i])'
    BY <1>2 DEF AnswerTrue
  <2>1. PICK s : s = ncq[p] /\ s = ncq'[p]
    BY <1>2
  <2>2. AnsTrue(s[i])'
    BY <1>1, <1>3, <1>10, <2>1, AnswersKept
  <2> QED BY <2>1, <2>2
<1>12. Ordered'
  <2> SUFFICES ASSUME NEW p \in Queues, NEW v \in Vblk PROVE InOrder(ncq[p], v)'
    BY DEF Ordered
  <2>1. PICK s \in Seq(Cmd) : s = ncq[p] /\ s = ncq'[p]
    BY <1>2, <1>10
  <2>2. InOrder(s, v)
    BY <1>1, <2>1 DEF Ordered
  <2>3. ASSUME NEW x \in Cmd, stage'[x] = "hq", Modifies(x)', cmd'[x].v = v
        PROVE  \/ stage[x] = "hq" /\ Modifies(x) /\ cmd[x].v = v
               \/ ~(StaleIn(s, v) \/ StaleWay(v))
    <3>1. CASE x # c
      BY <1>2, <2>3, <3>1 DEF Modifies
    <3>2. CASE x = c
      <4>1. v = r.v /\ Cached(v) /\ Found(v).wr
        BY <1>2, <2>3, <3>2 DEF Modifies, Translated
      <4>2. ~StaleWay(v) /\ \A i \in Holding(v) : ways[idx(v)][i].plba = At(v)
        BY <1>1, <4>1, HitTrue
      <4>3. PICK i \in Holding(v) : TRUE
        BY <4>1 DEF Cached
      <4>4. ~StaleIn(s, v)
        BY <2>2, <4>2, <4>3 DEF InOrder
      <4> QED BY <4>2, <4>4
    <3> QED BY <3>1, <3>2
  <2>4. At(v)' = At(v)
    BY <1>3 DEF SameView
  <2>5. \A i \in 1 .. Len(s) : cmd'[s[i]] = cmd[s[i]] /\ sent'[s[i]] = sent[s[i]]
    <3>1. Listed(s, p, "ncq")
      BY <1>1, <2>1 DEF Path
    <3>2. \A i \in 1 .. Len(s) : s[i] \in Cmd /\ stage[s[i]] = "ncq"
      BY <3>1 DEF Listed
    <3> QED BY <1>2, <1>3, <3>2
  <2>6. InOrder(s, v)'
    BY <1>2, <2>2, <2>3, <2>4, <2>5, OrderQuiet
  <2> QED BY <2>1, <2>6
<1> QED BY <1>3, <1>6, <1>8, <1>9, <1>11, <1>12 DEF Agreed

\* An answer is taken from the queue: what the three hooks have in common.
LEMMA NcqCommon ==
    ASSUME PathTypes, NEW q \in Queues, Ncq(q)
    PROVE  \E c \in Cmd :
              /\ c = Head(ncq[q]) /\ ncq[q] # <<>> /\ stage[c] = "ncq" /\ cmd[c] \in CmdType /\ sent[c] # <<>>
              /\ UNCHANGED <<allVars, cmd, disk, last, frozen>>
              /\ stage'[c] \in {"hq", "done"} /\ \A x \in Cmd : x # c => stage'[x] = stage[x]
              /\ ncq'[q] = Tail(ncq[q]) /\ \A p \in Queues : p # q => ncq'[p] = ncq[p]
<1>1. ncq[q] # <<>> /\ Path
  BY DEF Ncq, ncq_valid, ncq_plain, ncq_snapshot, PathTypes
<1>2. PICK s : s = ncq[q]
  OBVIOUS
<1>3. Listed(s, q, "ncq") /\ s # <<>>
  BY <1>1, <1>2 DEF Path
<1>4. PICK c : c = Head(s)
  OBVIOUS
<1>5. c = s[1] /\ c \in Cmd /\ stage[c] = "ncq"
  BY <1>3, <1>4, Shorter DEF Listed
<1>6. PICK to \in {"hq", "done"} : TakeNcq(q, to)
  BY DEF Ncq, ncq_valid, ncq_plain, ncq_snapshot
<1>7. /\ stage' = [stage EXCEPT ![c] = to] /\ ncq' = [ncq EXCEPT ![q] = Tail(s)]
      /\ UNCHANGED <<allVars, cmd, disk, last, frozen>>
  BY <1>2, <1>4, <1>6 DEF TakeNcq
<1>8. /\ stage \in [Cmd -> {"new", "nsq", "srv", "ncq", "hq", "done"}] /\ ncq = [qu \in Queues |-> ncq[qu]]
      /\ cmd[c] \in CmdType /\ sent[c] # <<>>
  BY <1>1, <1>5 DEF Path
<1>9. /\ stage'[c] = to /\ \A x \in Cmd : x # c => stage'[x] = stage[x]
      /\ ncq'[q] = Tail(s) /\ \A p \in Queues : p # q => ncq'[p] = ncq[p]
  BY <1>5, <1>7, <1>8
<1> QED BY <1>1, <1>2, <1>4, <1>5, <1>6, <1>7, <1>8, <1>9

\* A length is a natural number.
LEMMA LengthNat ==
    ASSUME NEW S, NEW s \in Seq(S)
    PROVE  Len(s) \in Nat
  OBVIOUS

\* The order of the queue once the answer of c, about v, is cached.
LEMMA OrderUpdate ==
    ASSUME NEW v \in Vblk, NEW s \in Seq(Cmd), s # <<>>, NEW t, t = Tail(s), InOrder(s, v), At(v)' = At(v),
           Says(s[1], v), NEW p, p = Answer(s[1]).cl,
           \A i \in Holding(v)' : ways'[idx(v)][i].plba = p,
           \A i \in 1 .. Len(s) : cmd'[s[i]] = cmd[s[i]] /\ sent'[s[i]] = sent[s[i]],
           \A x \in Cmd : stage'[x] = "hq" /\ Modifies(x)' /\ cmd'[x].v = v =>
              \/ stage[x] = "hq" /\ Modifies(x) /\ cmd[x].v = v
              \/ p = At(v)
    PROVE  InOrder(t, v)'
<1>21. Len(t) \in Nat /\ Len(s) \in Nat /\ Len(t) = Len(s) - 1
  <2>1. t \in Seq(Cmd) /\ Len(Tail(s)) = Len(s) - 1
    BY Shorter
  <2>2. Len(s) \in Nat
    BY LengthNat
  <2>3. Len(t) \in Nat
    BY <2>1, LengthNat
  <2> QED BY <2>1, <2>2, <2>3
<1>22. PICK n \in Nat : n = Len(t)
  BY <1>21
<1>23. PICK m \in Nat : m = Len(s)
  BY <1>21
<1>24. n = m - 1
  BY <1>21, <1>22, <1>23, Zenon
<1>25. m = n + 1
  BY <1>24
<1>20. n = Len(t) /\ Len(s) = n + 1
  BY <1>22, <1>23, <1>25, Zenon
<1>1. n = Len(t) /\ Len(s) = n + 1 /\ 1 \in 1 .. n + 1
  BY <1>20
<1>2. \A i \in 1 .. n : i + 1 \in 1 .. n + 1 /\ t[i] = s[i + 1]
  BY <1>1, Shorter
<1>3. \A i \in 1 .. n + 1 : i = 1 \/ (i - 1 \in 1 .. n /\ i - 1 + 1 = i)
  BY <1>1
<1>4. ASSUME NEW i \in 1 .. n
      PROVE  /\ Stale(t[i], v)' <=> Stale(s[i + 1], v)
             /\ Fresh(t[i], v)' <=> Fresh(s[i + 1], v)
             /\ Answer(t[i])' = Answer(s[i + 1])
  <2>1. PICK c \in Cmd : c = s[i + 1] /\ c = t[i]
    BY <1>1, <1>2
  <2>2. cmd'[c] = cmd[c] /\ sent'[c] = sent[c]
    BY <1>1, <1>2, <2>1
  <2>3. Answer(c)' = Answer(c) /\ (Says(c, v)' <=> Says(c, v))
    BY <2>2 DEF Answer, Says, IsRw
  <2> QED BY <2>1, <2>3 DEF Stale, Fresh
<1>5. ASSUME NEW i \in 1 .. Len(t), NEW j \in 1 .. Len(t), Stale(t[i], v)', Fresh(t[j], v)' PROVE i < j
  <2>1. i \in 1 .. n /\ j \in 1 .. n
    BY <1>1
  <2>2. i + 1 \in 1 .. Len(s) /\ j + 1 \in 1 .. Len(s) /\ Stale(s[i + 1], v) /\ Fresh(s[j + 1], v)
    BY <1>1, <1>2, <1>4, <1>5, <2>1
  <2>3. i + 1 < j + 1
    BY <2>2 DEF InOrder
  <2> QED BY <2>1, <2>3
<1>6. CASE p = At(v)
  <2>1. Fresh(s[1], v)
    BY <1>6 DEF Fresh
  <2>2. ASSUME NEW i \in 1 .. n PROVE ~Stale(s[i + 1], v)
    <3>1. i + 1 \in 1 .. Len(s) /\ 1 \in 1 .. Len(s) /\ ~(i + 1 < 1)
      BY <1>1, <1>2
    <3> QED BY <2>1, <3>1 DEF InOrder
  <2>3. ~StaleIn(t, v)'
    BY <1>1, <1>4, <2>2 DEF StaleIn
  <2>4. ~StaleWay(v)'
    BY <1>6 DEF StaleWay
  <2> QED BY <1>5, <2>3, <2>4 DEF InOrder
<1>7. CASE p # At(v)
  <2>1. Stale(s[1], v)
    BY <1>7 DEF Stale
  <2>2. StaleIn(s, v)
    BY <1>1, <2>1 DEF StaleIn
  <2>3. FreshIn(s, v) /\ \A x \in Cmd : stage[x] = "hq" /\ Modifies(x) => cmd[x].v # v
    BY <2>2 DEF InOrder
  <2>4. PICK i \in 1 .. n + 1 : Fresh(s[i], v) /\ Answer(s[i]).wr
    BY <1>1, <2>3 DEF FreshIn
  <2>5. i # 1
    BY <2>1, <2>4 DEF Stale, Fresh
  <2>6. PICK j \in 1 .. n : j + 1 = i
    BY <1>3, <2>5
  <2>7. Fresh(t[j], v)' /\ Answer(t[j])'.wr
    BY <1>4, <2>4, <2>6
  <2>8. FreshIn(t, v)'
    BY <1>1, <2>7 DEF FreshIn
  <2>9. \A x \in Cmd : stage'[x] = "hq" /\ Modifies(x)' => cmd'[x].v # v
    BY <1>7, <2>3
  <2>10. \A x \in Holding(v)' : ways'[idx(v)][x].plba # At(v)'
    BY <1>7
  <2> QED BY <1>5, <2>8, <2>9, <2>10 DEF InOrder
<1> QED BY <1>6, <1>7

\* What the hooks do to the cache: it learns what the answer says, or nothing.
Learns(c, v, p, w) ==
    /\ IsRw(cmd[c]) /\ v = cmd[c].v /\ Answer(c).vld /\ p = Answer(c).cl /\ w = Answer(c).wr
    /\ \A i \in Holding(v)' : ways'[idx(v)][i].plba = p /\ ways'[idx(v)][i].wr = w
    /\ \A u \in Vblk : u # v => NoNews(u)
    /\ stage'[c] = "hq" => slba'[c] = p

\* The cache after an NFD_WRITE hook is true.
LEMMA NcqCache ==
    ASSUME PathTypes, CacheUnique, NEW q \in Queues, Ncq(q), NEW c \in Cmd, c = Head(ncq[q]), cmd[c] \in CmdType,
           stage[c] = "ncq"
    PROVE  /\ \A x \in Cmd : x # c => slba'[x] = slba[x]
           /\ \/ \E v \in Vblk : \E p, w : Learns(c, v, p, w)
              \/ /\ \A u \in Vblk : NoNews(u) /\ ~Says(c, u)
                 /\ stage'[c] # "hq"
<1>1. WaysTyped /\ slba \in [Cmd -> Disk] /\ stage \in [Cmd -> {"new", "nsq", "srv", "ncq", "hq", "done"}]
  BY DataTypes DEF PathTypes, Path
<1>2. PICK v \in Vblk : v = cmd[c].v
  BY Asks
<1>3. CASE ncq_valid(q)
  <2>1. PICK a : a = Answer(c)
    OBVIOUS
  <2>2. /\ IsRw(cmd[c]) /\ a.vld /\ lba_update(v, a.cl, a.wr)
        /\ slba' = IF a.fwd THEN [slba EXCEPT ![c] = a.cl] ELSE slba
        /\ stage' = [stage EXCEPT ![c] = IF a.fwd THEN "hq" ELSE "done"]
    BY <1>2, <1>3, <2>1 DEF ncq_valid, TakeNcq
  <2>3. PICK p : p = a.cl
    OBVIOUS
  <2>4. PICK w : w = a.wr
    OBVIOUS
  <2>5. /\ \A i \in Way : i \in Holding(v)' => ways'[idx(v)][i].plba = p /\ ways'[idx(v)][i].wr = w
        /\ \A u \in Vblk : u # v => NoNews(u)
    BY <1>1, <2>2, <2>3, <2>4, UpdateNews
  <2>6. \A i \in Holding(v)' : i \in Way
    BY HoldingWay
  <2>7. stage'[c] = "hq" => slba'[c] = p
    <3>1. stage'[c] = IF a.fwd THEN "hq" ELSE "done"
      BY <1>1, <2>2
    <3>2. CASE a.fwd
      <4>1. slba' = [slba EXCEPT ![c] = a.cl]
        BY <2>2, <3>2
      <4> QED BY <1>1, <2>3, <4>1
    <3>3. CASE ~a.fwd
      BY <3>1, <3>3
    <3> QED BY <3>2, <3>3
  <2>8. Learns(c, v, p, w)
    BY <1>2, <2>1, <2>2, <2>3, <2>4, <2>5, <2>6, <2>7 DEF Learns
  <2>9. \A x \in Cmd : x # c => slba'[x] = slba[x]
    BY <1>1, <2>2
  <2> QED BY <2>8, <2>9
<1>4. CASE ncq_plain(q)
  <2>1. IsRw(cmd[c]) /\ ~Answer(c).vld /\ lba_flush_range(v) /\ slba' = slba /\ stage' = [stage EXCEPT ![c] = "done"]
    BY <1>2, <1>4 DEF ncq_plain, TakeNcq
  <2>2. \A u \in Vblk : NoNews(u)
    BY <1>1, <2>1, FlushNews
  <2>3. stage'[c] # "hq"
    BY <1>1, <2>1
  <2> QED BY <2>1, <2>2, <2>3 DEF Says
<1>5. CASE ncq_snapshot(q)
  <2>1. cmd[c].op = "snapshot" /\ UNCHANGED ways /\ slba' = slba /\ stage' = [stage EXCEPT ![c] = "done"]
    BY <1>5 DEF ncq_snapshot, TakeNcq, cacheVars
  <2>2. \A u \in Vblk : NoNews(u)
    BY <2>1, SameNews
  <2>3. stage'[c] # "hq"
    BY <1>1, <2>1
  <2> QED BY <2>1, <2>2, <2>3 DEF Says, IsRw
<1> QED BY <1>3, <1>4, <1>5 DEF Ncq

\* Taking an answer.
LEMMA NcqAgreed ==
    ASSUME Serial, PathInv, PathTypes', NEW q \in Queues, Ncq(q)
    PROVE  Agreed'
<1>1. /\ PathTypes /\ Path /\ Server /\ CacheUnique /\ Flight /\ Tables /\ Newest /\ Older /\ Hosted
      /\ CacheTrue /\ AnswerTrue /\ Ordered /\ Path'
  BY DEF PathInv, PathTypes
<1>2. PICK c \in Cmd :
         /\ c = Head(ncq[q]) /\ ncq[q] # <<>> /\ stage[c] = "ncq" /\ cmd[c] \in CmdType /\ sent[c] # <<>>
         /\ UNCHANGED <<allVars, cmd, disk, last, frozen>>
         /\ stage'[c] \in {"hq", "done"} /\ \A x \in Cmd : x # c => stage'[x] = stage[x]
         /\ ncq'[q] = Tail(ncq[q]) /\ \A p \in Queues : p # q => ncq'[p] = ncq[p]
  BY <1>1, NcqCommon
<1>3. SameView /\ ViewKept /\ Tables' /\ Newest' /\ Older' /\ sent' = sent
  BY <1>1, <1>2, LocalView
<1>4. PICK s : s = ncq[q]
  OBVIOUS
<1>5. PICK t : t = Tail(s) /\ t = ncq'[q]
  BY <1>2, <1>4
<1>6. Listed(s, q, "ncq") /\ s # <<>> /\ \A p \in Queues : p = q
  BY <1>1, <1>2, <1>4 DEF Path, Serial
<1>7. s \in Seq(Cmd) /\ c = s[1]
  BY <1>2, <1>4, <1>6, Shorter DEF Listed
<1>8. \A i \in 1 .. Len(s) : cmd'[s[i]] = cmd[s[i]] /\ sent'[s[i]] = sent[s[i]]
  BY <1>2, <1>3
<1>9. AnsTrue(c)
  <2>1. 1 \in 1 .. Len(s)
    BY <1>6, <1>7, Shorter
  <2> QED BY <1>1, <1>4, <1>7, <2>1 DEF AnswerTrue
<1>10. Flight'
  <2>1. \A x \in Cmd : InFlight(x)' => InFlight(x) /\ cmd'[x] = cmd[x]
    BY <1>2 DEF InFlight
  <2>2. \A x \in Cmd : stage'[x] = "nsq" => stage[x] = "nsq"
    BY <1>2
  <2>3. ASSUME NEW x \in Cmd, stage'[x] = "nsq", cmd[x].op = "read", Shared(cmd[x].v)' PROVE Shared(cmd[x].v)
    <3>1. cmd[x] \in CmdType /\ cmd'[x] = cmd[x]
      BY <1>1, <1>2, <2>2, <2>3 DEF Path
    <3>2. PICK v \in Vblk : v = cmd[x].v /\ v = cmd'[x].v
      BY <3>1, Asks
    <3>3. Shared(v)'
      BY <2>3, <3>2
    <3>4. Shared(v)
      BY <1>3, <3>3 DEF SameView
    <3> QED BY <3>2, <3>4
  <2>4. ASSUME NEW x \in Cmd, InFlight(x)', cmd[x].op = "snapshot" PROVE FALSE
    <3>1. x = c
      BY <1>1, <1>2, <2>1, <2>4 DEF Flight, InFlight
    <3>2. stage'[c] = "hq"
      BY <1>2, <2>4, <3>1 DEF InFlight
    <3>3. IsRw(cmd'[c])
      BY <1>1, <3>2 DEF Path
    <3> QED BY <1>2, <2>4, <3>1, <3>3 DEF IsRw
  <2> QED BY <1>1, <2>1, <2>2, <2>3, <2>4, FlightLess
<1>11. AnswerTrue'
  <2> SUFFICES ASSUME NEW i \in 1 .. Len(t) PROVE AnsTrue(t[i])'
    BY <1>5, <1>6 DEF AnswerTrue
  <2>1. i + 1 \in 1 .. Len(s) /\ t[i] = s[i + 1]
    BY <1>5, <1>6, <1>7, Shorter
  <2>2. \A j \in 1 .. Len(s) : AnsTrue(s[j])'
    BY <1>1, <1>3, <1>4, <1>8, AnswersKept
  <2>3. PICK j \in 1 .. Len(s) : t[i] = s[j]
    BY <2>1
  <2> QED BY <2>2, <2>3
<1>12. \A x \in Cmd : x # c => slba'[x] = slba[x]
  BY <1>1, <1>2, NcqCache
<1>13. ASSUME NEW v \in Vblk, NEW p, NEW w, Learns(c, v, p, w) PROVE Hosted' /\ CacheTrue' /\ Ordered'
  <2>1. /\ IsRw(cmd[c]) /\ v = cmd[c].v /\ Answer(c).vld /\ p = Answer(c).cl /\ w = Answer(c).wr
        /\ \A i \in Holding(v)' : ways'[idx(v)][i].plba = p /\ ways'[idx(v)][i].wr = w
        /\ \A u \in Vblk : u # v => NoNews(u)
        /\ stage'[c] = "hq" => slba'[c] = p
    BY <1>13 DEF Learns
  <2>2. Truth(v, p, w) /\ (Modifies(c) => w)
    BY <1>9, <2>1 DEF AnsTrue, Modifies
  <2>3. Truth(v, p, w)'
    BY <1>3, <2>2 DEF ViewKept
  <2>4. Hosted'
    <3> SUFFICES ASSUME NEW x \in Cmd, stage'[x] = "hq" PROVE HostOK(x)'
      BY HostedIff
    <3>1. CASE x # c
      BY <1>1, <1>2, <1>3, <1>12, <3>1, HostKept
    <3>2. CASE x = c
      <4>1. slba'[c] = p /\ cmd'[c] = cmd[c] /\ v = cmd'[c].v /\ cmd'[c].off \in Offs
        BY <1>2, <2>1, <3>2, Asks
      <4>2. Modifies(c)' => w
        BY <2>2, <4>1 DEF Modifies
      <4> QED BY <2>3, <3>2, <4>1, <4>2 DEF HostOK, Modifies, Truth, Good
    <3> QED BY <3>1, <3>2
  <2>5. CacheTrue'
    <3> SUFFICES ASSUME NEW u \in Vblk, NEW i \in Holding(u)'
                 PROVE  Truth(u, ways[idx(u)][i].plba, ways[idx(u)][i].wr)'
      BY DEF CacheTrue
    <3>1. CASE u = v
      <4>1. ways'[idx(u)][i].plba = p /\ ways'[idx(u)][i].wr = w
        BY <2>1, <3>1
      <4> QED BY <2>3, <3>1, <4>1
    <3>2. CASE u # v
      BY <1>1, <1>3, <2>1, <3>2, NoNewsTrue, HoldingWay
    <3> QED BY <3>1, <3>2
  <2>6. Ordered'
    <3> SUFFICES ASSUME NEW u \in Vblk PROVE InOrder(t, u)'
      BY <1>5, <1>6 DEF Ordered
    <3>1. InOrder(s, u) /\ At(u)' = At(u)
      BY <1>1, <1>3, <1>4 DEF Ordered, SameView
    <3>2. CASE u = v
      <4>1. Says(s[1], v) /\ p = Answer(s[1]).cl
        BY <1>7, <2>1 DEF Says
      <4>2. ASSUME NEW x \in Cmd, stage'[x] = "hq", Modifies(x)', cmd'[x].v = v
            PROVE  (stage[x] = "hq" /\ Modifies(x) /\ cmd[x].v = v) \/ p = At(v)
        BY <1>2, <2>2, <4>2 DEF Modifies, Truth
      <4>3. InOrder(s, v) /\ At(v)' = At(v) /\ t = Tail(s) /\ s # <<>>
        BY <1>5, <1>6, <3>1, <3>2
      <4>4. \A i \in Holding(v)' : ways'[idx(v)][i].plba = p
        BY <2>1
      <4>5. InOrder(t, v)'
        BY <1>7, <1>8, <4>1, <4>2, <4>3, <4>4, OrderUpdate
      <4> QED BY <3>2, <4>5
    <3>3. CASE u # v
      <4>1. ~Says(s[1], u)
        BY <1>7, <2>1, <3>3 DEF Says
      <4>2. InOrder(t, u)
        BY <1>5, <1>6, <1>7, <3>1, <4>1, OrderTail
      <4>3. t \in Seq(Cmd) /\ \A i \in 1 .. Len(t) : cmd'[t[i]] = cmd[t[i]] /\ sent'[t[i]] = sent[t[i]]
        BY <1>2, <1>3, <1>5, <1>6, <1>7, Shorter
      <4>4. \A x \in Cmd : stage'[x] = "hq" /\ Modifies(x)' /\ cmd'[x].v = u =>
               stage[x] = "hq" /\ Modifies(x) /\ cmd[x].v = u
        BY <1>2, <2>1, <3>3 DEF Modifies
      <4> QED BY <2>1, <3>1, <3>3, <4>2, <4>3, <4>4, OrderQuiet
    <3> QED BY <3>2, <3>3
  <2> QED BY <2>4, <2>5, <2>6
<1>14. ASSUME \A u \in Vblk : NoNews(u) /\ ~Says(c, u), stage'[c] # "hq" PROVE Hosted' /\ CacheTrue' /\ Ordered'
  <2>1. CacheTrue'
    BY <1>1, <1>3, <1>14, CacheKept
  <2>2. Hosted'
    BY <1>1, <1>2, <1>3, <1>12, <1>14, HostedStays
  <2>3. Ordered'
    <3> SUFFICES ASSUME NEW u \in Vblk PROVE InOrder(t, u)'
      BY <1>5, <1>6 DEF Ordered
    <3>1. InOrder(s, u) /\ At(u)' = At(u) /\ ~Says(s[1], u)
      BY <1>1, <1>3, <1>4, <1>7, <1>14 DEF Ordered, SameView
    <3>2. InOrder(t, u)
      BY <1>5, <1>6, <1>7, <3>1, OrderTail
    <3>3. t \in Seq(Cmd) /\ \A i \in 1 .. Len(t) : cmd'[t[i]] = cmd[t[i]] /\ sent'[t[i]] = sent[t[i]]
      BY <1>2, <1>3, <1>5, <1>6, <1>7, Shorter
    <3>4. \A x \in Cmd : stage'[x] = "hq" /\ Modifies(x)' /\ cmd'[x].v = u =>
             stage[x] = "hq" /\ Modifies(x) /\ cmd[x].v = u
      BY <1>2, <1>14 DEF Modifies
    <3> QED BY <1>14, <3>1, <3>2, <3>3, <3>4, OrderQuiet
  <2> QED BY <2>1, <2>2, <2>3
<1>15. Hosted' /\ CacheTrue' /\ Ordered'
  BY <1>1, <1>2, <1>13, <1>14, NcqCache
<1> QED BY <1>3, <1>10, <1>11, <1>15 DEF Agreed

-----------------------------------------------------------------------------
(* The disk.                                                                *)

\* What is left of the truth when the disk performs c.
HqKeeps(c) ==
    /\ \A u \in Vblk : \A p, w : Truth(u, p, w) /\ (Modifies(c) /\ u = cmd[c].v => p = At(u)) => Truth(u, p, w)'
    /\ \A d \in Cmd : d # c /\ stage[d] = "hq" => HostOK(d)'

\* The map is as it was.
LEMMA HqView ==
    ASSUME Server, Tables, UNCHANGED allVars
    PROVE  /\ SameView /\ Tables' /\ sent' = sent
           /\ \A v \in Vblk : \A p \in Disk : Parked(p, v) => Parked(p, v)'
<1>1. SrvInv /\ UNCHANGED vars /\ sent' = sent /\ wq' = wq
  BY DEF Server, allVars, srvVars
<1>2. UNCHANGED <<root, l0, snaps, tx>>
  BY <1>1 DEF vars
<1>3. FileMove
  BY <1>1, StutterMove
<1>4. SameView
  BY <1>1, <1>2, <1>3, ViewStutter
<1>5. Tables'
  BY <1>1, <1>2 DEF Tables, TxCurrent, head, Ref
<1>6. \A v \in Vblk : \A p \in Disk : Parked(p, v) => Parked(p, v)'
  BY <1>4 DEF SameView, Parked
<1> QED BY <1>1, <1>4, <1>5, <1>6

\* A write goes where only the newest snapshot has its cluster.
LEMMA HqWrite ==
    ASSUME PathInv, NEW c \in Cmd, hq_done(c), Modifies(c)
    PROVE  Newest' /\ Older' /\ HqKeeps(c)
<1>1. /\ PathTypes /\ Path /\ Server /\ Data /\ Flight /\ Tables /\ Newest /\ Older /\ Hosted /\ FileInv
  BY DEF PathInv, PathTypes, Server, SrvInv
<1>2. /\ stage[c] = "hq" /\ UNCHANGED allVars /\ UNCHANGED <<cmd, slba, frozen>>
      /\ disk' = [disk EXCEPT ![slba[c]] = [disk[slba[c]] EXCEPT ![cmd[c].off] = Left(c)]]
      /\ last' = [last EXCEPT ![cmd[c].v] = [last[cmd[c].v] EXCEPT ![cmd[c].off] = Left(c)]]
  BY DEF hq_done, Served, Left, Modifies
<1>3. cmd[c] \in CmdType /\ slba[c] \in Disk
  BY <1>1, <1>2 DEF Path
<1>4. PICK v \in Vblk : v = cmd[c].v
  BY <1>3, Asks
<1>5. PICK o \in Offs : o = cmd[c].off
  BY <1>3, Asks
<1>6. PICK p \in Disk : p = slba[c] /\ p = At(v) /\ WrAt(v)
  BY <1>1, <1>2, <1>3, <1>4 DEF Hosted
<1>7. PICK x : x = Left(c)
  OBVIOUS
<1>8. /\ disk \in [Disk -> [Offs -> Value]] /\ last \in [Vblk -> [Offs -> Value]]
      /\ disk' = [disk EXCEPT ![p] = [disk[p] EXCEPT ![o] = x]]
      /\ last' = [last EXCEPT ![v] = [last[v] EXCEPT ![o] = x]]
  BY <1>1, <1>2, <1>4, <1>5, <1>6, <1>7 DEF Data
<1>9. /\ \A d \in Disk, b \in Offs : disk'[d][b] = IF d = p /\ b = o THEN x ELSE disk[d][b]
      /\ \A u \in Vblk, b \in Offs : last'[u][b] = IF u = v /\ b = o THEN x ELSE last[u][b]
  BY <1>8
<1>10. /\ SameView /\ \A u \in Vblk : \A d \in Disk : Parked(d, u) => Parked(d, u)'
  BY <1>1, <1>2, HqView
<1>11. /\ \A u \in Vblk : At(u)' = At(u) /\ (WrAt(u)' <=> WrAt(u)) /\ At(u) \in Disk
       /\ head' = head
       /\ \A k \in 1 .. head - 1, u \in Vblk : translate_read(k, u)'.off = translate_read(k, u).off
  BY <1>1, <1>10, AtType DEF SameView
<1>12. /\ \A u \in Vblk : At(u) = p => u = v
       /\ p # 0
       /\ \A u \in Vblk, k \in 1 .. head - 1 : translate_read(k, u).off # p
  BY <1>1, <1>6, AtOwn
<1>13. Newest'
  <2>1. \A b \in Offs : disk'[0][b] = 0
    BY <1>1, <1>9, <1>12, DiskNat DEF Newest
  <2>2. ASSUME NEW u \in Vblk, NEW b \in Offs PROVE disk'[At(u)][b] = last'[u][b]
    <3>1. At(u) \in Disk /\ (At(u) = p <=> u = v) /\ disk[At(u)][b] = last[u][b]
      BY <1>1, <1>6, <1>11, <1>12 DEF Newest
    <3> QED BY <1>9, <3>1
  <2> QED BY <1>11, <2>1, <2>2 DEF Newest
<1>14. Older'
  <2>1. ASSUME NEW k \in 1 .. head - 1, NEW u \in Vblk, NEW b \in Offs
        PROVE  disk'[translate_read(k, u).off][b] \in frozen[k][u][b]
    <3>1. k \in 1 .. head
      BY <1>1, RefType DEF FileInv, RefsTyped
    <3>2. translate_read(k, u).off \in Disk /\ translate_read(k, u).off # p
      BY <1>1, <1>12, <3>1, OlderDisk
    <3> QED BY <1>1, <1>9, <3>2 DEF Older
  <2> QED BY <1>1, <1>2, <1>11, <2>1 DEF Older
<1>15. ASSUME NEW u \in Vblk, NEW d, NEW w, Truth(u, d, w), u = v => d = p PROVE Truth(u, d, w)'
  <2>1. d \in Disk /\ Parked(d, u) /\ \A b \in Offs : disk[d][b] = last[u][b]
    BY <1>15 DEF Truth, Good
  <2>2. d = p => u = v
    BY <1>6, <2>1 DEF Parked
  <2>3. \A b \in Offs : disk'[d][b] = last'[u][b]
    BY <1>9, <1>15, <2>1, <2>2
  <2>4. Parked(d, u)'
    BY <1>10, <2>1
  <2>5. w => d = At(u)' /\ WrAt(u)'
    BY <1>11, <1>15 DEF Truth
  <2> QED BY <2>1, <2>3, <2>4, <2>5 DEF Truth, Good
<1>16. ASSUME NEW d \in Cmd, d # c, stage[d] = "hq" PROVE HostOK(d)'
  <2>1. PICK r \in CmdType : r = cmd[d] /\ r = cmd'[d]
    BY <1>1, <1>2, <1>16 DEF Path
  <2>2. PICK u \in Vblk : u = r.v
    BY Asks
  <2>3. PICK b \in Offs : b = r.off
    BY Asks
  <2>4. PICK e \in Disk : e = slba[d] /\ e = slba'[d]
    BY <1>1, <1>2, <1>16 DEF Path
  <2>5. /\ r.op \in {"write", "zeroes"} => e = At(u) /\ WrAt(u)
        /\ r.op = "read" => Parked(e, u) /\ disk[e][b] = last[u][b]
    BY <1>1, <1>16, <2>1, <2>2, <2>3, <2>4 DEF Hosted, Modifies
  <2>6. r.op = "read" => ~(u = v /\ b = o)
    <3>1. InFlight(c) /\ InFlight(d)
      BY <1>2, <1>16 DEF InFlight
    <3>2. ~Overlap(cmd[c], cmd[d])
      BY <1>1, <1>16, <3>1 DEF Flight
    <3> QED BY <1>4, <1>5, <2>1, <2>2, <2>3, <3>2 DEF Overlap, IsRw, Modifies
  <2>7. r.op = "read" => disk'[e][b] = last'[u][b] /\ Parked(e, u)'
    <3> SUFFICES ASSUME r.op = "read" PROVE disk'[e][b] = last'[u][b] /\ Parked(e, u)'
      OBVIOUS
    <3>1. e = p => u = v
      BY <1>6, <2>5 DEF Parked
    <3>2. disk'[e][b] = disk[e][b] /\ last'[u][b] = last[u][b]
      BY <1>9, <2>6, <3>1
    <3> QED BY <1>10, <2>5, <3>2
  <2>8. r.op \in {"write", "zeroes"} => e = At(u)' /\ WrAt(u)'
    BY <1>11, <2>5
  <2> QED BY <2>1, <2>2, <2>3, <2>4, <2>7, <2>8 DEF HostOK, Modifies
<1> QED BY <1>4, <1>6, <1>13, <1>14, <1>15, <1>16 DEF HqKeeps

\* A read changes nothing.
LEMMA HqRead ==
    ASSUME PathInv, NEW c \in Cmd, hq_done(c), ~Modifies(c)
    PROVE  Newest' /\ Older' /\ HqKeeps(c)
<1>1. Path /\ Server /\ Tables /\ Newest /\ Older /\ Hosted
  BY DEF PathInv, PathTypes
<1>2. stage[c] = "hq" /\ IsRw(cmd[c])
  BY <1>1 DEF Path, hq_done
<1>3. cmd[c].op = "read"
  BY <1>2 DEF IsRw, Modifies
<1>4. UNCHANGED allVars /\ UNCHANGED <<cmd, slba, frozen, disk, last>>
  BY <1>3 DEF hq_done, Served
<1>5. ViewKept /\ Newest' /\ Older'
  BY <1>1, <1>4, LocalView
<1>6. \A d \in Cmd : stage[d] = "hq" => HostOK(d)'
  BY <1>1, <1>4, <1>5, HostKept
<1> QED BY <1>5, <1>6 DEF HqKeeps, ViewKept

\* The disk performs a command.
LEMMA HqAgreed ==
    ASSUME Serial, PathInv, NEW c \in Cmd, hq_done(c)
    PROVE  Agreed'
<1>1. /\ PathTypes /\ Path /\ Server /\ Flight /\ Tables /\ Hosted /\ CacheTrue /\ AnswerTrue /\ Ordered
  BY DEF PathInv, PathTypes
<1>2. /\ stage[c] = "hq" /\ UNCHANGED allVars /\ UNCHANGED <<ways, cmd, slba, ncq>>
      /\ stage' = [stage EXCEPT ![c] = "done"]
  BY DEF hq_done, cacheVars
<1>3. stage'[c] = "done" /\ \A x \in Cmd : x # c => stage'[x] = stage[x]
  BY <1>1, <1>2 DEF Path
<1>4. Newest' /\ Older' /\ HqKeeps(c)
  BY HqWrite, HqRead
<1>5. SameView /\ Tables' /\ sent' = sent
  BY <1>1, <1>2, HqView
<1>6. \A u \in Vblk : NoNews(u) /\ Holding(u)' = Holding(u)
  BY <1>2, SameNews
<1>7. Flight'
  <2>1. \A x \in Cmd : InFlight(x)' => InFlight(x) /\ cmd'[x] = cmd[x]
    BY <1>2, <1>3 DEF InFlight
  <2>2. \A x \in Cmd : stage'[x] = "nsq" => stage[x] = "nsq"
    BY <1>3
  <2>3. ASSUME NEW x \in Cmd, stage'[x] = "nsq", cmd[x].op = "read", Shared(cmd[x].v)' PROVE Shared(cmd[x].v)
    <3>1. cmd[x] \in CmdType /\ cmd'[x] = cmd[x]
      BY <1>1, <1>2, <2>2, <2>3 DEF Path
    <3>2. PICK v \in Vblk : v = cmd[x].v /\ v = cmd'[x].v
      BY <3>1, Asks
    <3>3. Shared(v)'
      BY <2>3, <3>2
    <3>4. Shared(v)
      BY <1>5, <3>3 DEF SameView
    <3> QED BY <3>2, <3>4
  <2>4. \A l \in Line, i \in Way : ways'[l][i].wr => ways[l][i].wr
    BY <1>2
  <2> QED BY <1>1, <2>1, <2>2, <2>3, <2>4, FlightLess
<1>8. Hosted'
  BY <1>3, <1>4, HostedIff DEF HqKeeps
\* Nothing cached or answered about the cluster written is stale.
<1>9. ASSUME NEW u \in Vblk, NEW q \in Queues, Modifies(c), u = cmd[c].v
      PROVE  ~StaleWay(u) /\ ~StaleIn(ncq[q], u)
  BY <1>1, <1>2, <1>9 DEF Ordered, InOrder
<1>10. CacheTrue'
  <2> SUFFICES ASSUME NEW u \in Vblk, NEW i \in Holding(u)'
               PROVE  Truth(u, ways[idx(u)][i].plba, ways[idx(u)][i].wr)'
    BY DEF CacheTrue
  <2>1. i \in Holding(u)
    BY <1>6
  <2>2. PICK p : p = ways[idx(u)][i].plba /\ p = ways'[idx(u)][i].plba
    BY <1>2
  <2>3. PICK w : w = ways[idx(u)][i].wr /\ w = ways'[idx(u)][i].wr
    BY <1>2
  <2>4. Truth(u, p, w)
    BY <1>1, <2>1, <2>2, <2>3 DEF CacheTrue
  <2>5. Modifies(c) /\ u = cmd[c].v => p = At(u)
    <3>1. PICK q \in Queues : TRUE
      BY DEF Serial
    <3> QED BY <1>9, <2>1, <2>2, <3>1 DEF StaleWay
  <2>6. Truth(u, p, w)'
    BY <1>4, <2>4, <2>5 DEF HqKeeps
  <2> QED BY <2>2, <2>3, <2>6
<1>11. AnswerTrue'
  <2> SUFFICES ASSUME NEW q \in Queues, NEW i \in 1 .. Len(ncq'[q]) PROVE AnsTrue(ncq[q][i])'
    BY DEF AnswerTrue
  <2>1. PICK s : s = ncq[q] /\ s = ncq'[q]
    BY <1>2
  <2>2. Listed(s, q, "ncq")
    BY <1>1, <2>1 DEF Path
  <2>3. PICK d \in Cmd : d = s[i] /\ stage[d] = "ncq"
    BY <2>1, <2>2 DEF Listed
  <2>4. PICK r \in CmdType : r = cmd[d] /\ r = cmd'[d]
    BY <1>1, <1>2, <2>3 DEF Path
  <2>5. PICK a : a = Answer(d) /\ a = Answer(d)'
    BY <1>5 DEF Answer
  <2>6. PICK v \in Vblk : v = r.v
    BY Asks
  <2>7. AnsTrue(d)
    BY <1>1, <2>1, <2>3 DEF AnswerTrue
  <2>8. IsRw(r) => /\ a.vld => Truth(v, a.cl, a.wr)
                   /\ r.op = "read" => a.vld
                   /\ r.op # "read" /\ a.vld => a.wr
    BY <2>4, <2>5, <2>6, <2>7 DEF AnsTrue
  <2>9. ASSUME IsRw(r), a.vld, Modifies(c), v = cmd[c].v PROVE a.cl = At(v)
    <3>1. ~StaleIn(s, v)
      BY <1>9, <2>1, <2>9
    <3>2. ~Stale(d, v)
      BY <2>1, <2>3, <3>1 DEF StaleIn
    <3> QED BY <2>4, <2>5, <2>6, <2>9, <3>2 DEF Stale, Says
  <2>10. IsRw(r) /\ a.vld => Truth(v, a.cl, a.wr)'
    <3> SUFFICES ASSUME IsRw(r), a.vld PROVE Truth(v, a.cl, a.wr)'
      OBVIOUS
    <3>1. PICK p : p = a.cl
      OBVIOUS
    <3>2. PICK w : w = a.wr
      OBVIOUS
    <3>3. Truth(v, p, w) /\ (Modifies(c) /\ v = cmd[c].v => p = At(v))
      BY <2>8, <2>9, <3>1, <3>2
    <3>4. Truth(v, p, w)'
      BY <1>4, <3>3 DEF HqKeeps
    <3> QED BY <3>1, <3>2, <3>4
  <2>11. AnsTrue(d)'
    BY <2>4, <2>5, <2>6, <2>8, <2>10 DEF AnsTrue, IsRw
  <2> QED BY <2>1, <2>3, <2>11
<1>12. Ordered'
  <2> SUFFICES ASSUME NEW q \in Queues, NEW v \in Vblk PROVE InOrder(ncq[q], v)'
    BY DEF Ordered
  <2>1. PICK s : s = ncq[q] /\ s = ncq'[q]
    BY <1>2
  <2>2. InOrder(s, v) /\ Listed(s, q, "ncq") /\ At(v)' = At(v) /\ NoNews(v)
    BY <1>1, <1>5, <1>6, <2>1 DEF Ordered, Path, SameView
  <2>3. s \in Seq(Cmd) /\ \A i \in 1 .. Len(s) : cmd'[s[i]] = cmd[s[i]] /\ sent'[s[i]] = sent[s[i]]
    BY <1>2, <1>5, <2>2 DEF Listed
  <2>4. \A x \in Cmd : stage'[x] = "hq" /\ Modifies(x)' /\ cmd'[x].v = v =>
           stage[x] = "hq" /\ Modifies(x) /\ cmd[x].v = v
    BY <1>2, <1>3 DEF Modifies
  <2>5. InOrder(s, v)'
    BY <2>2, <2>3, <2>4, OrderQuiet
  <2> QED BY <2>1, <2>5
<1> QED BY <1>4, <1>5, <1>7, <1>8, <1>10, <1>11, <1>12 DEF Agreed

-----------------------------------------------------------------------------
(* The end of an allocation.                                                *)

\* The answer to c is the last one sent.
LEMMA AnswerAppend ==
    ASSUME SrvInv, NEW c \in Cmd, NEW a \in ReplyType, sent'[c] = Append(sent[c], a)
    PROVE  Answer(c)' = a
<1>1. PICK s \in Seq(ReplyType) : s = sent[c]
  BY DEF SrvInv, SrvTypes
<1>2. PICK t : t = Append(s, a) /\ t = sent'[c]
  BY <1>1
<1>3. t[Len(t)] = a
  BY <1>1, <1>2
<1> QED BY <1>2, <1>3 DEF Answer

\* The cluster has moved: what was said before is stale, and what is said
\* now comes after it.
LEMMA OrderCommit ==
    ASSUME NEW v \in Vblk, NEW s \in Seq(Cmd), NEW z \in Seq(Cmd), NEW t, t = s \o z, Len(z) >= 1,
           \A i \in 1 .. Len(s) : ~Fresh(s[i], v)',
           \A i \in 1 .. Len(z) : Fresh(z[i], v)' /\ Answer(z[i])'.wr,
           \A i \in Holding(v)' : ways'[idx(v)][i].plba # At(v)',
           \A c \in Cmd : stage'[c] = "hq" /\ Modifies(c)' => cmd'[c].v # v
    PROVE  InOrder(t, v)'
<1>1. PICK n \in Nat : n = Len(s)
  OBVIOUS
<1>2. PICK m \in Nat : m = Len(z) /\ m >= 1
  OBVIOUS
<1>3. Len(t) = n + m /\ (\A i \in 1 .. n : t[i] = s[i]) /\ \A i \in 1 .. m : t[n + i] = z[i]
  BY <1>1, <1>2, Joined
<1>4. \A i \in 1 .. n + m : i \in 1 .. n \/ \E j \in 1 .. m : i = n + j /\ t[i] = z[j]
  BY <1>1, <1>2, <1>3, Joined
<1>5. \A i \in 1 .. n + m : Stale(t[i], v)' => i \in 1 .. n
  <2> SUFFICES ASSUME NEW i \in 1 .. n + m, NEW j \in 1 .. m, t[i] = z[j] PROVE ~Stale(t[i], v)'
    BY <1>4
  <2>1. Fresh(z[j], v)'
    BY <1>2
  <2>2. Fresh(t[i], v)'
    BY <2>1
  <2> QED BY <2>2 DEF Stale, Fresh
<1>6. \A i \in 1 .. n + m : Fresh(t[i], v)' => i \notin 1 .. n
  BY <1>1, <1>3
<1>7. ASSUME NEW i \in 1 .. Len(t), NEW j \in 1 .. Len(t), Stale(t[i], v)', Fresh(t[j], v)' PROVE i < j
  <2>1. i \in 1 .. n + m /\ j \in 1 .. n + m
    BY <1>3
  <2>2. i \in 1 .. n /\ j \notin 1 .. n
    BY <1>5, <1>6, <1>7, <2>1
  <2> QED BY <2>1, <2>2
<1>8. FreshIn(t, v)'
  <2>1. 1 \in 1 .. m /\ n + 1 \in 1 .. n + m
    BY <1>2
  <2>2. t[n + 1] = z[1] /\ Fresh(z[1], v)' /\ Answer(z[1])'.wr
    BY <1>2, <1>3, <2>1
  <2>3. PICK j \in 1 .. n + m : t[j] = z[1]
    BY <2>1, <2>2
  <2>4. Fresh(t[j], v)' /\ Answer(t[j])'.wr
    BY <2>2, <2>3
  <2> QED BY <1>3, <2>4 DEF FreshIn
<1> QED BY <1>7, <1>8 DEF InOrder

\* What the commands that waited are told.
LEMMA DoneAnswers ==
    ASSUME Server, Path, Tables, NEW io \in ring, Finishing(io, TRUE), CommitView(io.t)
    PROVE  /\ \A x \in Replied : /\ x \in Cmd /\ stage[x] = "srv" /\ cmd[x].op = "write" /\ cmd[x].v = io.t.v
                                 /\ Answer(x)'.cl = io.t.out /\ Answer(x)'.vld /\ Answer(x)'.wr
           /\ \A x \in Cmd : x \notin Replied => sent'[x] = sent[x]
           /\ io.tag \in Replied
<1>1. SrvInv /\ IsAlloc(io) /\ io.t \in tx
  BY DEF Server, Finishing
<1>2. Replied = {c \in Cmd : c = io.tag \/ \E d \in Behind(io) : d.c = c}
  BY <1>1, DoneReplied
<1>3. Waits(io.tag, io.t.v) /\ \A d \in wq : Waits(d.c, d.v)
  BY <1>1 DEF Server
<1>4. \A x \in Replied : x \in Cmd /\ stage[x] = "srv" /\ cmd[x].op = "write" /\ cmd[x].v = io.t.v
  BY <1>2, <1>3 DEF Waits, Behind
<1>5. io.t.out \in Nat /\ io.t.out # 0 /\ TRUE \in BOOLEAN
  BY DEF CommitView
<1>6. Paddr(TRUE, io.t.out) \in ReplyType /\ Paddr(TRUE, io.t.out).cl = io.t.out
      /\ Paddr(TRUE, io.t.out).vld /\ Paddr(TRUE, io.t.out).wr
  BY <1>5, Replies DEF Paddr, Reply
<1>7. Entry_(TRUE, encode(io.t.out, TRUE)) = Paddr(TRUE, io.t.out)
  BY <1>5 DEF Entry_, Paddr, Reply, encode, valid
<1>8. ASSUME NEW x \in Replied PROVE sent'[x] = Append(sent[x], Paddr(TRUE, io.t.out))
  <2>1. CASE x = io.tag
    BY <1>4, <2>1 DEF Finishing
  <2>2. CASE x # io.tag
    <3>1. \E d \in Behind(io) : d.c = x
      BY <1>2, <2>2
    <3>2. PICK d \in Behind(io) : d.c = x /\ sent'[x] = Append(sent[x], Entry_(TRUE, l0'[d.m][l0_off(d.v)]))
      BY <1>4, <2>2, <3>1 DEF Finishing
    <3>3. d \in wq /\ d.v = io.t.v
      BY DEF Behind
    <3>4. Ref(head, l1_off(io.t.v)) = encode(d.m, TRUE)
      BY <3>3 DEF Tables
    <3>5. l0'[d.m][l0_off(d.v)] = encode(io.t.out, TRUE)
      BY <3>3, <3>4 DEF CommitView
    <3> QED BY <1>7, <3>2, <3>5
  <2> QED BY <2>1, <2>2
<1>9. ASSUME NEW x \in Replied PROVE Answer(x)'.cl = io.t.out /\ Answer(x)'.vld /\ Answer(x)'.wr
  <2>1. PICK a \in ReplyType : a = Paddr(TRUE, io.t.out)
    BY <1>6
  <2>2. PICK y \in Cmd : y = x
    BY <1>4
  <2>3. sent'[y] = Append(sent[y], a)
    BY <1>8, <2>1, <2>2
  <2>4. Answer(y)' = a
    BY <1>1, <2>3, AnswerAppend
  <2> QED BY <1>6, <2>1, <2>2, <2>4
<1>10. \A x \in Cmd : x \notin Replied => sent'[x] = sent[x]
  BY <1>2 DEF Finishing
<1>11. io.tag \in Replied
  BY <1>2, <1>3 DEF Waits
<1> QED BY <1>4, <1>9, <1>10, <1>11

\* An allocation completes.
LEMMA DoneAgreed ==
    ASSUME Serial, PathInv, PathTypes', NEW io \in ring, srv_done(io)
    PROVE  Agreed'
<1>1. /\ PathTypes /\ Path /\ Server /\ Server' /\ Data /\ Flight /\ Tables /\ Newest /\ Older /\ Hosted
      /\ CacheTrue /\ AnswerTrue /\ Ordered /\ SrvInv /\ Waiting /\ TxCurrent
  BY DEF PathInv, PathTypes, Server, Tables
<1>2. /\ AllocDone(io, TRUE) /\ disk' = [disk EXCEPT ![io.t.out] = Allocated(io.t)]
  <2>1. PICK ok \in BOOLEAN :
           /\ AllocDone(io, ok)
           /\ disk' = IF ok THEN [disk EXCEPT ![io.t.out] = Allocated(io.t)] ELSE disk
    BY DEF srv_done
  <2>2. ok = TRUE
    BY <2>1 DEF AllocDone, Serial
  <2> QED BY <2>1, <2>2
<1>3. /\ Move(0) /\ Respond(io.tag) /\ UNCHANGED <<ways, cmd, slba, nsq, last, frozen>>
  BY DEF srv_done, cacheVars
<1>4. Finishing(io, TRUE)
  BY <1>1, <1>2, DoneShape
<1>5. PICK t \in tx : t = io.t /\ tx_write_commit(t)
  BY <1>4 DEF Finishing
<1>6. CommitView(t)
  BY <1>1, <1>5, ViewCommit
<1>7. /\ TruthKept /\ Newest' /\ Older' /\ Truth(t.v, t.out, TRUE)'
      /\ \A v \in Vblk : \A p \in Disk : Parked(p, v) => p # t.out
  BY <1>1, <1>2, <1>3, <1>5, <1>6, TruthCommit
<1>8. ViewKept
  BY <1>1, <1>2, <1>3, <1>5, <1>6, KeptCommit
<1>9. PICK v \in Vblk : v = t.v
  BY <1>6 DEF CommitView
<1>10. PICK o : o = t.out
  OBVIOUS
<1>11. /\ \A x \in Replied : /\ x \in Cmd /\ stage[x] = "srv" /\ cmd[x].op = "write" /\ cmd[x].v = v
                             /\ Answer(x)'.cl = o /\ Answer(x)'.vld /\ Answer(x)'.wr
       /\ \A x \in Cmd : x \notin Replied => sent'[x] = sent[x]
       /\ io.tag \in Replied
  BY <1>1, <1>4, <1>5, <1>6, <1>9, <1>10, DoneAnswers
<1>12. /\ At(v)' = o /\ ~WrAt(v) /\ WrAt(v)' /\ Truth(v, o, TRUE)'
       /\ \A u \in Vblk : u # v => At(u)' = At(u)
       /\ \A u \in Vblk : Shared(u)' => Shared(u)
  BY <1>6, <1>7, <1>9, <1>10 DEF CommitView
<1>13. \A u \in Vblk : \A p, w : Truth(u, p, w) => p # o
  BY <1>7, <1>10 DEF Truth, Good
<1>14. \A x \in Cmd : stage'[x] = IF x \in Replied THEN "ncq" ELSE stage[x]
  BY <1>3, Values DEF Move
<1>15. \A u \in Vblk : NoNews(u) /\ Holding(u)' = Holding(u)
  BY <1>3, SameNews
<1>16. Flight'
  <2>1. \A x \in Cmd : InFlight(x)' => InFlight(x) /\ cmd'[x] = cmd[x]
    BY <1>3, <1>11, <1>14 DEF InFlight
  <2>2. \A x \in Cmd : stage'[x] = "nsq" => stage[x] = "nsq"
    BY <1>14
  <2>3. ASSUME NEW x \in Cmd, stage'[x] = "nsq", cmd[x].op = "read", Shared(cmd[x].v)' PROVE Shared(cmd[x].v)
    <3>1. cmd[x] \in CmdType /\ cmd'[x] = cmd[x]
      BY <1>1, <1>3, <2>2, <2>3 DEF Path
    <3>2. PICK u \in Vblk : u = cmd[x].v /\ u = cmd'[x].v
      BY <3>1, Asks
    <3>3. Shared(u)'
      BY <2>3, <3>2
    <3>4. Shared(u)
      BY <1>12, <3>3
    <3> QED BY <3>2, <3>4
  <2>4. \A l \in Line, i \in Way : ways'[l][i].wr => ways[l][i].wr
    BY <1>3
  <2> QED BY <1>1, <2>1, <2>2, <2>3, <2>4, FlightLess
<1>17. Tables'
  <2>1. TxCurrent' /\ head' = head /\ \A i \in L1Idx : Ref(head, i)' = Ref(head, i)
    BY <1>6 DEF CommitView
  <2>2. wq' \subseteq wq
    BY <1>4 DEF Finishing
  <2>3. ASSUME NEW d \in wq' PROVE d.m # 0 /\ Ref(head, l1_off(d.v))' = encode(d.m, TRUE)
    <3>1. d \in wq /\ d.v \in Vblk
      BY <1>1, <2>2 DEF SrvInv, SrvTypes, WorkType
    <3>2. PICK i \in L1Idx : i = l1_off(d.v)
      BY <3>1, Indices
    <3> QED BY <1>1, <2>1, <3>1, <3>2 DEF Tables
  <2> QED BY <2>1, <2>3 DEF Tables
<1>18. Hosted'
  BY <1>1, <1>3, <1>8, <1>14, HostedStays
<1>19. CacheTrue'
  BY <1>1, <1>8, <1>15, CacheKept
<1>20. PICK q \in Queues : Queues = {q}
  BY DEF Serial
<1>21. PICK s : s = ncq[q]
  OBVIOUS
<1>22. PICK z : /\ Adds(ncq[q], ncq'[q], z, q)
                /\ io.tag \in Replied /\ cmd[io.tag].q = q => Len(z) >= 1 /\ z[1] = io.tag
  BY <1>3, Responds
<1>23. PICK ts : ts = ncq'[q]
  OBVIOUS
<1>24. Listed(s, q, "ncq")
  BY <1>1, <1>21 DEF Path
<1>25. /\ s \in Seq(Cmd) /\ z \in Seq(Cmd) /\ ts = s \o z
       /\ \A i \in 1 .. Len(s) : s[i] \in Cmd /\ stage[s[i]] = "ncq"
       /\ \A i \in 1 .. Len(z) : z[i] \in Replied
  BY <1>21, <1>22, <1>23, <1>24 DEF Adds, Listed
<1>26. Len(z) >= 1
  <2>1. cmd[io.tag] \in CmdType
    BY <1>1, <1>11 DEF Path
  <2>2. cmd[io.tag].q = q
    BY <1>20, <2>1, Asks
  <2> QED BY <1>11, <1>22, <2>2
<1>27. \A i \in 1 .. Len(s) : s[i] \notin Replied /\ cmd'[s[i]] = cmd[s[i]] /\ sent'[s[i]] = sent[s[i]]
  BY <1>3, <1>11, <1>25
<1>28. \A i \in 1 .. Len(s) : AnsTrue(s[i])'
  BY <1>1, <1>8, <1>21, <1>27, AnswersKept
<1>29. \A i \in 1 .. Len(ts) : (i \in 1 .. Len(s) /\ ts[i] = s[i]) \/ \E j \in 1 .. Len(z) : ts[i] = z[j]
  BY <1>25, Joined
<1>30. AnswerTrue'
  <2> SUFFICES ASSUME NEW i \in 1 .. Len(ts) PROVE AnsTrue(ts[i])'
    BY <1>20, <1>23 DEF AnswerTrue
  <2>1. CASE i \in 1 .. Len(s) /\ ts[i] = s[i]
    BY <1>28, <2>1
  <2>2. ASSUME NEW j \in 1 .. Len(z), ts[i] = z[j] PROVE AnsTrue(ts[i])'
    <3>1. PICK x \in Cmd : x = z[j] /\ x \in Replied
      BY <1>11, <1>25
    <3>2. /\ cmd'[x].op = "write" /\ cmd'[x].v = v
          /\ Answer(x)'.cl = o /\ Answer(x)'.vld /\ Answer(x)'.wr
      BY <1>3, <1>11, <3>1
    <3>4. AnsTrue(x)'
      BY <1>12, <3>2 DEF AnsTrue, Truth
    <3> QED BY <2>2, <3>1, <3>4
  <2> QED BY <1>29, <2>1, <2>2
<1>31. Ordered'
  <2> SUFFICES ASSUME NEW u \in Vblk PROVE InOrder(ts, u)'
    BY <1>20, <1>23 DEF Ordered
  <2>1. CASE u # v
    <3>1. InOrder(s, u) /\ At(u)' = At(u) /\ NoNews(u)
      BY <1>1, <1>12, <1>15, <1>21, <2>1 DEF Ordered
    <3>2. \A x \in Cmd : stage'[x] = "hq" /\ Modifies(x)' /\ cmd'[x].v = u =>
             stage[x] = "hq" /\ Modifies(x) /\ cmd[x].v = u
      BY <1>3, <1>14 DEF Modifies
    <3>3. InOrder(s, u)'
      BY <1>25, <1>27, <3>1, <3>2, OrderQuiet
    <3>4. ASSUME NEW i \in 1 .. Len(z) PROVE ~Stale(z[i], u)'
      <4>1. PICK x \in Cmd : x = z[i] /\ x \in Replied
        BY <1>11, <1>25
      <4>2. cmd'[x].v # u
        BY <1>3, <1>11, <2>1, <4>1
      <4>3. ~Stale(x, u)'
        BY <4>2 DEF Stale, Says
      <4> QED BY <4>1, <4>3
    <3> QED BY <1>25, <3>3, <3>4, OrderMore
  <2>2. CASE u = v
    <3>1. ASSUME NEW i \in 1 .. Len(s) PROVE ~Fresh(s[i], v)'
      <4>1. PICK x \in Cmd : x = s[i]
        BY <1>25
      <4>2. cmd'[x] = cmd[x] /\ Answer(x)' = Answer(x) /\ AnsTrue(x)
        BY <1>1, <1>21, <1>27, <4>1 DEF Answer, AnswerTrue
      <4>3. ASSUME Says(x, v)' PROVE Answer(x)'.cl # o
        <5>1. IsRw(cmd[x]) /\ cmd[x].v = v /\ Answer(x).vld
          BY <4>2, <4>3 DEF Says, IsRw
        <5>2. Truth(v, Answer(x).cl, Answer(x).wr)
          BY <4>2, <5>1 DEF AnsTrue
        <5> QED BY <1>13, <4>2, <5>2
      <4>4. ~Fresh(x, v)'
        BY <1>12, <4>3 DEF Fresh
      <4> QED BY <4>1, <4>4
    <3>2. ASSUME NEW i \in 1 .. Len(z) PROVE Fresh(z[i], v)' /\ Answer(z[i])'.wr
      <4>1. PICK x \in Cmd : x = z[i] /\ x \in Replied
        BY <1>11, <1>25
      <4>2. cmd'[x].op = "write" /\ cmd'[x].v = v /\ Answer(x)'.cl = At(v)' /\ Answer(x)'.vld /\ Answer(x)'.wr
        BY <1>3, <1>11, <1>12, <4>1
      <4>3. Fresh(x, v)'
        BY <4>2 DEF Fresh, Says, IsRw
      <4> QED BY <4>1, <4>2, <4>3
    <3>3. \A i \in Holding(v)' : ways'[idx(v)][i].plba # At(v)'
      BY <1>1, <1>3, <1>12, <1>13, <1>15 DEF CacheTrue
    <3>4. \A x \in Cmd : stage'[x] = "hq" /\ Modifies(x)' => cmd'[x].v # v
      BY <1>1, <1>3, <1>12, <1>14 DEF Hosted, Modifies
    <3>5. InOrder(ts, v)'
      BY <1>25, <1>26, <3>1, <3>2, <3>3, <3>4, OrderCommit
    <3> QED BY <2>2, <3>5
  <2> QED BY <2>1, <2>2
<1> QED BY <1>7, <1>16, <1>17, <1>18, <1>19, <1>30, <1>31 DEF Agreed

-----------------------------------------------------------------------------
(* A command is taken by the server.                                        *)

\* A leaf table of its own leaves allocations and continuations current.
LEMMA PrepTables ==
    ASSUME SrvInv, Tables, FileMove, NEW v \in Vblk, OwnL0(v), KeepsList
    PROVE  /\ \A t \in tx : t.sn = head' /\ needs_alloc(l0'[t.m][l0_off(t.v)])
           /\ \A d \in wq : d.m # 0 /\ Ref(head, l1_off(d.v))' = encode(d.m, TRUE)
<1>1. TypeOK /\ XcowInv /\ RefsTyped /\ head \in Nat /\ head \in 1 .. head /\ head' = head
  <2>1. TypeOK /\ XcowInv /\ RefsTyped
    BY RefType DEF SrvInv, FileInv
  <2>2. head \in Nat /\ head >= 1
    BY <2>1 DEF RefsTyped
  <2>3. head \in 1 .. head
    BY <2>2
  <2>4. head' = head
    BY DEF KeepsList, head
  <2> QED BY <2>1, <2>2, <2>3, <2>4
<1>2. RefStep(l1_off(v))
  BY <1>1, OwnStep
<1>3. ASSUME NEW t \in tx PROVE t.sn = head' /\ needs_alloc(l0'[t.m][l0_off(t.v)])
  BY <1>1, PrepCurrent DEF Tables, TxCurrent
<1>4. ASSUME NEW d \in wq PROVE d.m # 0 /\ Ref(head, l1_off(d.v))' = encode(d.m, TRUE)
  <2>1. d.v \in Vblk /\ d.m # 0 /\ Ref(head, l1_off(d.v)) = encode(d.m, TRUE)
    BY DEF SrvInv, SrvTypes, WorkType, Tables
  <2>2. PICK i \in L1Idx : i = l1_off(d.v)
    BY <2>1, Indices
  <2>3. valid(Ref(head, i)) /\ Ref(head, i).w
    BY <2>1, <2>2 DEF valid, encode
  <2>4. Ref(head, i)' = Ref(head, i)
    BY <1>1, <1>2, <2>3 DEF RefStep
  <2> QED BY <2>1, <2>2, <2>4
<1> QED BY <1>3, <1>4

\* The answer a says of what r asks where the newest snapshot has it.
Told(r, a) ==
    IsRw(r) => /\ a.vld => a.cl = At(r.v) /\ (a.wr => WrAt(r.v))
               /\ r.op = "read" => a.vld
               /\ r.op # "read" /\ a.vld => a.wr

\* The server takes c and no translation changes.
Quiet(c, r) ==
    /\ SameView /\ Tables' /\ Len(snaps') = Len(snaps)
    /\ sent' = sent \/ \E a : Prompt(c, a) /\ Told(r, a)

\* The server takes c, which asks for a snapshot.
Snapped(c, r) ==
    /\ r.op = "snapshot" /\ snap_create
    /\ Prompt(c, Plain(TRUE))

\* A refused command learns nothing.
LEMMA Refuses ==
    ASSUME NEW c, NEW r, r.op # "read", Send(c, Plain(FALSE)), UNCHANGED <<wq, sq, ring, tx>>
    PROVE  \E a : Prompt(c, a) /\ Told(r, a)
<1>1. PICK a \in ReplyType : a = Plain(FALSE)
  BY Replies
<1>2. ~a.vld /\ ~a.fwd /\ a.cl = 0
  BY <1>1 DEF Plain, Reply
<1>3. Prompt(c, a)
  BY <1>1, <1>2 DEF Prompt, Send
<1>4. Told(r, a)
  BY <1>2 DEF Told
<1> QED BY <1>3, <1>4

\* A step of the server that leaves the tables alone.
LEMMA StillTables ==
    ASSUME Tables, UNCHANGED <<root, l0, snaps, tx, wq>>
    PROVE  Tables'
  BY DEF Tables, TxCurrent, head, Ref

\* Every handler of the server does one or the other.
LEMMA TakeQuiet ==
    ASSUME Server, Tables, NEW c \in Cmd, NEW r \in CmdType, r.op = "read" => ~Shared(r.v),
           Submit(c, Request(r)) \/ WriteZeroes(c, Request(r))
    PROVE  Quiet(c, r) \/ Snapped(c, r)
<1>1. PICK rq \in Requests : rq = Request(r)
  BY Asks
<1>2. PICK v \in Vblk : v = r.v
  BY Asks
<1>3. rq.op = r.op /\ rq.op \in {"read", "write", "zeroes", "snapshot"}
  BY <1>1, Asks
<1>4. rq.op # "snapshot" => rq.blks = <<v>> /\ Len(rq.blks) = 1 /\ rq.blks[1] = v
  <2>1. Len(<<v>>) = 1 /\ <<v>>[1] = v
    OBVIOUS
  <2>2. rq.op # "snapshot" => rq.blks = <<v>>
    BY <1>1, <1>2, Asks
  <2> QED BY <2>1, <2>2, Zenon
<1>5. SrvInv /\ TypeOK /\ Waiting /\ FileMove
  BY TakeShape DEF Server, SrvInv, FileInv, Taking
<1>6. ASSUME UNCHANGED vars, wq' = wq PROVE SameView /\ Tables' /\ Len(snaps') = Len(snaps) /\ tx' = tx
  <2>1. UNCHANGED <<root, l0, snaps, tx>>
    BY <1>6 DEF vars
  <2> QED BY <1>5, <1>6, <2>1, ViewStutter, StillTables
<1>7. ASSUME tx_write_prep(v)
      PROVE  /\ OwnL0(v) /\ KeepsList /\ snaps' = snaps /\ tx' = tx
             /\ SameView /\ Ref(head, l1_off(v))' = encode(NewTable(v), TRUE) /\ NewTable(v) # 0
             /\ translate_read(head, v)' = NewEntry(v) /\ TxCurrent'
  <2>1. OwnL0(v) /\ KeepsList /\ snaps' = snaps /\ tx' = tx
    BY <1>5, <1>7, SameList DEF tx_write_prep
  <2>2. TxCurrent'
    BY <1>5, <2>1, PrepTables DEF TxCurrent
  <2> QED BY <1>5, <2>1, <2>2, ViewPrep
<1>8. ASSUME tx_write_prep(v), wq' = wq PROVE Tables'
  BY <1>5, <1>7, <1>8, PrepTables DEF Tables
<1>9. CASE WriteZeroes(c, rq)
  <2>1. /\ Send(c, Plain(FALSE)) /\ UNCHANGED <<vars, wq, sq, ring>> /\ r.op # "read"
    BY <1>3, <1>9 DEF WriteZeroes
  <2> QED BY <1>6, <2>1, Refuses DEF Quiet
<1>10. CASE ReadOne(c, rq)
  <2>1. PICK e \in Entry : e = translate_read(head, v)
    BY AtType
  <2>2. /\ Send(c, IF valid(e) THEN Entry_(TRUE, e) ELSE ZeroBlock) /\ UNCHANGED <<vars, wq, sq, ring>>
        /\ r.op = "read"
    BY <1>3, <1>4, <1>10, <2>1 DEF ReadOne
  <2>3. PICK a \in ReplyType : a = (IF valid(e) THEN Entry_(TRUE, e) ELSE ZeroBlock)
    BY Replies
  <2>4. (~a.fwd => a.cl = 0) /\ a.vld /\ a.cl = e.off /\ (a.wr => valid(e) /\ e.w)
    BY <2>3 DEF Entry_, ZeroBlock, Reply, valid
  <2>5. Prompt(c, a)
    BY <1>6, <2>2, <2>3, <2>4 DEF Send, Prompt
  <2>6. valid(e) => Ref(head, l1_off(v)).w
    BY <1>2, <2>1, <2>2 DEF Shared, translate_read, valid, empty, encode
  <2>7. Told(r, a)
    BY <1>2, <2>1, <2>2, <2>4, <2>6 DEF Told, At, WrAt, needs_alloc
  <2> QED BY <1>6, <2>2, <2>5, <2>7 DEF Quiet
<1>11. CASE Snapshot(c, rq)
  <2>1. UNCHANGED <<wq, sq, ring, tx>> /\ r.op # "read"
    BY <1>3, <1>11 DEF Snapshot, snap_create, SnapCreate, SnapCreateThrows, vars
  <2>2. CASE snap_create /\ Send(c, Plain(TRUE))
    <3>1. Prompt(c, Plain(TRUE))
      BY <2>1, <2>2, Replies DEF Prompt, Send, Plain, Reply
    <3> QED BY <1>3, <1>11, <2>2, <3>1 DEF Snapped, Snapshot
  <2>3. CASE SnapCreateThrows /\ Send(c, Plain(FALSE))
    <3>1. UNCHANGED <<root, l0, snaps, tx>>
      BY <2>3 DEF SnapCreateThrows
    <3>2. SameView /\ Tables'
      BY <1>5, <2>1, <3>1, ViewStutter, StillTables
    <3> QED BY <2>1, <2>3, <3>1, <3>2, Refuses DEF Quiet
  <2>4. CASE Send(c, Plain(FALSE)) /\ UNCHANGED vars
    BY <1>6, <2>1, <2>4, Refuses DEF Quiet
  <2> QED BY <1>11, <2>2, <2>3, <2>4 DEF Snapshot
<1>12. CASE WriteAlloc(c, rq)
  <2>1. BeginTx(v) /\ ~clock[v] /\ UNCHANGED <<wq, sent>>
    BY <1>3, <1>4, <1>12 DEF WriteAlloc
  <2>2. OwnL0(v) /\ TakeCluster /\ needs_alloc(NewEntry(v)) /\ KeepsList
    BY <1>5, <2>1, TakeKeeps DEF BeginTx
  <2>3. SameView
    BY <1>5, <2>2, ViewPrep
  <2>4. PICK t \in Tx : /\ t.v = v /\ tx' = tx \union {t}
                        /\ t = [v |-> v, m |-> NewTable(v), out |-> snaps[head].disk_hwm, sn |-> head]
    BY <1>5, <2>1, Began
  <2>5. head' = head /\ Len(snaps') = Len(snaps)
    BY <2>2 DEF KeepsList, head
  <2>6. t.sn = head' /\ needs_alloc(l0'[t.m][l0_off(t.v)])
    BY <2>2, <2>4, <2>5 DEF NewEntry
  <2>7. TxCurrent'
    BY <1>5, <2>2, <2>4, <2>6, PrepTables DEF TxCurrent
  <2>8. Tables'
    BY <1>5, <2>1, <2>2, <2>7, PrepTables DEF Tables
  <2> QED BY <2>1, <2>3, <2>5, <2>8 DEF Quiet
<1>13. CASE WriteQueued(c, rq)
  <2>1. tx_write_prep(v) /\ wq' = wq \union {Cont("reply", c, v)} /\ sent' = sent
    BY <1>3, <1>4, <1>13 DEF WriteQueued
  <2>2. PICK d : d = Cont("reply", c, v)
    OBVIOUS
  <2>3. d.v = v /\ d.m = NewTable(v)
    BY <2>2 DEF Cont
  <2>4. \A x \in wq' : x.m # 0 /\ Ref(head, l1_off(x.v))' = encode(x.m, TRUE)
    BY <1>5, <1>7, <2>1, <2>2, <2>3, PrepTables
  <2>5. Tables'
    BY <1>7, <2>1, <2>4 DEF Tables
  <2> QED BY <1>7, <2>1, <2>5 DEF Quiet
<1>14. CASE WriteReady(c, rq)
  <2>1. /\ tx_write_prep(v) /\ ~needs_alloc(NewEntry(v)) /\ Send(c, Entry_(TRUE, NewEntry(v)))
        /\ UNCHANGED <<wq, sq, ring>> /\ r.op = "write"
    BY <1>3, <1>4, <1>14 DEF WriteReady
  <2>2. PICK e \in Entry : e = NewEntry(v)
    BY <1>5, <2>1, Prep
  <2>3. PICK a \in ReplyType : a = Entry_(TRUE, e)
    BY Replies
  <2>4. a.fwd /\ a.cl = e.off /\ a.vld /\ a.wr
    BY <2>1, <2>2, <2>3 DEF Entry_, Reply, needs_alloc
  <2>5. Prompt(c, a)
    BY <1>7, <2>1, <2>2, <2>3, <2>4 DEF Prompt, Send
  <2>6. At(v)' = e.off
    BY <1>7, <2>1, <2>2 DEF At
  <2>7. WrAt(v)'
    <3>1. Ref(head, l1_off(v))'.w
      BY <1>7, <2>1 DEF encode
    <3>2. ~needs_alloc(translate_read(head, v)')
      BY <1>7, <2>1
    <3> QED BY <3>1, <3>2 DEF WrAt, needs_alloc, valid
  <2>8. At(v) = e.off /\ WrAt(v)
    BY <1>7, <2>1, <2>6, <2>7 DEF SameView
  <2>9. Told(r, a)
    BY <1>2, <2>1, <2>4, <2>8 DEF Told
  <2> QED BY <1>7, <1>8, <2>1, <2>5, <2>9 DEF Quiet
<1>15. CASE WriteThrows(c, rq)
  <2>1. Throws(v) /\ Send(c, Plain(FALSE)) /\ UNCHANGED <<wq, sq, ring>> /\ r.op # "read"
    BY <1>3, <1>4, <1>15 DEF WriteThrows
  <2>2. CASE UNCHANGED vars
    BY <1>6, <2>1, <2>2, Refuses DEF Quiet
  <2>3. CASE tx_write_prep(v)
    BY <1>7, <1>8, <2>1, <2>3, Refuses DEF Quiet
  <2> QED BY <2>1, <2>2, <2>3 DEF Throws
<1>16. ASSUME ReadMany(c, rq) \/ WriteMany(c, rq) \/ Flush(c, rq) PROVE FALSE
  <2>1. rq.op # "flush" /\ (rq.op \in {"read", "write"} => Len(rq.blks) = 1)
    BY <1>3, <1>4
  <2>2. rq.op \in {"read", "write"} => ~(Len(rq.blks) > 1)
    <3>1. ~(1 > 1)
      OBVIOUS
    <3> QED BY <2>1, <3>1, Zenon
  <2> QED BY <1>16, <2>1, <2>2 DEF ReadMany, WriteMany, Flush
<1> QED BY <1>1, <1>9, <1>10, <1>11, <1>12, <1>13, <1>14, <1>15, <1>16 DEF Submit

\* The step that answers c, and nobody else's answer is touched.
LEMMA TakeAnswers ==
    ASSUME SrvInv, NEW c \in Cmd, NEW a, Prompt(c, a)
    PROVE  Replied = {c} /\ Answer(c)' = a /\ \A x \in Cmd : x # c => sent'[x] = sent[x]
<1>1. a \in ReplyType
  BY DEF Prompt
<1>2. Replied = {c} /\ sent'[c] = Append(sent[c], a) /\ \A x \in Cmd : x # c => sent'[x] = sent[x]
  BY TakeReplied
<1> QED BY <1>1, <1>2, AnswerAppend

\* The server answers c where the newest snapshot has its cluster, or keeps
\* it waiting.
LEMMA TakeSame ==
    ASSUME Serial, PathInv, NEW q \in Queues, srv_take(q),
           NEW c, c = Head(nsq[q]), NEW r \in CmdType, r = cmd[c], Quiet(c, r)
    PROVE  Agreed'
<1>1. /\ PathTypes /\ Path /\ Server /\ Data /\ Flight /\ Tables /\ Newest /\ Older /\ Hosted
      /\ CacheTrue /\ AnswerTrue /\ Ordered /\ SrvInv
  BY DEF PathInv, PathTypes, Server
<1>2. nsq[q] # <<>> /\ Move(c) /\ Respond(c) /\ UNCHANGED <<ways, cmd, slba, disk, last>>
  BY DEF srv_take, cacheVars
<1>3. c \in Cmd /\ stage[c] = "nsq"
  BY <1>1, <1>2, NsqHead
<1>4. /\ SameView /\ Tables' /\ Len(snaps') = Len(snaps)
      /\ sent' = sent \/ \E a : Prompt(c, a) /\ Told(r, a)
  BY DEF Quiet
<1>5. frozen' = frozen
  <2>1. PICK n \in Nat : n = Len(snaps) /\ n = Len(snaps')
    BY <1>1, <1>4 DEF SrvInv, FileInv, TypeOK
  <2>2. ~(Len(snaps') > Len(snaps))
    BY <2>1
  <2> QED BY <2>2 DEF srv_take
<1>6. ViewKept /\ Newest' /\ Older'
  BY <1>1, <1>2, <1>4, <1>5, KeptSame, TruthSame
<1>7. \/ Replied = {} /\ sent' = sent
      \/ \E a : /\ Replied = {c} /\ Told(r, a) /\ Answer(c)' = a
                /\ \A x \in Cmd : x # c => sent'[x] = sent[x]
  BY <1>1, <1>3, <1>4, TakeAnswers, TakeReplied
<1>8. /\ \A x \in Replied : x = c
      /\ \A x \in Cmd : x # c => sent'[x] = sent[x]
      /\ c \in Replied => Told(r, Answer(c)')
  BY <1>7
<1>9. PICK v \in Vblk : v = r.v
  BY Asks
<1>10. \A x \in Cmd : stage'[x] = IF x \in Replied THEN "ncq" ELSE IF x = c THEN "srv" ELSE stage[x]
  BY <1>2 DEF Move
<1>11. \A u \in Vblk : NoNews(u) /\ Holding(u)' = Holding(u)
  BY <1>2, SameNews
<1>12. Flight'
  <2>1. \A x \in Cmd : InFlight(x)' => InFlight(x) /\ cmd'[x] = cmd[x]
    BY <1>2, <1>3, <1>8, <1>10 DEF InFlight
  <2>2. \A x \in Cmd : stage'[x] = "nsq" => stage[x] = "nsq"
    BY <1>10
  <2>3. ASSUME NEW x \in Cmd, stage'[x] = "nsq", cmd[x].op = "read", Shared(cmd[x].v)' PROVE Shared(cmd[x].v)
    <3>1. cmd[x] \in CmdType /\ cmd'[x] = cmd[x]
      BY <1>1, <1>2, <2>2, <2>3 DEF Path
    <3>2. PICK u \in Vblk : u = cmd[x].v /\ u = cmd'[x].v
      BY <3>1, Asks
    <3>3. Shared(u)'
      BY <2>3, <3>2
    <3>4. Shared(u)
      BY <1>4, <3>3 DEF SameView
    <3> QED BY <3>2, <3>4
  <2>4. \A l \in Line, i \in Way : ways'[l][i].wr => ways[l][i].wr
    BY <1>2
  <2> QED BY <1>1, <2>1, <2>2, <2>3, <2>4, FlightLess
<1>13. Hosted'
  BY <1>1, <1>2, <1>6, <1>10, HostedStays
<1>14. CacheTrue'
  BY <1>1, <1>6, <1>11, CacheKept
<1>15. PICK b : b = Answer(c)'
  OBVIOUS
<1>16. c \in Replied /\ IsRw(r) =>
          /\ b.vld => b.cl = At(v) /\ b.cl = At(v)' /\ Truth(v, b.cl, b.wr)'
          /\ r.op = "read" => b.vld
          /\ r.op # "read" /\ b.vld => b.wr
  <2> SUFFICES ASSUME c \in Replied, IsRw(r)
               PROVE  /\ b.vld => b.cl = At(v) /\ b.cl = At(v)' /\ Truth(v, b.cl, b.wr)'
                      /\ r.op = "read" => b.vld
                      /\ r.op # "read" /\ b.vld => b.wr
    OBVIOUS
  <2>1. Told(r, b)
    BY <1>8, <1>15
  <2>2. ASSUME b.vld PROVE b.cl = At(v) /\ b.cl = At(v)' /\ Truth(v, b.cl, b.wr)'
    <3>1. b.cl = At(v) /\ (b.wr => WrAt(v)) /\ At(v)' = At(v)
      BY <1>4, <1>9, <2>1, <2>2 DEF Told, SameView
    <3>2. PICK p : p = b.cl
      OBVIOUS
    <3>3. PICK w : w = b.wr
      OBVIOUS
    <3>4. Good(v, p) /\ p = At(v) /\ (w => WrAt(v))
      BY <1>1, <3>1, <3>2, <3>3, AtGood
    <3>5. Truth(v, p, w)
      BY <3>4 DEF Truth
    <3>6. Truth(v, p, w)'
      BY <1>6, <3>5 DEF ViewKept
    <3> QED BY <3>1, <3>2, <3>3, <3>6
  <2> QED BY <2>1, <2>2 DEF Told
<1>17. Queues = {q}
  BY DEF Serial
<1>18. PICK s : s = ncq[q]
  OBVIOUS
<1>19. PICK z : Adds(ncq[q], ncq'[q], z, q)
  BY <1>2, Responds
<1>20. PICK ts : ts = ncq'[q]
  OBVIOUS
<1>21. Listed(s, q, "ncq")
  BY <1>1, <1>18 DEF Path
<1>22. /\ s \in Seq(Cmd) /\ z \in Seq(Cmd) /\ ts = s \o z
       /\ \A i \in 1 .. Len(s) : s[i] \in Cmd /\ stage[s[i]] = "ncq"
       /\ \A i \in 1 .. Len(z) : z[i] \in Replied /\ z[i] = c
  BY <1>8, <1>18, <1>19, <1>20, <1>21 DEF Adds, Listed
<1>23. \A i \in 1 .. Len(s) : s[i] # c /\ cmd'[s[i]] = cmd[s[i]] /\ sent'[s[i]] = sent[s[i]]
  BY <1>2, <1>3, <1>8, <1>22
<1>24. \A i \in 1 .. Len(s) : AnsTrue(s[i])'
  BY <1>1, <1>6, <1>18, <1>23, AnswersKept
<1>25. \A i \in 1 .. Len(ts) : (i \in 1 .. Len(s) /\ ts[i] = s[i]) \/ \E j \in 1 .. Len(z) : ts[i] = z[j]
  BY <1>22, Joined
<1>26. cmd'[c] = r
  BY <1>2
<1>27. AnswerTrue'
  <2> SUFFICES ASSUME NEW i \in 1 .. Len(ts) PROVE AnsTrue(ts[i])'
    BY <1>17, <1>20 DEF AnswerTrue
  <2>1. CASE i \in 1 .. Len(s) /\ ts[i] = s[i]
    BY <1>24, <2>1
  <2>2. ASSUME NEW j \in 1 .. Len(z), ts[i] = z[j] PROVE AnsTrue(ts[i])'
    <3>1. z[j] = c /\ c \in Replied
      BY <1>22
    <3>2. AnsTrue(c)'
      BY <1>9, <1>15, <1>16, <1>26, <3>1 DEF AnsTrue, IsRw
    <3> QED BY <2>2, <3>1, <3>2
  <2> QED BY <1>25, <2>1, <2>2
<1>28. Ordered'
  <2> SUFFICES ASSUME NEW u \in Vblk PROVE InOrder(ts, u)'
    BY <1>17, <1>20 DEF Ordered
  <2>1. InOrder(s, u) /\ At(u)' = At(u) /\ NoNews(u)
    BY <1>1, <1>4, <1>11, <1>18 DEF Ordered, SameView
  <2>2. \A x \in Cmd : stage'[x] = "hq" /\ Modifies(x)' /\ cmd'[x].v = u =>
           stage[x] = "hq" /\ Modifies(x) /\ cmd[x].v = u
    BY <1>2, <1>10 DEF Modifies
  <2>3. InOrder(s, u)'
    BY <1>22, <1>23, <2>1, <2>2, OrderQuiet
  <2>4. ASSUME NEW i \in 1 .. Len(z) PROVE ~Stale(z[i], u)'
    <3>1. z[i] = c /\ c \in Replied
      BY <1>22
    <3>2. ~Stale(c, u)'
      BY <1>9, <1>15, <1>16, <1>26, <3>1 DEF Stale, Says, IsRw
    <3> QED BY <3>1, <3>2
  <2> QED BY <1>22, <2>3, <2>4, OrderMore
<1> QED BY <1>4, <1>6, <1>12, <1>13, <1>14, <1>27, <1>28 DEF Agreed

\* A snapshot is taken with nothing else in flight.
LEMMA TakeSnap ==
    ASSUME Serial, PathInv, NEW q \in Queues, srv_take(q),
           NEW c, c = Head(nsq[q]), NEW r \in CmdType, r = cmd[c], Snapped(c, r)
    PROVE  Agreed'
<1>1. /\ PathTypes /\ Path /\ Server /\ Data /\ Flight /\ Tables /\ Newest /\ Older /\ Hosted
      /\ CacheTrue /\ AnswerTrue /\ Ordered /\ SrvInv
  BY DEF PathInv, PathTypes, Server
<1>2. nsq[q] # <<>> /\ Move(c) /\ Respond(c) /\ UNCHANGED <<ways, cmd, slba, disk, last>>
  BY DEF srv_take, cacheVars
<1>3. c \in Cmd /\ stage[c] = "nsq" /\ InFlight(c)
  BY <1>1, <1>2, NsqHead DEF InFlight
<1>4. r.op = "snapshot" /\ snap_create /\ Prompt(c, Plain(TRUE)) /\ UNCHANGED <<wq, sq, ring, tx>>
  BY DEF Snapped, Prompt
<1>5. /\ \A x \in Cmd : x # c => ~InFlight(x)
      /\ \A l \in Line, i \in Way : ~ways[l][i].wr
  BY <1>1, <1>3, <1>4 DEF Flight
<1>6. \A x, v : ~Waits(x, v)
  BY <1>3, <1>5 DEF Waits, InFlight
<1>7. tx' = {} /\ wq' = {}
  <2>1. wq = {}
    BY <1>1, <1>6 DEF Server
  <2>2. \A t \in tx : FALSE
    BY <1>1, <1>6 DEF SrvInv, Ledger, Server
  <2> QED BY <1>4, <2>1, <2>2
<1>8. SnapView
  BY <1>1, <1>4, ViewSnap DEF Serial
<1>9. PICK f : f = [v \in Vblk |-> [o \in Offs |-> Possible(v, o)]]
  OBVIOUS
<1>10. frozen' = Append(frozen, f)
  <2>1. PICK n \in Nat : n = Len(snaps) /\ n + 1 = Len(snaps')
    BY <1>1, <1>8 DEF SnapView, head, SrvInv, FileInv, TypeOK
  <2>2. Len(snaps') > Len(snaps)
    BY <2>1
  <2> QED BY <1>9, <2>2 DEF srv_take
<1>11. \A v \in Vblk, o \in Offs : last[v][o] \in f[v][o]
  BY <1>9 DEF Possible
<1>12. /\ \A v \in Vblk : \A p : Truth(v, p, FALSE) => Truth(v, p, FALSE)'
       /\ Newest' /\ Older'
  BY <1>1, <1>2, <1>8, <1>10, <1>11, TruthSnap
<1>13. Replied = {c}
  BY <1>1, <1>3, <1>4, TakeReplied
<1>14. \A x \in Cmd : stage'[x] = IF x = c THEN "ncq" ELSE stage[x]
  BY <1>2, <1>13 DEF Move
<1>15. \A x \in Cmd : x # c => ~InFlight(x)'
  BY <1>5, <1>14 DEF InFlight
<1>16. Flight'
  BY <1>2, <1>5, <1>14, <1>15 DEF Flight, InFlight
<1>17. Tables'
  BY <1>7 DEF Tables, TxCurrent
<1>18. Hosted'
  <2>1. \A x \in Cmd : stage'[x] # "hq"
    BY <1>14, <1>15 DEF InFlight
  <2> QED BY <2>1 DEF Hosted
<1>19. CacheTrue'
  <2> SUFFICES ASSUME NEW v \in Vblk, NEW i \in Holding(v)'
               PROVE  Truth(v, ways[idx(v)][i].plba, ways[idx(v)][i].wr)'
    BY DEF CacheTrue
  <2>1. i \in Holding(v) /\ i \in Way /\ idx(v) \in Line
    BY <1>2, SameNews, HoldingWay, SlotWay
  <2>2. PICK p : p = ways[idx(v)][i].plba /\ p = ways'[idx(v)][i].plba
    BY <1>2
  <2>3. PICK w : w = ways[idx(v)][i].wr /\ w = ways'[idx(v)][i].wr
    BY <1>2
  <2>4. Truth(v, p, w) /\ ~w
    BY <1>1, <1>5, <2>1, <2>2, <2>3 DEF CacheTrue
  <2>5. Truth(v, p, FALSE)'
    BY <1>12, <2>4 DEF Truth
  <2>6. Truth(v, p, w)'
    BY <2>4, <2>5 DEF Truth
  <2> QED BY <2>2, <2>3, <2>6
<1>20. Queues = {q}
  BY DEF Serial
<1>21. PICK s : s = ncq[q]
  OBVIOUS
<1>22. PICK z : Adds(ncq[q], ncq'[q], z, q)
  BY <1>2, Responds
<1>23. PICK ts : ts = ncq'[q]
  OBVIOUS
<1>24. Listed(s, q, "ncq")
  BY <1>1, <1>21 DEF Path
<1>25. /\ s \in Seq(Cmd) /\ z \in Seq(Cmd) /\ ts = s \o z
       /\ \A i \in 1 .. Len(s) : FALSE
       /\ \A i \in 1 .. Len(z) : z[i] = c
  <2>1. \A i \in 1 .. Len(s) : s[i] \in Cmd /\ stage[s[i]] = "ncq"
    BY <1>24 DEF Listed
  <2>2. \A i \in 1 .. Len(s) : FALSE
    BY <1>3, <1>5, <2>1 DEF InFlight
  <2> QED BY <1>13, <1>21, <1>22, <1>23, <1>24, <2>2 DEF Adds, Listed
<1>26. \A i \in 1 .. Len(ts) : ts[i] = c
  <2>1. \A i \in 1 .. Len(ts) : (i \in 1 .. Len(s) /\ ts[i] = s[i]) \/ \E j \in 1 .. Len(z) : ts[i] = z[j]
    BY <1>25, Joined
  <2> QED BY <1>25, <2>1
<1>27. cmd'[c] = r /\ ~IsRw(r)
  BY <1>2, <1>4 DEF IsRw
<1>28. AnswerTrue'
  <2>1. AnsTrue(c)'
    BY <1>27 DEF AnsTrue, IsRw
  <2>2. \A i \in 1 .. Len(ts) : AnsTrue(ts[i])'
    BY <1>26, <2>1
  <2> QED BY <1>20, <1>23, <2>2 DEF AnswerTrue
<1>29. Ordered'
  <2> SUFFICES ASSUME NEW u \in Vblk PROVE InOrder(ts, u)'
    BY <1>20, <1>23 DEF Ordered
  <2>1. InOrder(s, u) /\ At(u)' = At(u)
    BY <1>1, <1>8, <1>21 DEF Ordered, SnapView
  <2>2. ~FreshIn(s, u)
    BY <1>25 DEF FreshIn
  <2>3. ~StaleWay(u)
    BY <2>1, <2>2 DEF InOrder
  <2>4. ~StaleWay(u)'
    BY <1>2, <2>1, <2>3, SameNews DEF StaleWay
  <2>5. ~Says(c, u)'
    BY <1>27 DEF Says, IsRw
  <2>6. ~Stale(c, u)'
    BY <2>5 DEF Stale
  <2>7. \A i \in 1 .. Len(ts) : ~Stale(ts[i], u)'
    BY <1>26, <2>6
  <2>8. ~StaleIn(ts, u)'
    BY <2>7 DEF StaleIn
  <2> QED BY <2>4, <2>7, <2>8 DEF InOrder
<1> QED BY <1>12, <1>16, <1>17, <1>18, <1>19, <1>28, <1>29 DEF Agreed

\* Taking a command keeps the invariant.
LEMMA TakeAgreed ==
    ASSUME Serial, PathInv, NEW q \in Queues, srv_take(q)
    PROVE  Agreed'
<1>1. PICK c : c = Head(nsq[q])
  OBVIOUS
<1>2. Path /\ Server /\ Flight /\ Tables /\ nsq[q] # <<>>
  BY DEF PathInv, PathTypes, srv_take
<1>3. c \in Cmd /\ stage[c] = "nsq" /\ cmd[c] \in CmdType
  BY <1>1, <1>2, NsqHead
<1>4. PICK r \in CmdType : r = cmd[c]
  BY <1>3
<1>5. Submit(c, Request(r)) \/ WriteZeroes(c, Request(r))
  BY <1>1, <1>4 DEF srv_take
<1>6. r.op = "read" => ~Shared(r.v)
  BY <1>2, <1>3, <1>4 DEF Flight
<1>7. Quiet(c, r) \/ Snapped(c, r)
  BY <1>2, <1>3, <1>5, <1>6, TakeQuiet
<1> QED BY <1>1, <1>4, <1>7, TakeSame, TakeSnap

-----------------------------------------------------------------------------
(* The theorems.                                                            *)

\* The data path as the program finds it.
LEMMA AgreedStart == Serial /\ PathInit => Agreed
<1> SUFFICES ASSUME Serial, PathInit PROVE Agreed
  OBVIOUS
<1>1. PathTypes /\ Server /\ Data /\ SrvInv
  BY PathStart DEF PathTypes, Server
<1>2. /\ stage = [c \in Cmd |-> "new"] /\ ncq = [q \in Queues |-> <<>>]
      /\ disk = [d \in Disk |-> [o \in Offs |-> IF d = 0 THEN 0 ELSE Junk]]
      /\ last = Contents(head) /\ ways = NoWays
      /\ frozen = [k \in 1 .. head - 1 |-> [v \in Vblk |-> [o \in Offs |-> {Contents(k)[v][o]}]]]
      /\ tx = {} /\ wq = {}
  BY DEF Serial, PathInit, SrvInit, CacheInit, Empty
<1>3. \A v \in Vblk : Holding(v) = {}
  <2> SUFFICES ASSUME NEW v \in Vblk, NEW i \in Way PROVE ~ways[idx(v)][i].vld
    BY DEF Holding
  <2>1. idx(v) \in Line
    BY SlotWay
  <2> QED BY <1>2, <2>1 DEF NoWays
<1>4. \A q \in Queues : 1 .. Len(ncq[q]) = {}
  <2>1. PICK s : s = <<>>
    OBVIOUS
  <2>2. 1 .. Len(s) = {}
    BY <2>1
  <2>3. \A q \in Queues : ncq[q] = s
    BY <1>2, <2>1
  <2> QED BY <2>2, <2>3
<1>5. Flight
  BY <1>2 DEF Flight, InFlight
<1>6. Tables
  BY <1>2 DEF Tables, TxCurrent
<1>7. \A o \in Offs : disk[0][o] = 0
  BY <1>2, DiskNat
<1>8. \A k, v, o : v \in Vblk /\ o \in Offs => Contents(k)[v][o] = disk[translate_read(k, v).off][o]
  BY <1>7 DEF Contents, valid
<1>9. Newest
  <2> SUFFICES ASSUME NEW v \in Vblk, NEW o \in Offs PROVE disk[At(v)][o] = last[v][o]
    BY <1>7 DEF Newest
  <2>1. Contents(head)[v][o] = disk[translate_read(head, v).off][o]
    BY <1>8
  <2>2. last[v][o] = Contents(head)[v][o]
    BY <1>2
  <2> QED BY <2>1, <2>2 DEF At
<1>10. Older
  <2>1. frozen = [k \in 1 .. head - 1 |-> frozen[k]]
    BY <1>2
  <2>2. ASSUME NEW k \in 1 .. head - 1, NEW v \in Vblk, NEW o \in Offs
        PROVE  disk[translate_read(k, v).off][o] \in frozen[k][v][o]
    <3>1. Contents(k)[v][o] = disk[translate_read(k, v).off][o]
      BY <1>8
    <3>2. frozen[k][v][o] = {Contents(k)[v][o]}
      BY <1>2
    <3> QED BY <3>1, <3>2
  <2> QED BY <2>1, <2>2 DEF Older
<1>11. Hosted
  BY <1>2 DEF Hosted
<1>12. CacheTrue
  BY <1>3 DEF CacheTrue
<1>13. AnswerTrue
  BY <1>4 DEF AnswerTrue
<1>14. Ordered
  <2> SUFFICES ASSUME NEW q \in Queues, NEW v \in Vblk PROVE InOrder(ncq[q], v)
    BY DEF Ordered
  <2>1. ~StaleIn(ncq[q], v) /\ ~StaleWay(v)
    BY <1>3, <1>4 DEF StaleIn, StaleWay
  <2> QED BY <1>4, <2>1 DEF InOrder
<1> QED BY <1>5, <1>6, <1>9, <1>10, <1>11, <1>12, <1>13, <1>14 DEF Agreed

\* A step of neither the server nor the disk nor a command keeps it, whether
\* the maps stay or are another processor's, empty ones.
LEMMA StillAgreed ==
    ASSUME PathTypes, Agreed, UNCHANGED allVars, UNCHANGED pathVars,
           UNCHANGED ways \/ ways' = NoWays
    PROVE  Agreed'
<1>1. UNCHANGED <<cmd, stage, slba, ncq, disk, last, frozen, sent>>
  BY DEF pathVars, allVars, srvVars
<1>2. UNCHANGED <<vars, wq, tx, root, l0, snaps>>
  BY DEF allVars, srvVars, vars
<1>3. \A l \in Line, i \in Way : ways'[l][i].wr => ways[l][i].wr
  BY DEF NoWays
<1>4. Flight'
  BY <1>1, <1>2, <1>3 DEF Agreed, Flight, InFlight, Shared, Ref, head
<1>5. /\ SameView /\ ViewKept /\ Tables' /\ Newest' /\ Older'
  BY <1>1, LocalView DEF Agreed, PathTypes
<1>6. Hosted'
  BY <1>1, <1>5, HostedStays DEF Agreed, PathTypes
<1>7. ASSUME NEW v \in Vblk PROVE NoNews(v)
  <2>1. CASE ways' = NoWays
    <3>1. idx(v) \in Line
      BY SlotWay
    <3>2. \A i \in Way : ~ways'[idx(v)][i].vld
      BY <2>1, <3>1 DEF NoWays
    <3> QED BY <3>2 DEF NoNews, Holding
  <2> QED BY <2>1, SameNews
<1>8. CacheTrue'
  BY <1>5, <1>7, CacheKept DEF Agreed
<1>9. ASSUME NEW q \in Queues
      PROVE  /\ \A i \in 1 .. Len(ncq'[q]) : AnsTrue(ncq[q][i])'
             /\ \A v \in Vblk : InOrder(ncq[q], v)'
  <2>1. PICK s : s = ncq[q] /\ s = ncq'[q]
    BY <1>1
  <2>2. s \in Seq(Cmd) /\ \A i \in 1 .. Len(s) : AnsTrue(s[i])'
    BY <1>1, <1>5, <2>1, AnswersKept DEF Agreed, PathTypes
  <2>3. ASSUME NEW v \in Vblk PROVE InOrder(s, v)'
    <3>1. InOrder(s, v) /\ At(v)' = At(v) /\ NoNews(v)
      BY <1>5, <1>7, <2>1 DEF Agreed, Ordered, SameView
    <3>2. \A c \in Cmd : stage'[c] = "hq" /\ Modifies(c)' /\ cmd'[c].v = v =>
             stage[c] = "hq" /\ Modifies(c) /\ cmd[c].v = v
      BY <1>1 DEF Modifies
    <3> QED BY <1>1, <2>2, <3>1, <3>2, OrderQuiet
  <2> QED BY <2>1, <2>2, <2>3
<1>10. AnswerTrue'
  BY <1>9 DEF AnswerTrue
<1>11. Ordered'
  BY <1>9 DEF Ordered
<1> QED BY <1>4, <1>5, <1>6, <1>8, <1>10, <1>11 DEF Agreed

\* A controller moved to a processor whose maps are empty starts afresh.
LEMMA MoveAgreed ==
    ASSUME Serial, PathTypes, Agreed, NEW p \in Cpus, move(p)
    PROVE  Agreed'
<1>1. ways' = NoWays
  BY DEF Serial, move, run_on, Empty
<1> QED BY <1>1, StillAgreed DEF move

\* Every step keeps it.
LEMMA AgreedStep ==
    ASSUME Serial, PathTypes, Copies, Agreed, CacheUnique, [PathNext]_dataVars
    PROVE  PathTypes' /\ Copies' /\ Agreed'
<1>1. PathTypes' /\ Copies' /\ PathInv
  BY PathStep DEF PathInv, Agreed
<1>2. CASE PathNext
  BY <1>1, <1>2, VsqAgreed, TakeAgreed, NcqAgreed, DoneAgreed, HqAgreed, MoveAgreed DEF PathNext
<1>3. CASE UNCHANGED dataVars
  BY <1>1, <1>3, StillAgreed DEF dataVars, cacheVars
<1> QED BY <1>2, <1>3

\* What the newest and the older snapshots hold.
LEMMA Holds ==
    ASSUME Agreed, NEW k, NEW v \in Vblk, NEW o \in Offs
    PROVE  Contents(k)[v][o] = disk[translate_read(k, v).off][o]
<1>1. disk[0][o] = 0
  BY DEF Agreed, Newest
<1> QED BY <1>1 DEF Contents, valid

\* What the invariant says of superseded snapshots.
LEMMA IntactInv == ASSUME PathTypes, Agreed PROVE SnapshotIntact
<1>1. PICK n \in Nat : n = head - 1
  BY RefType DEF PathTypes, Server, SrvInv, FileInv, RefsTyped
<1>2. frozen = [k \in 1 .. n |-> frozen[k]]
  BY <1>1 DEF Agreed, Older
<1>3. Len(frozen) = n
  BY <1>2, OneLonger
<1>4. ASSUME NEW k \in 1 .. n, NEW v \in Vblk, NEW o \in Offs PROVE Contents(k)[v][o] \in frozen[k][v][o]
  BY <1>1, Holds DEF Agreed, Older
<1> QED BY <1>3, <1>4 DEF SnapshotIntact

\* What the invariant says of the cache.
LEMMA AgreesInv == ASSUME Serial, PathTypes, Agreed PROVE CacheAgrees
<1> SUFFICES ASSUME NEW v \in Vblk, NEW i \in Holding(v), NEW e, e = ways[idx(v)][i]
             PROVE  /\ \/ e.plba = translate_read(head, v).off
                       \/ \E c \in Cmd : stage[c] = "ncq" /\ cmd[c].v = v
                                           /\ Answer(c).cl = translate_read(head, v).off
                    /\ e.wr => /\ \A k \in 1 .. head - 1, u \in Vblk : translate_read(k, u).off # e.plba
                               /\ \A t \in tx : t.out # e.plba
  BY DEF CacheAgrees
<1>1. FileInv /\ Path /\ Truth(v, e.plba, e.wr) /\ head \in Nat /\ head \in 1 .. head
  BY RefType DEF PathTypes, Server, SrvInv, FileInv, RefsTyped, Agreed, CacheTrue
<1>2. e.plba = At(v) \/ \E c \in Cmd : stage[c] = "ncq" /\ cmd[c].v = v /\ Answer(c).cl = At(v)
  <2> SUFFICES ASSUME e.plba # At(v)
               PROVE  \E c \in Cmd : stage[c] = "ncq" /\ cmd[c].v = v /\ Answer(c).cl = At(v)
    OBVIOUS
  <2>1. PICK q \in Queues : TRUE
    BY DEF Serial
  <2>2. PICK s : s = ncq[q]
    OBVIOUS
  <2>3. StaleWay(v) /\ InOrder(s, v) /\ Listed(s, q, "ncq")
    BY <1>1, <2>2 DEF StaleWay, Agreed, Ordered, Path
  <2>4. PICK j \in 1 .. Len(s) : Fresh(s[j], v)
    BY <2>3 DEF InOrder, FreshIn
  <2>5. s[j] \in Cmd /\ stage[s[j]] = "ncq"
    BY <2>3 DEF Listed
  <2> QED BY <2>4, <2>5 DEF Fresh, Says
<1>3. ASSUME e.wr
      PROVE  /\ \A k \in 1 .. head - 1, u \in Vblk : translate_read(k, u).off # e.plba
             /\ \A t \in tx : t.out # e.plba
  <2>1. e.plba = At(v) /\ WrAt(v)
    BY <1>1, <1>3 DEF Truth
  <2>2. \A k \in 1 .. head - 1, u \in Vblk : translate_read(k, u).off # At(v)
    BY <1>1, <2>1, AtOwn
  <2>3. \A t \in tx : t.out # At(v)
    BY <1>1, AtOwn DEF At
  <2> QED BY <2>1, <2>2, <2>3
<1> QED BY <1>2, <1>3 DEF At

\* What the invariant says of a read that completes.
LEMMA ReadsStep ==
    ASSUME Serial, PathTypes, Agreed, [PathNext]_dataVars, NEW c \in Cmd,
           cmd[c].op = "read", stage[c] # "done", stage'[c] = "done"
    PROVE  last[cmd[c].v][cmd[c].off] = IF stage[c] = "hq" THEN disk[slba[c]][cmd[c].off] ELSE 0
<1>1. Path /\ Server /\ SrvInv
  BY DEF PathTypes, Server
<1>2. stage[c] # "new" /\ cmd[c] \in CmdType
  BY <1>1 DEF Path, NoReq
<1>3. PICK v \in Vblk : v = cmd[c].v
  BY <1>2, Asks
<1>4. PICK o \in Offs : o = cmd[c].off
  BY <1>2, Asks
<1>5. CASE stage[c] = "hq"
  BY <1>5 DEF Agreed, Hosted
<1>6. CASE stage[c] # "hq"
  <2>1. PathNext
    BY DEF dataVars, pathVars
  <2>2. ASSUME NEW d \in Cmd, NEW r \in Asked, NEW q \in Queues, Vsq(d, r, q) PROVE FALSE
    <3>1. PICK to : stage[d] = "new" /\ stage' = [stage EXCEPT ![d] = to]
      BY <2>2 DEF Vsq, vsq_hit, vsq_miss, vsq_snapshot, MayIssue, Accept
    <3> QED BY <1>1, <1>2, <3>1 DEF Path
  <2>3. ASSUME NEW x, Move(x) PROVE FALSE
    BY <2>3 DEF Move
  <2>4. ASSUME NEW q \in Queues, srv_take(q) PROVE FALSE
    BY <2>3, <2>4 DEF srv_take
  <2>5. ASSUME NEW io \in ring, srv_done(io) PROVE FALSE
    BY <2>3, <2>5 DEF srv_done
  <2>6. ASSUME NEW d \in Cmd, hq_done(d) PROVE FALSE
    BY <1>1, <1>6, <2>6 DEF hq_done, Path
  <2>7. ASSUME NEW p \in Cpus, move(p) PROVE FALSE
    BY <2>7 DEF move, pathVars
  <2>8. ASSUME NEW q \in Queues, Ncq(q) PROVE last[v][o] = 0
    <3>1. PICK s : s = ncq[q]
      OBVIOUS
    <3>2. s # <<>> /\ Listed(s, q, "ncq")
      BY <1>1, <2>8, <3>1 DEF Ncq, ncq_valid, ncq_plain, ncq_snapshot, Path
    <3>3. Head(s) = s[1] /\ 1 \in 1 .. Len(s) /\ s[1] \in Cmd
      BY <3>2, Shorter DEF Listed
    <3>4. PICK to : TakeNcq(q, to)
      BY <2>8 DEF Ncq, ncq_valid, ncq_plain, ncq_snapshot
    <3>5. s[1] = c
      BY <1>1, <3>1, <3>3, <3>4 DEF TakeNcq, Path
    <3>6. AnsTrue(c)
      BY <3>1, <3>3, <3>5 DEF Agreed, AnswerTrue
    <3>7. IsRw(cmd[c]) /\ Answer(c).vld /\ Truth(v, Answer(c).cl, Answer(c).wr)
      BY <1>3, <3>6 DEF AnsTrue, IsRw
    <3>8. ncq_valid(q)
      BY <2>8, <3>1, <3>3, <3>5, <3>7 DEF Ncq, ncq_plain, ncq_snapshot
    <3>9. ~Answer(c).fwd
      <4>1. stage' = [stage EXCEPT ![c] = IF Answer(c).fwd THEN "hq" ELSE "done"]
        BY <3>1, <3>3, <3>5, <3>8 DEF ncq_valid, TakeNcq
      <4> QED BY <1>1, <4>1 DEF Path
    <3>10. Answer(c).cl = 0
      <4>1. stage[c] = "ncq" /\ sent[c] # <<>>
        BY <1>1, <3>2, <3>3, <3>5 DEF Listed, Path
      <4>2. PICK n \in 1 .. Len(sent[c]) : n = Len(sent[c])
        BY <1>1, <4>1 DEF SrvInv, SrvTypes
      <4> QED BY <1>1, <3>9, <4>2 DEF Server, Answer
    <3> QED BY <3>7, <3>10 DEF Truth, Good, Agreed, Newest
  <2>9. last[v][o] = 0
    BY <2>1, <2>2, <2>4, <2>5, <2>6, <2>8, <2>7 DEF PathNext
  <2> QED BY <1>3, <1>4, <1>6, <2>9
<1> QED BY <1>5, <1>6

\* With one queue and the promises of Serial, a superseded snapshot keeps
\* its contents whatever the guest writes later: lba_clear_writable before
\* the snapshot and tx_write_prep after it keep every translation handed out
\* for writing away from its clusters.
THEOREM SnapshotIntactHolds == Serial => (PathSpec => []SnapshotIntact)
<1> SUFFICES ASSUME Serial PROVE PathSpec => []SnapshotIntact
  OBVIOUS
<1>1. PathInit => PathTypes /\ Copies /\ Agreed
  BY PathStart, AgreedStart
<1>2. PathTypes /\ Copies /\ Agreed /\ CacheUnique /\ [PathNext]_dataVars => (PathTypes /\ Copies /\ Agreed)'
  BY AgreedStep
<1>3. PathTypes /\ Agreed => SnapshotIntact
  BY IntactInv
<1> QED BY <1>1, <1>2, <1>3, CacheUniqueHolds, PTL DEF PathSpec

\* With one queue and the promises of Serial, nm_do_rw never finds a
\* translation for writing to a cluster that an older snapshot or an
\* allocation in flight has, and while it finds one to where a cluster was,
\* the answer that replaces it is in the NCQ.
THEOREM CacheAgreesHolds == Serial => (PathSpec => []CacheAgrees)
<1> SUFFICES ASSUME Serial PROVE PathSpec => []CacheAgrees
  OBVIOUS
<1>1. PathInit => PathTypes /\ Copies /\ Agreed
  BY PathStart, AgreedStart
<1>2. PathTypes /\ Copies /\ Agreed /\ CacheUnique /\ [PathNext]_dataVars => (PathTypes /\ Copies /\ Agreed)'
  BY AgreedStep
<1>3. PathTypes /\ Agreed => CacheAgrees
  BY AgreesInv
<1> QED BY <1>1, <1>2, <1>3, CacheUniqueHolds, PTL DEF PathSpec

\* With one queue and the promises of Serial, every read, translated by the
\* cache or by the server, completes with what the last write of its block
\* that was served left there.
THEOREM ReadsLastWriteHolds == Serial => (PathSpec => ReadsLastWrite)
<1> SUFFICES ASSUME Serial PROVE PathSpec => ReadsLastWrite
  OBVIOUS
<1>1. PathInit => PathTypes /\ Copies /\ Agreed
  BY PathStart, AgreedStart
<1>2. PathTypes /\ Copies /\ Agreed /\ CacheUnique /\ [PathNext]_dataVars => (PathTypes /\ Copies /\ Agreed)'
  BY AgreedStep
<1>3. PathTypes /\ Agreed /\ [PathNext]_dataVars =>
         [\A c \in Cmd :
             cmd[c].op = "read" /\ stage[c] # "done" /\ stage'[c] = "done" =>
                last[cmd[c].v][cmd[c].off] =
                   IF stage[c] = "hq" THEN disk[slba[c]][cmd[c].off] ELSE 0]_dataVars
  BY ReadsStep
<1> QED BY <1>1, <1>2, <1>3, CacheUniqueHolds, PTL DEF PathSpec, ReadsLastWrite

=============================================================================
