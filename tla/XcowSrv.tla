------------------------------ MODULE XcowSrv ------------------------------
(***************************************************************************)
(* The XCOW server: class nvme_xcow (nvme_xcow.cpp) driven by the worker   *)
(* loop of xcowsrv.cpp, on top of the map file of module XcowFile.         *)
(*                                                                         *)
(* One worker thread takes commands from the NSQ, answers some at once,    *)
(* and for the others queues disk I/O on an io_uring with a ticket.  A     *)
(* cluster being allocated (zeroed, or copied from an older snapshot) is   *)
(* locked by the bit vector clock; a write that finds its cluster locked   *)
(* leaves a continuation in the work queue wq.  The kernel completes the   *)
(* submitted I/O in any order, and I/O may fail.                           *)
(***************************************************************************)
EXTENDS XcowFile, FiniteSets

CONSTANTS
    Cmd,        \* commands the guest issues
    Requests,   \* what a command may ask: [op, blks], blks a sequence of clusters
    MayFail,    \* whether disk I/O may complete with an error
    NoCmd       \* noop_tag, and "no command being handled"

\* Requests stay inside the virtual disk.
ASSUME RequestAssumption ==
    /\ NoCmd \notin Cmd
    /\ Requests \subseteq [op : {"read", "write", "zeroes", "flush", "snapshot"}, blks : Seq(Vblk)]
    /\ \A rq \in Requests : rq.op \in {"read", "write"} => rq.blks # <<>>

VARIABLES
    req,     \* what each command asked (None before it is taken from the NSQ)
    cur,     \* the multi-cluster write being handled: [c, blks], blks left
    count,   \* I/Os a command's ticket still waits for
    clock,   \* clusters locked by an allocation
    wq,      \* continuations queued behind a lock
    sq,      \* I/O prepared in the submission queue, not yet kicked
    ring,    \* I/O submitted to the kernel
    sent     \* replies put into the NCQ, per command

srvVars == <<req, cur, count, clock, wq, sq, ring, sent>>
allVars == <<vars, srvVars>>

None    == [op |-> "none", blks |-> <<>>]
Idle    == [c |-> NoCmd, blks |-> <<>>]
NoTx    == [v |-> 0, m |-> 0, out |-> 0, sn |-> 0]

\* An I/O: the ticket's tag, the transaction of an allocation (else NoTx),
\* and for reads and writes the cluster on disk (0 for a flush).
Alloc(tag, t)     == [tag |-> tag, t |-> t, cl |-> 0]
Rw(tag, cl)       == [tag |-> tag, t |-> NoTx, cl |-> cl]
IsAlloc(io)       == io.t # NoTx

\* A reply: status, and the aux words (cluster, VALID, WRITABLE, FORWARD).
Reply(ok, cl, vld, wr, fwd) ==
    [ok |-> ok, cl |-> cl, vld |-> vld, wr |-> wr, fwd |-> fwd]
Plain(ok)        == Reply(ok, 0, FALSE, FALSE, FALSE)
Entry_(ok, e)    == Reply(ok, e.off, valid(e), e.w, TRUE)
Paddr(ok, cl)    == Reply(ok, cl, TRUE, TRUE, TRUE)
ZeroBlock        == Reply(TRUE, 0, TRUE, FALSE, FALSE)

\* A file as the server finds it: just formatted, or with cluster 0 written
\* and a snapshot created on top, so that the next write of it copies.
Formatted == snaps = <<SnapEntry(3, 1)>> /\ hwm = FormatHwm /\ root = [m \in Meta |-> EmptyRoot]
             /\ l0 = [m \in Meta |-> EmptyL0]
Forked ==
    LET r == FormatHwm IN
    /\ snaps = <<SnapEntry(3, 2), SnapEntry(r + 1, 2)>>
    /\ hwm = r + 1 + l1_clusters /\ hwm <= HwmLimit
    /\ root = [m \in Meta |-> [EmptyRoot EXCEPT ![0] =
                 IF m = 3 THEN encode(r, TRUE) ELSE IF m = r + 1 THEN encode(r, FALSE) ELSE empty]]
    /\ l0 = [m \in Meta |-> [EmptyL0 EXCEPT ![0] = IF m = r THEN encode(1, TRUE) ELSE empty]]

SrvInit ==
    /\ Formatted \/ Forked
    /\ tx = {} /\ handle = "narrow"
    /\ req = [c \in Cmd |-> None]
    /\ cur = Idle
    /\ count = [c \in Cmd |-> 0]
    /\ clock = [v \in Vblk |-> FALSE]
    /\ wq = {} /\ sq = {} /\ ring = {}
    /\ sent = [c \in Cmd |-> <<>>]

-----------------------------------------------------------------------------
Send(c, r) == sent' = [sent EXCEPT ![c] = Append(sent[c], r)]

\* I/O prepared by a handler that returns its ticket is submitted with
\* everything prepared before; a handler that returns a reply leaves it.
\* Mutation: the ring is not kicked.
Stage(ios)     == sq' = sq \union ios /\ UNCHANGED ring
Kick_lazy(ios) == Stage(ios)
Kick(ios)      == ring' = ring \union sq \union ios /\ sq' = {}

\* The worker takes command c from the NSQ; it handles one at a time.
Take(c, rq) ==
    /\ cur = Idle
    /\ req[c] = None
    /\ req' = [req EXCEPT ![c] = rq]

\* do_read within one cluster: zeroes for an unmapped cluster, else the
\* router is told where to read.
ReadOne(c, rq) ==
    LET tl == translate_read(head, rq.blks[1])
    IN  /\ rq.op = "read" /\ Len(rq.blks) = 1
        /\ Take(c, rq)
        /\ Send(c, IF valid(tl) THEN Entry_(TRUE, tl) ELSE ZeroBlock)
        /\ UNCHANGED <<vars, cur, count, clock, wq, sq, ring>>

\* do_read over several clusters: one readv per mapped cluster.
ReadMany(c, rq) ==
    LET tls == {translate_read(head, rq.blks[b]) : b \in 1 .. Len(rq.blks)}
        ios == {Rw(c, tl.off) : tl \in {x \in tls : valid(x)}}
    IN  /\ rq.op = "read" /\ Len(rq.blks) > 1
        /\ Take(c, rq)
        /\ \/ /\ ios = {}
              /\ Send(c, Plain(TRUE))
              /\ UNCHANGED <<count, sq, ring>>
           \/ /\ ios # {}
              /\ count' = [count EXCEPT ![c] = Cardinality(ios)]
              /\ Kick(ios)
              /\ UNCHANGED sent
        /\ UNCHANGED <<vars, cur, clock, wq>>

\* do_flush: one fsync.
Flush(c, rq) ==
    /\ rq.op = "flush"
    /\ Take(c, rq)
    /\ count' = [count EXCEPT ![c] = 1]
    /\ Kick({Rw(c, 0)})
    /\ UNCHANGED <<vars, cur, clock, wq, sent>>

\* do_snapshot.  It waits for no transaction.
Snapshot(c, rq) ==
    /\ rq.op = "snapshot"
    /\ Take(c, rq)
    /\ \/ snap_create /\ Send(c, Plain(TRUE))
       \/ SnapCreateThrows /\ Send(c, Plain(FALSE))
       \/ /\ ~MetaSpace(l1_clusters)
          /\ Send(c, Plain(FALSE)) /\ UNCHANGED vars
    /\ UNCHANGED <<cur, count, clock, wq, sq, ring>>

-----------------------------------------------------------------------------
(* Writes.                                                                  *)

\* tx_write_prep throws hwm_exception.
MetaFull(v) ==
    LET r == Ref(head, l1_off(v)) IN ~(valid(r) /\ r.w) /\ ~MetaSpace(1)

\* What the rest of do_write leaves in wq when it finds v locked.
Cont(kind, c, v) == [kind |-> kind, c |-> c, v |-> v, m |-> NewTable(v)]

\* Mutation of Lock: the cluster is not locked.
Lock_missing(v) == UNCHANGED clock
Lock(v) == clock' = [clock EXCEPT ![v] = TRUE]

\* Mutation: the router is told before the allocation has completed.
WriteAlloc_early(c, rq) ==
    LET v == rq.blks[1] IN
    /\ rq.op = "write" /\ Len(rq.blks) = 1
    /\ Take(c, rq)
    /\ ~clock[v]
    /\ BeginTx(v)
    /\ Lock(v)
    /\ Kick({Alloc(NoCmd, t) : t \in tx' \ tx})
    /\ Send(c, Paddr(TRUE, snaps[head].disk_hwm))
    /\ UNCHANGED <<cur, count, wq>>

\* do_write within one cluster that must be allocated: the command's own
\* ticket waits for the allocation.
WriteAlloc(c, rq) ==
    LET v == rq.blks[1] IN
    /\ rq.op = "write" /\ Len(rq.blks) = 1
    /\ Take(c, rq)
    /\ ~clock[v]
    /\ BeginTx(v)
    /\ Lock(v)
    /\ Kick({Alloc(c, t) : t \in tx' \ tx})
    /\ UNCHANGED <<cur, count, wq, sent>>

\* ... whose cluster is locked: the reply waits in wq.
WriteQueued(c, rq) ==
    LET v == rq.blks[1] IN
    /\ rq.op = "write" /\ Len(rq.blks) = 1
    /\ Take(c, rq)
    /\ clock[v]
    /\ tx_write_prep(v)
    /\ wq' = wq \union {Cont("reply", c, v)}
    /\ UNCHANGED <<cur, count, clock, sq, ring, sent>>

\* ... whose entry is ready: the router is told where to write.
WriteReady(c, rq) ==
    LET v == rq.blks[1] IN
    /\ rq.op = "write" /\ Len(rq.blks) = 1
    /\ Take(c, rq)
    /\ ~clock[v]
    /\ tx_write_prep(v)
    /\ ~needs_alloc(NewEntry(v))
    /\ Send(c, Entry_(TRUE, NewEntry(v)))
    /\ UNCHANGED <<cur, count, clock, wq, sq, ring>>

\* The exceptions of tx_write_prep and alloc_data_cluster for cluster v:
\* submit_async answers "capacity exceeded"; a new leaf table stays.
Throws(v) ==
    \/ MetaFull(v) /\ UNCHANGED vars
    \/ /\ ~clock[v]
       /\ tx_write_prep(v)
       /\ needs_alloc(NewEntry(v))
       /\ DiskFull

WriteThrows(c, rq) ==
    /\ rq.op = "write" /\ Len(rq.blks) = 1
    /\ Take(c, rq)
    /\ Throws(rq.blks[1])
    /\ Send(c, Plain(FALSE))
    /\ UNCHANGED <<cur, count, clock, wq, sq, ring>>

\* do_write over several clusters: the loop starts ...
WriteMany(c, rq) ==
    /\ rq.op = "write" /\ Len(rq.blks) > 1
    /\ Take(c, rq)
    /\ cur' = [c |-> c, blks |-> rq.blks]
    /\ UNCHANGED <<vars, count, clock, wq, sq, ring, sent>>

\* ... and handles one cluster per iteration.  The ticket counts every
\* piece; the last iteration returns the ticket, which kicks the ring.
Piece(ios) ==
    /\ count' = [count EXCEPT ![cur.c] = count[cur.c] + 1]
    /\ \/ Len(cur.blks) > 1 /\ Stage(ios) /\ cur' = [c |-> cur.c, blks |-> Tail(cur.blks)]
       \/ Len(cur.blks) = 1 /\ Kick(ios) /\ cur' = Idle
    /\ UNCHANGED <<req, sent>>

PieceAlloc ==
    LET v == cur.blks[1] IN
    /\ cur # Idle
    /\ ~clock[v]
    /\ BeginTx(v)
    /\ Lock(v)
    /\ wq' = wq \union {Cont("io", cur.c, v)}
    /\ Piece({Alloc(NoCmd, t) : t \in tx' \ tx})

PieceQueued ==
    LET v == cur.blks[1] IN
    /\ cur # Idle
    /\ clock[v]
    /\ tx_write_prep(v)
    /\ wq' = wq \union {Cont("io", cur.c, v)}
    /\ Piece({})
    /\ UNCHANGED clock

PieceReady ==
    LET v == cur.blks[1] IN
    /\ cur # Idle
    /\ ~clock[v]
    /\ tx_write_prep(v)
    /\ ~needs_alloc(NewEntry(v))
    /\ Piece({Rw(cur.c, NewEntry(v).off)})
    /\ UNCHANGED <<clock, wq>>

\* The exception leaves the loop: earlier pieces stay prepared, unkicked.
PieceThrows ==
    /\ cur # Idle
    /\ Throws(cur.blks[1])
    /\ Send(cur.c, Plain(FALSE))
    /\ cur' = Idle
    /\ UNCHANGED <<req, count, clock, wq, sq, ring>>

-----------------------------------------------------------------------------
(* Completions.                                                             *)

\* Mutation: one continuation per unlock.
Drained_one(v, ok) ==
    LET queue == {d \in wq : d.v = v}
    IN  IF queue = {} THEN {{}} ELSE {{d} : d \in queue}

\* The continuations the drain loop takes out of wq for cluster v.  A
\* continuation that returns a ticket (a write to submit) ends the loop;
\* the order of equal keys in the multimap is its own.
Drained(v, ok) ==
    LET queue  == {d \in wq : d.v = v}
        writes == {d \in queue : d.kind = "io"}
    IN  IF ok /\ writes # {}
        THEN {R \union {d} : R \in SUBSET (queue \ writes), d \in writes}
        ELSE {queue}

\* What continuation d replies.  *entry is read after the commit.
ContReply(d, ok) ==
    IF d.kind = "reply" THEN Entry_(ok, l0'[d.m][l0_off(d.v)]) ELSE Plain(ok)

\* The last I/O of an allocation's ticket completes: reply, commit (or not),
\* unlock, drain.
AllocDone(io, ok) ==
    LET v == io.t.v IN
    /\ cur = Idle
    /\ IsAlloc(io)
    /\ ok \/ MayFail
    /\ IF ok THEN tx_write_commit(io.t) ELSE Abort(io.t)
    /\ clock' = [clock EXCEPT ![v] = FALSE]
    /\ \E D \in Drained(v, ok) :
          LET writes  == {d \in D : d.kind = "io"}
              replies == IF ok THEN D \ writes ELSE D
              ios     == {Rw(d.c, l0'[d.m][l0_off(d.v)].off) : d \in writes}
          IN  /\ wq' = wq \ D
              /\ sent' = [c \in Cmd |->
                    IF c = io.tag THEN Append(sent[c], Paddr(ok, io.t.out))
                    ELSE IF \E d \in replies : d.c = c
                    THEN Append(sent[c], ContReply(CHOOSE d \in replies : d.c = c, ok))
                    ELSE sent[c]]
              /\ \/ /\ ok /\ writes # {}
                    /\ ring' = (ring \ {io}) \union sq \union ios /\ sq' = {}
                    /\ UNCHANGED count
                 \/ /\ ~(ok /\ writes # {})
                    /\ ring' = ring \ {io} /\ UNCHANGED sq
                    /\ count' = [c \in Cmd |->
                          IF \E d \in writes : d.c = c THEN count[c] - 1 ELSE count[c]]
    /\ UNCHANGED <<req, cur>>

\* Mutation: every completion of the ticket replies.
RwDone_each(io, ok) ==
    LET c == io.tag IN
    /\ cur = Idle
    /\ ~IsAlloc(io)
    /\ ok \/ MayFail
    /\ ring' = ring \ {io}
    /\ count' = [count EXCEPT ![c] = count[c] - 1]
    /\ Send(c, Plain(ok))
    /\ UNCHANGED <<vars, req, cur, clock, wq, sq>>

\* A read, write or fsync completes; the last one of the ticket replies,
\* with its own result.
RwDone(io, ok) ==
    LET c == io.tag IN
    /\ cur = Idle
    /\ ~IsAlloc(io)
    /\ ok \/ MayFail
    /\ ring' = ring \ {io}
    /\ count' = [count EXCEPT ![c] = count[c] - 1]
    /\ sent' = IF count[c] = 1 THEN [sent EXCEPT ![c] = Append(sent[c], Plain(ok))] ELSE sent
    /\ UNCHANGED <<vars, req, cur, clock, wq, sq>>

-----------------------------------------------------------------------------
Submit(c, rq) ==
    \/ ReadOne(c, rq) \/ ReadMany(c, rq) \/ Flush(c, rq) \/ Snapshot(c, rq)
    \/ WriteAlloc(c, rq) \/ WriteQueued(c, rq) \/ WriteReady(c, rq) \/ WriteThrows(c, rq)
    \/ WriteMany(c, rq)

WritePiece == PieceAlloc \/ PieceQueued \/ PieceReady \/ PieceThrows

Complete(io) == \E ok \in BOOLEAN : AllocDone(io, ok) \/ RwDone(io, ok)

SrvNext ==
    \/ \E c \in Cmd, rq \in Requests : Submit(c, rq)
    \/ WritePiece
    \/ \E io \in ring : Complete(io)

SrvSpec == SrvInit /\ [][SrvNext]_allVars

\* The worker polls forever, and the kernel completes what was submitted.
SrvFair ==
    /\ SrvSpec
    /\ WF_allVars(WritePiece)
    /\ WF_allVars(\E io \in ring : Complete(io))

-----------------------------------------------------------------------------
(* Properties.                                                              *)

IoType == [tag : Cmd \union {NoCmd}, t : Tx \union {NoTx}, cl : Nat]

\* Types of the server's state; count never goes below zero.
SrvTypeOK ==
    /\ TypeOK
    /\ req \in [Cmd -> Requests \union {None}]
    /\ cur.c \in Cmd \union {NoCmd} /\ (cur = Idle) = (cur.c = NoCmd)
    /\ count \in [Cmd -> Nat]
    /\ clock \in [Vblk -> BOOLEAN]
    /\ wq \subseteq [kind : {"reply", "io"}, c : Cmd, v : Vblk, m : Meta]
    /\ sq \union ring \subseteq IoType

\* A cluster is locked exactly while one allocation of it is in flight, and
\* that allocation is still known to the ring: nothing is locked forever.
LockHeld ==
    \A v \in Vblk :
       /\ clock[v] <=> Locked(v)
       /\ clock[v] => Cardinality({io \in sq \union ring : IsAlloc(io) /\ io.t.v = v}) = 1

\* The race nvme_xcow.cpp:142-154 describes: no write is let through to a
\* data cluster (by a reply to the router or by the server's own writev)
\* before the zeroing or copying of that cluster has completed.
NoWriteDuringAlloc ==
    \A a \in {io \in sq \union ring : IsAlloc(io)} :
       /\ \A c \in Cmd : \A n \in 1 .. Len(sent[c]) :
             sent[c][n].fwd => sent[c][n].cl # a.t.out
       /\ \A io \in sq \union ring : ~IsAlloc(io) => io.cl # a.t.out

\* Every command is answered at most once, unless its first answer reports
\* the failure of a piece: the pieces left of it then answer for themselves.
OneReply == \A c \in Cmd : Len(sent[c]) > 1 => ~sent[c][1].ok

\* c's last reply sends the guest's data where the address translates to.
Resolved(c) ==
    LET r == sent[c][Len(sent[c])]
    IN  r.ok /\ r.fwd => translate_read(head, req[c].blks[1]).off = r.cl

\* A successful write within one cluster is acknowledged with the cluster
\* that reads of the address use from then on.
AckedWhereRead ==
    [][\A c \in Cmd :
          Len(sent'[c]) > Len(sent[c]) /\ req'[c].op = "write" => Resolved(c)']_allVars

\* Draining leaves nothing behind: work is queued only behind a lock.
QueueDrained == \A d \in wq : clock[d.v]

\* Every command taken is answered.
Answered == \A c \in Cmd : (req[c] # None) ~> (sent[c] # <<>>)

\* The server drives the map file only through the steps of XcowFile.
RefinesFile == [][Next]_vars

=============================================================================
