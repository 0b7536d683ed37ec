----------------------------- MODULE XcowCache -----------------------------
(***************************************************************************)
(* The XCOW data path: the program nmbpf_xcow with its translation cache   *)
(* (LbaCache), the server (XcowSrv) on the map file (XcowFile), the rings  *)
(* between them and the data disk's contents.                              *)
(*                                                                         *)
(* A command is taken from a virtual queue and routed by the program to    *)
(* the host queue ("hq") where the cache translates it, else to the server *)
(* ("nsq", "srv"), whose response ("ncq") the program caches and forwards. *)
(* The rings of each queue are FIFO (CmdFifo); the kernel and the server's *)
(* one worker visit the queues in any order; the disk takes the commands   *)
(* of the host queue in any order.                                         *)
(*                                                                         *)
(* Commands stay within a cluster, as the namespace's noiob asks of the    *)
(* guest (nvme_xcow.cpp:44), and do not overlap commands in flight.        *)
(* Opcodes other than read, write, write zeroes and snapshot go to the     *)
(* host queue and touch neither the cache nor the contents.                *)
(***************************************************************************)
EXTENDS XcowSrv, LbaCache

CONSTANTS
    Queues,          \* the I/O queues, each with its NSQ and NCQ
    Offs,            \* blocks of a cluster
    Asked,           \* what the guest may ask: [op, v, off]
    BandReturns,     \* what bpf_arraymap_elem_band may return
    Quiesced,        \* snapshots are asked for with nothing else in flight
    SharedReads,     \* the guest reads under a leaf table older snapshots share
    MovesBack,       \* the controller may be moved to a processor it has used
    FirstZeroed      \* cluster 0 of the data disk was zeroed before it was used

\* Commands are numbered in the order they are taken, and a write writes
\* its number.  0 is a block of zeroes, Junk what the disk held before.
Junk  == Cardinality(Cmd) + 1
Value == 0 .. Junk
Disk  == 0 .. DiskHwmLimit

\* What a guest's command asks of the server.
Request(r) == [op |-> r.op, blks |-> IF r.op = "snapshot" THEN <<>> ELSE <<r.v>>]

\* The server is asked what the guest asks; the disk has at least the
\* cluster that formatting skips.
ASSUME PathAssumption ==
    /\ IsFiniteSet(Cmd) /\ Cmd = 1 .. Cardinality(Cmd)
    /\ Asked \subseteq [op : {"read", "write", "zeroes", "snapshot"}, v : Vblk, off : Offs]
    /\ Requests = {Request(r) : r \in Asked}
    /\ DiskHwmLimit >= 1

VARIABLES
    cmd,      \* what each command asked, and its queue
    stage,    \* where it is: "new", "nsq", "srv", "ncq", "hq", "done"
    slba,     \* the cluster on the data disk a forwarded command uses
    nsq,      \* commands sent to the server, per queue
    ncq,      \* commands the server has answered, per queue
    disk,     \* contents of the data disk
    bandRet,  \* what bpf_arraymap_elem_band returns in this kernel
    last,     \* per block, the last write that was served
    frozen    \* per superseded snapshot and block, the values it may hold

pathVars == <<cmd, stage, slba, nsq, ncq, disk, bandRet, last, frozen>>
dataVars == <<allVars, cacheVars, pathVars>>

NoReq == [op |-> "none", v |-> 0, off |-> 0, q |-> 0]

\* What snapshot k holds.
Contents(k) ==
    [v \in Vblk |-> [o \in Offs |->
       IF valid(translate_read(k, v)) THEN disk[translate_read(k, v).off][o] ELSE 0]]

\* Formatting skips cluster 0, the one a VALID answer for an empty entry
\* names, and does not write it.
PathInit ==
    /\ SrvInit
    /\ CacheInit
    /\ cmd = [c \in Cmd |-> NoReq]
    /\ stage = [c \in Cmd |-> "new"]
    /\ slba = [c \in Cmd |-> 0]
    /\ nsq = [q \in Queues |-> <<>>]
    /\ ncq = [q \in Queues |-> <<>>]
    /\ disk = [d \in Disk |-> [o \in Offs |-> IF d = 0 /\ FirstZeroed THEN 0 ELSE Junk]]
    /\ bandRet \in BandReturns
    /\ last = Contents(head)
    /\ frozen = [k \in 1 .. head - 1 |-> [v \in Vblk |-> [o \in Offs |-> {Contents(k)[v][o]}]]]

InFlight(c) == stage[c] \notin {"new", "done"}
IsRw(r)     == r.op \in {"read", "write", "zeroes"}

Overlap(r, s) ==
    /\ IsRw(r) /\ IsRw(s)
    /\ r.v = s.v /\ r.off = s.off
    /\ r.op # "read" \/ s.op # "read"

\* The head still uses an older snapshot's leaf table for v.
Shared(v) == valid(Ref(head, l1_off(v))) /\ ~Ref(head, l1_off(v)).w

\* The guest's side of a command c with request r.
MayIssue(c, r) ==
    /\ stage[c] = "new"
    /\ \A d \in Cmd : d < c => stage[d] # "new"
    /\ \A d \in Cmd : InFlight(d) => ~Overlap(r, cmd[d])
    /\ Quiesced => \A d \in Cmd : InFlight(d) => r.op # "snapshot" /\ cmd[d].op # "snapshot"
    /\ r.op = "read" /\ ~SharedReads => ~Shared(r.v)

Accept(c, r, q, to) ==
    /\ cmd' = [cmd EXCEPT ![c] = [op |-> r.op, v |-> r.v, off |-> r.off, q |-> q]]
    /\ stage' = [stage EXCEPT ![c] = to]
    /\ nsq' = IF to = "nsq" THEN [nsq EXCEPT ![q] = Append(nsq[q], c)] ELSE nsq
    /\ UNCHANGED <<allVars, otherCpus, ncq, disk, bandRet, last, frozen>>

-----------------------------------------------------------------------------
(* nvme_run_bpf at the VSQ hook.                                            *)

\* The cache has a translation the command may use.  Mutation: WRITABLE is
\* not asked for.
Translated_any(r) == Cached(r.v)
Translated(r)     == Cached(r.v) /\ (r.op = "read" \/ Found(r.v).wr)

\* nm_do_rw: the translated command goes to the host queue ...
vsq_hit(c, r, q) ==
    /\ IsRw(r)
    /\ MayIssue(c, r)
    /\ Translated(r)
    /\ lba_lookup(r.v)
    /\ slba' = [slba EXCEPT ![c] = Found(r.v).plba]
    /\ Accept(c, r, q, "hq")
    /\ UNCHANGED ways

\* ... any other to the server, a write after dropping what is cached.
vsq_miss(c, r, q) ==
    /\ IsRw(r)
    /\ MayIssue(c, r)
    /\ ~Translated(r)
    /\ lba_lookup(r.v)
    /\ IF r.op = "read" THEN UNCHANGED ways ELSE lba_flush_range(r.v)
    /\ Accept(c, r, q, "nsq")
    /\ UNCHANGED slba

\* Mutation: the cache is left as it is.
vsq_snapshot_keep(c, r, q) ==
    /\ r.op = "snapshot"
    /\ MayIssue(c, r)
    /\ Accept(c, r, q, IF bandRet = Lines THEN "nsq" ELSE "done")
    /\ UNCHANGED <<slba, ways, mru>>

\* Opcode 0x81: WRITABLE is cleared in this processor's maps; the command is
\* completed with an error unless the helper returned the number of lines.
vsq_snapshot(c, r, q) ==
    /\ r.op = "snapshot"
    /\ MayIssue(c, r)
    /\ lba_clear_writable
    /\ Accept(c, r, q, IF bandRet = Lines THEN "nsq" ELSE "done")
    /\ UNCHANGED <<slba, mru>>

-----------------------------------------------------------------------------
(* The server.                                                              *)

\* submit_async has no case for write zeroes.
WriteZeroes(c, rq) ==
    /\ rq.op = "zeroes"
    /\ Take(c, rq)
    /\ Send(c, Plain(FALSE))
    /\ UNCHANGED <<vars, cur, count, clock, wq, sq, ring>>

Replied == {c \in Cmd : Len(sent'[c]) > Len(sent[c])}

\* The sequences that list S once.
Orders(S) ==
    {f \in [1 .. Cardinality(S) -> S] : \A i, j \in DOMAIN f : f[i] = f[j] => i = j}

\* process_reply puts the replies into the NCQs of their queues: that to c
\* first, if there is one, then those of a drain in any order.
Respond(c) ==
    \E s \in [Queues -> UNION {Orders(S) : S \in SUBSET Replied}] :
       /\ \A q \in Queues : /\ s[q] \in Orders({d \in Replied : cmd[d].q = q})
                            /\ c \in Replied /\ cmd[c].q = q => s[q][1] = c
       /\ ncq' = [q \in Queues |-> ncq[q] \o s[q]]

\* Where the commands are after a step of the server that takes c (0: none).
Move(c) == stage' = [d \in Cmd |-> IF d \in Replied THEN "ncq"
                                   ELSE IF d = c THEN "srv" ELSE stage[d]]

\* What block o of cluster v may hold in a snapshot superseded now: what
\* was served last, or a write in flight.
Possible(v, o) ==
    {last[v][o]}
       \union {d \in Cmd : InFlight(d) /\ cmd[d].op = "write" /\ cmd[d].v = v /\ cmd[d].off = o}
       \union (IF \E d \in Cmd : InFlight(d) /\ cmd[d].op = "zeroes" /\ cmd[d].v = v /\ cmd[d].off = o
               THEN {0} ELSE {})

\* The worker takes a command from an NSQ.
srv_take(q) ==
    /\ nsq[q] # <<>>
    /\ LET c == Head(nsq[q]) IN
       /\ Submit(c, Request(cmd[c])) \/ WriteZeroes(c, Request(cmd[c]))
       /\ Move(c)
       /\ Respond(c)
    /\ nsq' = [nsq EXCEPT ![q] = Tail(nsq[q])]
    /\ frozen' = IF Len(snaps') > Len(snaps)
                 THEN Append(frozen, [v \in Vblk |-> [o \in Offs |-> Possible(v, o)]])
                 ELSE frozen
    /\ UNCHANGED <<cacheVars, cmd, slba, disk, bandRet, last>>

\* What the allocation of transaction t leaves in its cluster: a copy of the
\* cluster its entry still refers to, or zeroes.
Allocated(t) ==
    LET e == l0[t.m][l0_off(t.v)] IN IF valid(e) THEN disk[e.off] ELSE [o \in Offs |-> 0]

\* An allocation completes: its command is answered, then those queued
\* behind it in any order.
srv_done(io) ==
    /\ \E ok \in BOOLEAN :
          /\ AllocDone(io, ok)
          /\ disk' = IF ok THEN [disk EXCEPT ![io.t.out] = Allocated(io.t)] ELSE disk
    /\ Move(0)
    /\ Respond(io.tag)
    /\ UNCHANGED <<cacheVars, cmd, slba, nsq, bandRet, last, frozen>>

-----------------------------------------------------------------------------
(* nvme_run_bpf at the NFD_WRITE hook, and the host queue.                  *)

\* A write that was served becomes what reads must return.
Served(c) ==
    last' = IF cmd[c].op = "read" THEN last
            ELSE [last EXCEPT ![cmd[c].v] = [last[cmd[c].v] EXCEPT ![cmd[c].off] =
                    IF cmd[c].op = "write" THEN c ELSE 0]]

Answer(c) == sent[c][Len(sent[c])]

TakeNcq(q, to) ==
    /\ ncq' = [ncq EXCEPT ![q] = Tail(ncq[q])]
    /\ stage' = [stage EXCEPT ![Head(ncq[q])] = to]
    /\ UNCHANGED <<allVars, otherCpus, cmd, nsq, disk, bandRet, last, frozen>>

\* nm_on_rw_respond: a VALID answer is cached whatever its status, and the
\* command goes to the host queue if the answer says FORWARD.
ncq_valid(q) ==
    /\ ncq[q] # <<>>
    /\ LET c == Head(ncq[q])
           a == Answer(c)
       IN  /\ IsRw(cmd[c]) /\ a.vld
           /\ lba_update(cmd[c].v, a.cl, a.wr)
           /\ slba' = IF a.fwd THEN [slba EXCEPT ![c] = a.cl] ELSE slba
           /\ TakeNcq(q, IF a.fwd THEN "hq" ELSE "done")

\* Any other answer drops what is cached and completes the command.
ncq_plain(q) ==
    /\ ncq[q] # <<>>
    /\ LET c == Head(ncq[q])
       IN  /\ IsRw(cmd[c]) /\ ~Answer(c).vld
           /\ lba_flush_range(cmd[c].v)
           /\ TakeNcq(q, "done")
    /\ UNCHANGED <<mru, slba>>

\* The answer to a snapshot completes it without a hook.
ncq_snapshot(q) ==
    /\ ncq[q] # <<>>
    /\ cmd[Head(ncq[q])].op = "snapshot"
    /\ TakeNcq(q, "done")
    /\ UNCHANGED <<cacheVars, slba>>

\* The disk performs a command of the host queue, at the cluster it was
\* translated to.
hq_done(c) ==
    /\ stage[c] = "hq"
    /\ disk' = IF cmd[c].op = "read" THEN disk
               ELSE [disk EXCEPT ![slba[c]] = [disk[slba[c]] EXCEPT ![cmd[c].off] =
                       IF cmd[c].op = "write" THEN c ELSE 0]]
    /\ Served(c)
    /\ stage' = [stage EXCEPT ![c] = "done"]
    /\ UNCHANGED <<allVars, cacheVars, cmd, slba, nsq, ncq, bandRet, frozen>>

-----------------------------------------------------------------------------
(* The controller's iothread.                                               *)

\* A write to iothread_idx binds the controller to the iothread of another
\* processor, whose copy of the maps the program uses from then on.
move(p) ==
    /\ p # cpu
    /\ MovesBack \/ copies[p] = Empty
    /\ run_on(p)
    /\ UNCHANGED <<allVars, pathVars>>

-----------------------------------------------------------------------------
Vsq(c, r, q) == vsq_hit(c, r, q) \/ vsq_miss(c, r, q) \/ vsq_snapshot(c, r, q)
Ncq(q)       == ncq_valid(q) \/ ncq_plain(q) \/ ncq_snapshot(q)

PathNext ==
    \/ \E c \in Cmd, r \in Asked, q \in Queues : Vsq(c, r, q)
    \/ \E q \in Queues : srv_take(q) \/ Ncq(q)
    \/ \E io \in ring : srv_done(io)
    \/ \E c \in Cmd : hq_done(c)
    \/ \E p \in Cpus : move(p)

PathSpec == PathInit /\ [][PathNext]_dataVars

-----------------------------------------------------------------------------
(* Properties.                                                              *)

\* Types of the data path's state.
PathTypeOK ==
    /\ SrvTypeOK
    /\ CacheTypeOK /\ CopiesTypeOK
    /\ stage \in [Cmd -> {"new", "nsq", "srv", "ncq", "hq", "done"}]
    /\ slba \in [Cmd -> Disk]
    /\ nsq \in [Queues -> Seq(Cmd)] /\ ncq \in [Queues -> Seq(Cmd)]
    /\ disk \in [Disk -> [Offs -> Value]]
    /\ last \in [Vblk -> [Offs -> Value]]

\* A read returns the last write of its block that was served, or zeroes: by
\* the disk at the cluster it was translated to, or by the server's own
\* zeroes.
ReadsLastWrite ==
    [][\A c \in Cmd :
          cmd[c].op = "read" /\ stage[c] # "done" /\ stage'[c] = "done" =>
             last[cmd[c].v][cmd[c].off] =
                IF stage[c] = "hq" THEN disk[slba[c]][cmd[c].off] ELSE 0]_dataVars

\* A superseded snapshot keeps the contents the disk had when it was taken,
\* whatever the guest writes afterwards.
SnapshotIntact ==
    \A k \in 1 .. Len(frozen), v \in Vblk, o \in Offs :
       \/ Contents(k)[v][o] \in frozen[k][v][o]
       \/ \E c \in Cmd : InFlight(c) /\ c \in frozen[k][v][o]

\* Every translation cached where the program runs is the head's, or a
\* response that says so is still in an NCQ; one cached as writable belongs to no older snapshot and
\* to no allocation in flight.
CacheAgrees ==
    \A v \in Vblk : \A i \in Holding(v) :
       LET e == ways[idx(v)][i]
       IN  /\ \/ e.plba = translate_read(head, v).off
              \/ \E c \in Cmd : stage[c] = "ncq" /\ cmd[c].v = v
                                  /\ Answer(c).cl = translate_read(head, v).off
           /\ e.wr => /\ \A k \in 1 .. head - 1, u \in Vblk : translate_read(k, u).off # e.plba
                      /\ \A t \in tx : t.out # e.plba

=============================================================================
