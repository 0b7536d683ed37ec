-------------------------------- MODULE Uif --------------------------------
(***************************************************************************)
(* The replicators and encryptors: userspace functions that serve the NSQs *)
(* of a virtual controller with several worker threads.                    *)
(*                                                                         *)
(* A worker polls its queues in turn and takes bursts of commands.  The    *)
(* synchronous programs handle a burst and then post its responses; the    *)
(* others prepare disk I/O on an io_uring, with the queue's index and the  *)
(* command's identifier in a ticket, kick the ring after some passes, and  *)
(* answer when a completion carries the ticket back.  Replicators write    *)
(* what the guest wrote; encryptors write it encrypted with the LBA as     *)
(* the tweak, and decrypt reads in the guest's buffer, where the host      *)
(* queue has put the ciphertext.                                           *)
(*                                                                         *)
(* A sector is [p, k], the plaintext and the tweak it is encrypted with.   *)
(* The commands carry PRPs (the controller advertises no SGLs), and the    *)
(* guest has no two commands for the same blocks under way.                *)
(***************************************************************************)
EXTENDS Integers, Sequences, FiniteSets

CONSTANTS
    Queues,       \* I/O queues, 1 .. n
    Lbas,         \* logical blocks of a device
    Deployments,  \* [prog, nthreads, dev, faults, cmds]: what is started, and under what
    Burst,        \* NOTIFYFD_BURST: commands taken from a queue at a time
    CqBurst,      \* COMPLETION_BURST: completions taken from a ring at a time
    BusyLoops,    \* busypoll_loops: passes over the queues before a kick
    WzBlocks      \* wz_nblocks: blocks a write-zeroes is encrypted by

VARIABLES
    dep,     \* the deployment
    up,      \* the process is alive
    todo,    \* commands the guest has yet to issue
    nsq,     \* commands in each queue's NSQ
    ans,     \* responses to each command, as [q, st], q the NCQ it was put in
    buf,     \* the guest's buffer of each read
    disk,    \* sectors of the backing devices
    val,     \* what the guest knows each block to hold
    pc, at, ntry, succeeded, batch, resps,  \* each worker's loop
    encdirty,  \* leading blocks of each worker's _encbuf that are not zero
    sq, ring, done  \* io_uring: prepared, submitted, completed

guestVars  == <<todo, ans, buf, val>>
workerVars == <<pc, at, ntry, succeeded, batch, resps, encdirty>>
uringVars  == <<sq, ring, done>>
uifVars    == <<dep, up, nsq, disk, guestVars, workerVars, uringVars>>

-----------------------------------------------------------------------------
(* The programs, as the shape of their worker_func.                        *)

\* Every pass is made whether or not it found commands; each burst is handled
\* and then answered (or, in replicator-aio, the ring is kicked at the end).
replicator        == [async |-> FALSE, allpasses |-> TRUE, multi |-> FALSE]
replicator_aio    == [async |-> TRUE, allpasses |-> TRUE, multi |-> FALSE]
encryptor_mt      == [async |-> FALSE, allpasses |-> TRUE, multi |-> FALSE]
encryptor_sgx     == [async |-> FALSE, allpasses |-> TRUE, multi |-> FALSE]
\* The passes end with the first that found commands; the ring is kicked if
\* something was queued on it.
encryptor_aio     == [async |-> TRUE, allpasses |-> FALSE, multi |-> FALSE]
encryptor_sgx_aio == [async |-> TRUE, allpasses |-> FALSE, multi |-> FALSE]
\* The same with a ring per device, which all workers of the device share.
encryptor_multi   == [async |-> TRUE, allpasses |-> FALSE, multi |-> TRUE]

Loop ==
    [replicator |-> replicator, replicator_aio |-> replicator_aio,
     encryptor_mt |-> encryptor_mt, encryptor_aio |-> encryptor_aio,
     encryptor_multi |-> encryptor_multi, encryptor_sgx |-> encryptor_sgx,
     encryptor_sgx_aio |-> encryptor_sgx_aio]
Programs == DOMAIN Loop
loop    == Loop[dep.prog]
Sending == dep.prog \in {"replicator", "replicator_aio"}

Workers == 0 .. dep.nthreads - 1

\* The queues of a worker, in the order of its vectors sqids and sqfds.
sqids(t) ==
    LET own[i \in 0 .. Cardinality(Queues)] ==
          IF i = 0 THEN <<>>
          ELSE IF (i - 1) % dep.nthreads = t THEN Append(own[i - 1], i)
          ELSE own[i - 1]
    IN  own[Cardinality(Queues)]

\* The rings a worker reads completions from: its own, or one per context.
RingOf(t, q) == IF loop.multi THEN dep.dev[q] ELSE t
Rings(t)     == IF loop.multi THEN [i \in DOMAIN sqids(t) |-> dep.dev[sqids(t)[i]]] ELSE <<t>>
AllRings     == (0 .. Cardinality(Queues))

-----------------------------------------------------------------------------
(* What is started.                                                        *)

Command == [id : Nat, q : Queues, op : {"read", "write", "zeroes", "flush", "other"}, slba : Nat, n : Nat]
Faults  == {"check", "crypt", "enclave", "short", "io", "eof"}

\* Queue numbers and logical blocks are intervals.  A command has an
\* identifier of its own and stays within the device; n counts the blocks it
\* transfers.  There are at most as many threads as descriptors, the admin
\* queue's included (sqfds.size()), but encryptor-multi takes any number.
ASSUME UifAssumption ==
    /\ IsFiniteSet(Queues) /\ Queues = 1 .. Cardinality(Queues) /\ Queues # {}
    /\ IsFiniteSet(Lbas) /\ Lbas = 0 .. Cardinality(Lbas) - 1
    /\ {Burst, CqBurst, BusyLoops, WzBlocks} \subseteq Nat \ {0}
    /\ \A d \in Deployments :
         /\ d \in [prog : Programs, nthreads : Nat \ {0}, dev : [Queues -> AllRings],
                   faults : SUBSET Faults, cmds : SUBSET Command]
         /\ Loop[d.prog].multi \/ d.nthreads <= Cardinality(Queues) + 1
         /\ \A c, e \in d.cmds : c.id = e.id => c = e
         /\ \A c \in d.cmds : c.slba + c.n <= Cardinality(Lbas)
         /\ \A c \in d.cmds : c.op \in {"flush", "other"} => c.n = 0

\* A device's queues are served by one worker.
Owned(d) ==
    Loop[d.prog].multi =>
        \A p, q \in Queues : d.dev[p] = d.dev[q] => (p - 1) % d.nthreads = (q - 1) % d.nthreads

\* No failure, command or combination of commands is met that the program
\* acknowledges without having written it.
Sound(d) ==
    LET has(op) == \E c \in d.cmds : c.op = op IN
    /\ d.prog \in {"encryptor_mt", "encryptor_sgx"} /\ has("write") => "eof" \notin d.faults
    /\ Loop[d.prog].async /\ (has("write") \/ (has("zeroes") /\ d.prog # "replicator_aio"))
          => "short" \notin d.faults
    /\ d.prog \in {"encryptor_aio", "encryptor_multi"} =>
          \A c \in d.cmds : c.op = "zeroes" => c.slba = 0 /\ c.n = 1
    /\ d.prog = "encryptor_sgx_aio" /\ (has("write") \/ has("zeroes")) => "crypt" \notin d.faults
    /\ d.prog = "encryptor_sgx" =>
          \A c \in d.cmds : c.op = "zeroes" =>
             /\ c.n <= WzBlocks
             /\ \A e \in d.cmds \ {c} : e.op \in {"write", "zeroes"} =>
                   (e.q - 1) % d.nthreads # (c.q - 1) % d.nthreads

\* Mutation: the tag is made of the queue's number instead of its index.
make_tag_sqid(qi, c) == <<qi + 1, c>>

\* A tag holds the worker's index of the queue and the command's identifier.
make_tag(qi, c) == <<qi, c>>

-----------------------------------------------------------------------------
(* Data.                                                                   *)

Zero    == <<0, 0>>
Junk    == <<-1, -1>>
Unknown == <<-2, -2>>
Clear   == -1                  \* the tweak of what is not encrypted

Addrs     == {dep.dev[q] : q \in Queues} \X Lbas
Blocks(c) == {<<dep.dev[c.q], l>> : l \in c.slba .. c.slba + c.n - 1}
Text(c, a) == IF c.op = "write" THEN <<c.id, a[2]>> ELSE Zero

encrypt(p, k) == [p |-> p, k |-> k]
decrypt(s, k) == IF s.k = k THEN s.p ELSE Junk

\* What a reader of the device makes of a sector.
View(s, a) == decrypt(s, IF Sending THEN Clear ELSE a[2])

\* What a command is to put on the device, and the parts of it that are there
\* when a write stops after k blocks.
Sent(c)      == [a \in Blocks(c) |-> encrypt(Text(c, a), Clear)]
Ciphered(c)  == [a \in Blocks(c) |-> encrypt(Text(c, a), a[2])]
First(c, w, k)  == [a \in {b \in Blocks(c) : b[2] < c.slba + k} |-> w[a]]
Partly(c, w)    == {First(c, w, k) : k \in {0} \union 1 .. c.n - 1}
ByChunk(c, w)   == {First(c, w, k) : k \in {j \in 0 .. c.n - 1 : j % WzBlocks = 0}}

Nothing     == <<>>
Over(f, g)  == [x \in DOMAIN f |-> IF x \in DOMAIN g THEN g[x] ELSE f[x]]

-----------------------------------------------------------------------------
(* The handlers: each denotes the set of outcomes of a command.  "reply"   *)
(* answers with st after writing w (for a read: after putting w into the   *)
(* guest's buffer); "queue" prepares I/O that writes w; "throw" is an      *)
(* exception nobody catches.                                               *)

Reply(st, w) == [how |-> "reply", st |-> st, w |-> w]
Queue(w)     == [how |-> "queue", st |-> "ok", w |-> w]
Throw        == [how |-> "throw", st |-> "ok", w |-> Nothing]

Faulty(f, outcomes) == IF f \in dep.faults THEN outcomes ELSE {}

\* The namespace or the length is refused: nvme_exception.
Checked(c, outcome) == IF c.op \in {"read", "write", "zeroes"} THEN Faulty("check", {outcome}) ELSE {}

\* Mutation: every block is decrypted with the command's first address.
receive_read_slba(c, failed) ==
    {Reply("ok", [a \in Blocks(c) |-> encrypt(decrypt(buf[c.id][a], c.slba), Clear)])}
        \union Faulty("crypt", {failed})

\* A read is decrypted block by block where the host queue has put it.
receive_read(c, failed) ==
    {Reply("ok", [a \in Blocks(c) |-> encrypt(decrypt(buf[c.id][a], a[2]), Clear)])} \union Faulty("crypt", {failed})

\* pwrite until nothing is left: a short write is continued, an error throws
\* into receive's handler, and end-of-file stops the loop with atEof.
pwrite_all(c, w, atEof) ==
    {Reply("ok", w)}
        \union Faulty("io", {Reply("internal", p) : p \in Partly(c, w)})
        \union Faulty("eof", {Reply(atEof, p) : p \in Partly(c, w)})

\* Mutation: a short write is taken for a success.
nvme_sender_short(t, c) ==
    IF c.op # "write" THEN {Reply("ok", Sent(c))}
    ELSE {Reply("ok", Sent(c))}
             \union Faulty("short", {Reply("ok", p) : p \in Partly(c, Sent(c))})
             \union Faulty("io", {Reply("internal", p) : p \in Partly(c, Sent(c))})

nvme_sender(t, c) ==
    Checked(c, Reply("refused", Nothing)) \union
    CASE c.op = "write" ->
           {Reply("ok", Sent(c))}
               \union Faulty("short", {Reply("internal", p) : p \in Partly(c, Sent(c))})
               \union Faulty("io", {Reply("internal", p) : p \in Partly(c, Sent(c))})
      [] c.op = "zeroes" ->
           {Reply("ok", Sent(c))} \union Faulty("io", {Reply("internal", p) : p \in Partly(c, Sent(c))})
      [] c.op = "flush" -> {Reply("ok", Nothing)} \union Faulty("io", {Reply("internal", Nothing)})
      [] OTHER -> {Reply("invalid_opcode", Nothing)}

nvme_sender_aio(t, c) ==
    Checked(c, Throw) \union
    CASE c.op \in {"write", "zeroes"} -> {Queue(Sent(c))}
      [] c.op = "flush" -> {Queue(Nothing)}
      [] OTHER -> {Reply("invalid_opcode", Nothing)}

nvme_encryptor(t, c) ==
    Checked(c, Reply("refused", Nothing)) \union
    CASE c.op = "read" -> receive_read(c, Reply("internal", Nothing))
      [] c.op = "write" ->
           pwrite_all(c, Ciphered(c), "ok") \union Faulty("crypt", {Reply("internal", Nothing)})
      [] c.op = "zeroes" ->
           pwrite_all(c, Ciphered(c), "lba_range")
               \union Faulty("crypt", {Reply("internal", p) : p \in ByChunk(c, Ciphered(c))})
      [] OTHER -> {Reply("internal", Nothing)}

\* submit_write_zeroes_async takes block cli at byte cli of the buffer and
\* encrypts it with tweak cli: of one block this is the block with tweak 0,
\* of more the ranges overlap and no block can be decrypted.
zeroes_overlapped(c) ==
    [a \in Blocks(c) |-> IF c.n = 1 THEN encrypt(Zero, 0) ELSE encrypt(Junk, Clear)]

nvme_encryptor_aio(t, c) ==
    Checked(c, Throw) \union
    CASE c.op = "read" -> receive_read(c, Reply("internal", Nothing))
      [] c.op = "write" -> {Queue(Ciphered(c))} \union Faulty("crypt", {Throw})
      [] c.op = "zeroes" -> {Queue(zeroes_overlapped(c))} \union Faulty("crypt", {Throw})
      [] c.op = "flush" -> {Queue(Nothing)}
      [] OTHER -> {Reply("invalid_opcode", Nothing)}

\* The handlers of the two classes are the same.
nvme_encryptor_multi(t, c) == nvme_encryptor_aio(t, c)

\* The enclave's calls: block by block, until a block fails, which makes the
\* result negative (~ok) and leaves the rest of the output as it was.
crypt_command_inplace(c) ==
    {[ok |-> TRUE, w |-> [a \in Blocks(c) |-> encrypt(decrypt(buf[c.id][a], a[2]), Clear)]]}
        \union Faulty("crypt", {[ok |-> FALSE, w |-> Nothing]})

crypt_command(c, out) ==
    {[ok |-> TRUE, w |-> Ciphered(c)]}
        \union Faulty("crypt", {[ok |-> FALSE, w |-> Over(out, p)] : p \in Partly(c, Ciphered(c))})

crypt_buffer_inplace(c, in) ==
    LET out == [a \in Blocks(c) |-> encrypt(in[a], a[2])]
    IN  {[ok |-> TRUE, w |-> out]}
            \union Faulty("crypt", {[ok |-> FALSE, w |-> Over([a \in Blocks(c) |-> encrypt(in[a], Clear)], p)]
                                      : p \in Partly(c, out)})

\* invoke throws when the call into the enclave itself fails.
Invoked(c, outcomes) == IF c.op \in {"read", "write", "zeroes"} THEN Faulty("enclave", outcomes) ELSE {}

\* receive_write_zeroes of encryptor-sgx encrypts what _encbuf holds, which is
\* zero only where no earlier command of the worker, and no earlier chunk of
\* this one, has been.
encbuf(t, c) ==
    [a \in Blocks(c) |->
        LET i == a[2] - c.slba IN IF encdirty[t] <= i /\ i < WzBlocks THEN Zero ELSE Junk]

\* The blocks of _encbuf that a command leaves non-zero.
Dirtied(c) == CASE c.op = "write"  -> c.n
                [] c.op = "zeroes" -> IF c.n < WzBlocks THEN c.n ELSE WzBlocks
                [] OTHER -> 0

nvme_encryptor_sgx(t, c) ==
    LET zeroed == [a \in Blocks(c) |-> encrypt(encbuf(t, c)[a], a[2])]
        before == IF c.op = "zeroes" THEN ByChunk(c, zeroed) ELSE {Nothing}
    IN
    Checked(c, Reply("refused", Nothing)) \union Invoked(c, {Reply("internal", p) : p \in before}) \union
    CASE c.op = "read" ->
           {Reply(IF r.ok THEN "ok" ELSE "internal", r.w) : r \in crypt_command_inplace(c)}
      [] c.op = "write" ->
           UNION {IF r.ok THEN pwrite_all(c, r.w, "ok") ELSE {Reply("internal", Nothing)}
                    : r \in crypt_command(c, Nothing)}
      [] c.op = "zeroes" ->
           UNION {IF r.ok THEN pwrite_all(c, r.w, "lba_range") ELSE {Reply("internal", p) : p \in before}
                    : r \in crypt_buffer_inplace(c, encbuf(t, c))}
      [] OTHER -> {Reply("internal", Nothing)}

\* The results of encrypting are not looked at: the ticket's memory is written
\* whatever it holds, at first what the allocator returned.
nvme_encryptor_sgx_aio(t, c) ==
    Checked(c, Throw) \union Invoked(c, {Throw}) \union
    CASE c.op = "read" ->
           {IF r.ok THEN Reply("ok", r.w) ELSE Throw : r \in crypt_command_inplace(c)}
      [] c.op = "write" ->
           {Queue(r.w) : r \in crypt_command(c, [a \in Blocks(c) |-> encrypt(Junk, Clear)])}
      [] c.op = "zeroes" ->
           {Queue(r.w) : r \in crypt_buffer_inplace(c, [a \in Blocks(c) |-> Zero])}
      [] c.op = "flush" -> {Queue(Nothing)}
      [] OTHER -> {Reply("invalid_opcode", Nothing)}

Outcomes(t, c) ==
    CASE dep.prog = "replicator"        -> nvme_sender(t, c)
      [] dep.prog = "replicator_aio"    -> nvme_sender_aio(t, c)
      [] dep.prog = "encryptor_mt"      -> nvme_encryptor(t, c)
      [] dep.prog = "encryptor_aio"     -> nvme_encryptor_aio(t, c)
      [] dep.prog = "encryptor_multi"   -> nvme_encryptor_multi(t, c)
      [] dep.prog = "encryptor_sgx"     -> nvme_encryptor_sgx(t, c)
      [] dep.prog = "encryptor_sgx_aio" -> nvme_encryptor_sgx_aio(t, c)

-----------------------------------------------------------------------------
(* The guest and the router.                                               *)

UnderWay(c) == c \notin todo /\ ans[c.id] = <<>>

\* A command reaches the NSQ.  For a read the host queue has already put the
\* device's blocks into the buffer; what the guest writes it no longer knows.
Issue(c) ==
    /\ c \in todo
    /\ \A d \in dep.cmds : UnderWay(d) => Blocks(c) \intersect Blocks(d) = {}
    /\ todo' = todo \ {c}
    /\ nsq' = [nsq EXCEPT ![c.q] = Append(@, c)]
    /\ buf' = IF c.op = "read" THEN [buf EXCEPT ![c.id] = [a \in Blocks(c) |-> disk[a]]] ELSE buf
    /\ val' = IF c.op \in {"write", "zeroes"} THEN Over(val, [a \in Blocks(c) |-> Unknown]) ELSE val
    /\ UNCHANGED <<dep, up, ans, disk, workerVars, uringVars>>

\* The answers after the responses rs, records [q, c, st], in their order.
Answered(rs) ==
    LET posted[i \in 0 .. Len(rs)] ==
          IF i = 0 THEN ans
          ELSE [posted[i - 1] EXCEPT ![rs[i].c.id] = Append(@, [q |-> rs[i].q, st |-> rs[i].st])]
    IN  posted[Len(rs)]

\* The responses are put into the NCQs; once the guest has one it relies on
\* what it wrote.
Post(rs) ==
    LET acked == {a \in Addrs : \E i \in DOMAIN rs :
                    rs[i].st = "ok" /\ rs[i].c.op \in {"write", "zeroes"} /\ a \in Blocks(rs[i].c)}
        by(a) == CHOOSE c \in {rs[i].c : i \in DOMAIN rs} : c.op \in {"write", "zeroes"} /\ a \in Blocks(c)
    IN  /\ ans' = Answered(rs)
        /\ val' = [a \in Addrs |-> IF a \in acked THEN Text(by(a), a) ELSE val[a]]

-----------------------------------------------------------------------------
(* The workers.                                                            *)

\* A worker looks at the next of its queues and takes what is there, at most
\* a burst.
Poll(t) ==
    /\ pc[t] = "poll" /\ at[t] <= Len(sqids(t))
    /\ LET q == sqids(t)[at[t]]
           n == IF Len(nsq[q]) < Burst THEN Len(nsq[q]) ELSE Burst
       IN  \/ /\ n = 0
              /\ at' = [at EXCEPT ![t] = @ + 1]
              /\ UNCHANGED <<pc, succeeded, batch, nsq>>
           \/ /\ n > 0
              /\ succeeded' = [succeeded EXCEPT ![t] = TRUE]
              /\ batch' = [batch EXCEPT ![t] = SubSeq(nsq[q], 1, n)]
              /\ nsq' = [nsq EXCEPT ![q] = SubSeq(@, n + 1, Len(@))]
              /\ pc' = [pc EXCEPT ![t] = "handle"]
              /\ UNCHANGED at
    /\ UNCHANGED <<dep, up, disk, guestVars, ntry, resps, encdirty, uringVars>>

\* A synchronous worker handles the next command of the burst.
Receive(t) ==
    LET c == Head(batch[t]) IN
    /\ pc[t] = "handle" /\ ~loop.async /\ batch[t] # <<>>
    /\ \E o \in Outcomes(t, c) :
         /\ resps' = [resps EXCEPT ![t] = Append(@, [q |-> sqids(t)[at[t]], c |-> c, st |-> o.st])]
         /\ IF c.op = "read"
              THEN buf' = [buf EXCEPT ![c.id] = Over(@, o.w)] /\ UNCHANGED disk
              ELSE disk' = Over(disk, o.w) /\ UNCHANGED buf
    /\ encdirty' = IF dep.prog = "encryptor_sgx" /\ Dirtied(c) > encdirty[t]
                     THEN [encdirty EXCEPT ![t] = Dirtied(c)] ELSE encdirty
    /\ batch' = [batch EXCEPT ![t] = Tail(@)]
    /\ UNCHANGED <<dep, up, nsq, todo, ans, val, pc, at, ntry, succeeded, uringVars>>

\* It then produces the responses of the burst, until the NCQ has taken all.
Produce(t) ==
    /\ pc[t] = "handle" /\ ~loop.async /\ batch[t] = <<>>
    /\ Post(resps[t])
    /\ resps' = [resps EXCEPT ![t] = <<>>]
    /\ pc' = [pc EXCEPT ![t] = "poll"]
    /\ at' = [at EXCEPT ![t] = @ + 1]
    /\ UNCHANGED <<dep, up, nsq, disk, todo, buf, ntry, succeeded, batch, encdirty, uringVars>>

\* An asynchronous worker submits the next command of the burst: I/O is
\* prepared, or the command is answered at once, or the process ends.
Submit(t) ==
    LET c == Head(batch[t])
        q == sqids(t)[at[t]]
        last == Len(batch[t]) = 1
    IN
    /\ pc[t] = "handle" /\ loop.async
    /\ \E o \in Outcomes(t, c) :
         \/ /\ o.how = "queue"
            /\ sq' = [sq EXCEPT ![RingOf(t, q)] =
                         Append(@, [t |-> t, tag |-> make_tag(at[t], c), w |-> o.w])]
            /\ UNCHANGED <<up, ans, buf, val>>
         \/ /\ o.how = "reply"
            /\ Post(<<[q |-> q, c |-> c, st |-> o.st]>>)
            /\ buf' = IF c.op = "read" THEN [buf EXCEPT ![c.id] = Over(@, o.w)] ELSE buf
            /\ UNCHANGED <<up, sq>>
         \/ /\ o.how = "throw"
            /\ up' = FALSE
            /\ UNCHANGED <<sq, ans, buf, val>>
    /\ batch' = [batch EXCEPT ![t] = Tail(@)]
    /\ pc' = [pc EXCEPT ![t] = IF last THEN "poll" ELSE @]
    /\ at' = [at EXCEPT ![t] = IF last THEN @ + 1 ELSE @]
    /\ UNCHANGED <<dep, nsq, disk, todo, ntry, succeeded, resps, encdirty, ring, done>>

\* A pass is over and another is made.
Again(t) ==
    /\ pc[t] = "poll" /\ at[t] > Len(sqids(t))
    /\ ~loop.async \/ (ntry[t] + 1 < BusyLoops /\ (loop.allpasses \/ ~succeeded[t]))
    /\ at' = [at EXCEPT ![t] = 1]
    /\ ntry' = IF loop.async THEN [ntry EXCEPT ![t] = @ + 1] ELSE ntry
    /\ UNCHANGED <<dep, up, nsq, disk, guestVars, pc, succeeded, batch, resps, encdirty, uringVars>>

\* Mutation: only the first of the worker's rings is kicked.
Kicked_first(t) == {Rings(t)[1]}

\* The passes are over: what was prepared is submitted.  The encryptors kick
\* only the rings on which they have queued something.
Kicked(t) ==
    {r \in {Rings(t)[i] : i \in DOMAIN Rings(t)} :
        loop.allpasses \/ \E i \in DOMAIN sq[r] : sq[r][i].t = t}

Kick(t) ==
    /\ pc[t] = "poll" /\ at[t] > Len(sqids(t)) /\ loop.async
    /\ ntry[t] + 1 >= BusyLoops \/ (~loop.allpasses /\ succeeded[t])
    /\ ring' = [r \in DOMAIN ring |-> IF r \in Kicked(t)
                    THEN ring[r] \union {sq[r][i] : i \in DOMAIN sq[r]} ELSE ring[r]]
    /\ sq' = [r \in DOMAIN sq |-> IF r \in Kicked(t) THEN <<>> ELSE sq[r]]
    /\ pc' = [pc EXCEPT ![t] = "reap"]
    /\ at' = [at EXCEPT ![t] = 1]
    /\ UNCHANGED <<dep, up, nsq, disk, guestVars, ntry, succeeded, batch, resps, encdirty, done>>

\* Mutation: the completions are not marked as seen.
Reap_unseen(t) ==
    /\ pc[t] = "reap" /\ at[t] <= Len(Rings(t))
    /\ LET r == Rings(t)[at[t]]
       IN  Post([i \in DOMAIN done[r] |-> [q |-> sqids(t)[done[r][i].tag[1]], c |-> done[r][i].tag[2],
                                         st |-> IF done[r][i].res < 0 THEN "internal" ELSE "ok"]])
    /\ at' = [at EXCEPT ![t] = @ + 1]
    /\ UNCHANGED <<dep, up, nsq, disk, todo, buf, pc, ntry, succeeded, batch, resps, encdirty, uringVars>>

\* The ready completions of the worker's next ring are answered, each on the
\* queue that the tag names among the worker's own.
Reap(t) ==
    /\ pc[t] = "reap" /\ at[t] <= Len(Rings(t))
    /\ LET r == Rings(t)[at[t]]
           n == IF Len(done[r]) < CqBurst THEN Len(done[r]) ELSE CqBurst
       IN  /\ Post([i \in 1 .. n |-> [q |-> sqids(t)[done[r][i].tag[1]], c |-> done[r][i].tag[2],
                                      st |-> IF done[r][i].res < 0 THEN "internal" ELSE "ok"]])
           /\ done' = [done EXCEPT ![r] = SubSeq(@, n + 1, Len(@))]
    /\ at' = [at EXCEPT ![t] = @ + 1]
    /\ UNCHANGED <<dep, up, nsq, disk, todo, buf, pc, ntry, succeeded, batch, resps, encdirty, sq, ring>>

\* Back to the top of the loop.
NextRound(t) ==
    /\ pc[t] = "reap" /\ at[t] > Len(Rings(t))
    /\ pc' = [pc EXCEPT ![t] = "poll"]
    /\ at' = [at EXCEPT ![t] = 1]
    /\ ntry' = [ntry EXCEPT ![t] = 0]
    /\ succeeded' = [succeeded EXCEPT ![t] = FALSE]
    /\ UNCHANGED <<dep, up, nsq, disk, guestVars, batch, resps, encdirty, uringVars>>

\* I/O that may be cut short: writes, as which the encryptors zero blocks too.
\* The replicator uses fallocate for that.
Counted(c) == c.op = "write" \/ (c.op = "zeroes" /\ ~Sending)

\* The kernel performs one submitted I/O: all of it, or a part with an error
\* or with a short count.
IoResults(e) ==
    LET part == Partly(e.tag[2], e.w) IN
    {[w |-> e.w, res |-> 1]}
        \union Faulty("io", {[w |-> p, res |-> -1] : p \in part})
        \union (IF Counted(e.tag[2]) THEN Faulty("short", {[w |-> p, res |-> 0] : p \in part}) ELSE {})

DoIo(r, e) ==
    /\ e \in ring[r]
    /\ ring' = [ring EXCEPT ![r] = @ \ {e}]
    /\ \E x \in IoResults(e) :
         /\ disk' = Over(disk, x.w)
         /\ done' = [done EXCEPT ![r] = Append(@, [tag |-> e.tag, res |-> x.res])]
    /\ UNCHANGED <<dep, up, nsq, guestVars, workerVars, sq>>

-----------------------------------------------------------------------------
Init ==
    /\ dep \in Deployments
    /\ up = TRUE /\ todo = dep.cmds
    /\ nsq = [q \in Queues |-> <<>>]
    /\ ans = [c \in {d.id : d \in dep.cmds} |-> <<>>]
    /\ buf = [c \in {d.id : d \in dep.cmds} |-> Nothing]
    /\ disk = [a \in Addrs |-> encrypt(Junk, Clear)]
    /\ val = [a \in Addrs |-> Unknown]
    /\ pc = [t \in Workers |-> "poll"] /\ at = [t \in Workers |-> 1]
    /\ ntry = [t \in Workers |-> 0] /\ succeeded = [t \in Workers |-> FALSE]
    /\ batch = [t \in Workers |-> <<>>] /\ resps = [t \in Workers |-> <<>>]
    /\ encdirty = [t \in Workers |-> 0]
    /\ sq = [r \in AllRings |-> <<>>]
    /\ ring = [r \in AllRings |-> {}]
    /\ done = [r \in AllRings |-> <<>>]

Work(t) == Poll(t) \/ Receive(t) \/ Produce(t) \/ Submit(t) \/ Again(t) \/ Kick(t) \/ Reap(t) \/ NextRound(t)
Io      == \E r \in AllRings : \E e \in ring[r] : DoIo(r, e)

Next ==
    /\ up
    /\ \/ \E c \in todo : Issue(c)
       \/ \E t \in Workers : Work(t)
       \/ Io

\* Every worker keeps running and the kernel performs what is submitted.
Fairness ==
    /\ \A t \in 0 .. Cardinality(Queues) - 1 : WF_uifVars(up /\ t \in Workers /\ Work(t))
    /\ WF_uifVars(up /\ Io)

Spec == Init /\ [][Next]_uifVars /\ Fairness

-----------------------------------------------------------------------------
Texts    == {Zero, Junk, Unknown} \union {<<c.id, l>> : c \in dep.cmds, l \in Lbas}
Sectors  == [p : Texts, k : Lbas \union {Clear}]

\* The state has its shape: registers of the workers within their loops, tags
\* that name a queue of the worker that made them, sectors on the devices.
UifTypeOK ==
    /\ dep \in Deployments /\ up \in BOOLEAN /\ todo \subseteq dep.cmds
    /\ \A q \in Queues : nsq[q] \in Seq({c \in dep.cmds : c.q = q})
    /\ disk \in [Addrs -> Sectors] /\ val \in [Addrs -> Texts \ {Junk}]
    /\ pc \in [Workers -> {"poll", "handle", "reap"}]
    /\ \A t \in Workers :
         /\ at[t] \in 1 .. Cardinality(Queues) + 1 /\ ntry[t] \in 0 .. BusyLoops - 1
         /\ succeeded[t] \in BOOLEAN /\ encdirty[t] \in 0 .. Cardinality(Lbas)
         /\ Len(batch[t]) + Len(resps[t]) <= Burst
         /\ batch[t] \in Seq(dep.cmds)
    /\ \A r \in AllRings : \A e \in ring[r] : e.tag[1] \in DOMAIN sqids(e.t) /\ e.tag[2] \in dep.cmds

\* What the guest has been told is written is on the device, in the form in
\* which it is read back: as it is for the replicators, encrypted with the
\* block's own address for the encryptors.
AckedOnDisk == \A a \in Addrs : val[a] # Unknown => View(disk[a], a) = val[a]

\* Every response goes to the queue its command came from, and there is at
\* most one (worker_func: the tag's queue index, or the burst's).
RightQueue ==
    \A c \in dep.cmds :
        /\ Len(ans[c.id]) <= 1
        /\ \A i \in DOMAIN ans[c.id] : ans[c.id][i].q = c.q

\* A read that is answered with success has the last acknowledged plaintext
\* in the guest's buffer (receive_read).
ReadReturns ==
    [][\A c \in dep.cmds :
          (c.op = "read" /\ ans[c.id] = <<>> /\ ans'[c.id] # <<>> /\ ans'[c.id][1].st = "ok") =>
              \A a \in Blocks(c) : val[a] # Unknown => buf'[c.id][a] = encrypt(val[a], Clear)]_uifVars

\* Every command that reaches an NSQ is answered, unless the process ends:
\* bursts are handled to the end, rings with prepared I/O are kicked, and the
\* completions of every ring are read.
UifAnswered ==
    \A i \in {c.id : c \in UNION {d.cmds : d \in Deployments}} :
        LET waiting == \E c \in dep.cmds : c.id = i /\ UnderWay(c) IN waiting ~> (~up \/ ~waiting)
=============================================================================
