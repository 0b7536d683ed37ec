# Verification of NVMetro

NVMetro routes the NVMe commands of a virtual machine between the host's NVMe
queue and userspace I/O functions (UIFs) under the control of a BPF program.
This directory holds TLA+ models of its core, TLC configurations and proofs.
Paths below are relative to `mdev-client/`; the kernel side exists only as
patches (`../patches-v5.10.66/0011-NVMetro.patch`, called *0011*, and
`0012-NVMetro-XCOW.patch`, called *0012*, which changes it).

## 1. Inventory

| Component | State | Operations | Interacts with |
|---|---|---|---|
| Command rings, `include/cmdbuf.hpp` | 4096 entries, `head`, `tail` in shared memory | `produce`, `consume`, `cq_produce_one` | kernel iothread on one side, UIF worker on the other: NSQ carries commands out, NCQ responses back |
| Request router, *0011/0012* `io.c`, `bpf_sm.c` | one `iostate` word per command identifier: status, hook bits, send bits, completion type | `process_sq`, `process_hwq`, `io_act`, `io_passthrough`, `bpfsm_get/set/update/runhook` | guest queues, host queue, notifier, BPF program |
| Notifier, `notifyfd.c` | its two rings, the file, the wait object of the admin queue | `open`, `release`, `send`, `send_wait`, `process_ncq` | router, UIF |
| BPF programs, `samples/bpf` | maps (XCOW: the translation cache) | `nvme_run_bpf` at the hooks VSQ, HCQ, NFD_WRITE, PRE_VCQ | router |
| XCOW map file, `xcow/`, `include/xcow/` | header (`hwm`), snapshot list, root tables, leaf tables, `disk_hwm` per snapshot | `format`, `open_read`, `open_write`, `translate_read`, `translate_write`, `tx_write_prep/commit`, `snap_create`, `peel` | mapped file; XCOW server; `xcowctl` |
| XCOW server, `nvme/nvme_xcow.cpp`, `xcowsrv.cpp` | lock bits per cluster, work queue, tickets, io_uring | `do_read`, `do_write`, `do_flush`, `do_snapshot`, the worker's completion and drain loops | map file, rings, disk |
| `xcowctl.cpp` | none | format, snap-create, snap-peel, snap-recreate, snap-list | map file |
| Virtual queues, `vsq`, `vcq`, doorbells, interrupts (`../patches-v5.10.66/0007-...patch`, called *0007*) | heads, tails, phase, pending completions, event indices | take a command, reserve and release a completion entry, suspend, flush | guest, router, iothread |
| iothreads, polling bindings | list of bindings, park bit; per binding `poll_enabled`, `state`, `idle` | begin, poll, end; pause, resume; bind, unbind | router, doorbells, ioctls, sysfs |
| Translation cache `include/lbacache.hpp` | 4-way sets of translations, MRU bits | lookup, update, flush, clear flags | XCOW BPF program |
| Block iterator `include/xcow/blk_iter.hpp` | position in a range | next piece | XCOW server |
| Replicators | tickets, one io_uring per worker | worker loop, one handler per command | rings, guest memory, second device |
| Encryptors | tickets, `_encbuf`, cipher contexts, an io_uring per worker or per device | the same; encrypt before a write, decrypt in place after a read | rings, guest memory, device, enclave |
| Guest memory access, ciphers, SGX enclave | | | |

What is hard here:

* **Concurrency.** Guest, host device, iothread, UIF worker, its disk, and
  ioctls (attach and detach of a program, open and close of a notifier) all run
  against each other. Ring indices are read before and used after the other
  side moves them.
* **Ordering.** Completions of the two targets of one command come in either
  order; an allocation's commit, its unlock and the writes queued behind it must
  happen in that order; a snapshot may come between the beginning of an
  allocation and its commit.
* **Partial failure.** One of two sends refused, one of several I/Os failed, the
  second of two metadata allocations out of space.
* **Stale knowledge.** The XCOW program caches what the server answered and acts on it
  without asking again; the server's answers travel through rings while the map file changes.
  An iothread decides to sleep on what it saw before the guest's last doorbell.
* **Sharing.** Snapshots share leaf tables and data clusters. Only the W bit of
  references on the way keeps a snapshot from being written through another.

What makes each component correct: a ring is a FIFO that never overwrites an
entry still to be read; a command is completed once, when and only when its
sends are through, with the status of the target that decides it; whatever
mix of operations, a location that can be written belongs to one snapshot; a
write is let through only after its cluster is initialised, and goes where
reads will look for it; a cached translation is one the map file still gives; a controller is polled
by one thread, which sleeps only when nothing is left to do; a command a worker takes is answered once, on its own queue,
and a success means that its data is on the device in the form in which it is read.

## 2. Modules

### CmdBuf, CmdFifo, CmdBufProofs, MCCmdBuf

`CmdBuf` models `include/cmdbuf.hpp`. Every access to shared memory is a step:
the acquire load of the other side's index (`peek_space`, `peek_items`), each
iteration of a copy loop (`produce_copy`, `consume_copy`), the release store that
ends a call (`produce_publish`, `consume_publish`). `Offer` is a caller entering
`produce`. The acquire/release pairs order the copies between the loads and the
stores, so interleaving these steps is what the hardware may show. The kernel's
side of the rings (*0012*) uses the same `circ_buf.h` formulas on the same words.
`written` and `rcvd` are histories.

`CmdFifo` is the abstract queue: put some values, take the oldest ones.
`RefinesFifo` says that CmdBuf implements it: the slots between `tail` and `head` are the
queue, the head store is the put and the tail store the get.

### XcowFile, XcowFileProofs, MCXcowFile

`XcowFile` models the map file. A file has snapshots (`snaps`, the newest last; the
newest is `head`), each with the cluster of its root table and its
`disk_hwm`. Root tables refer to leaf tables, leaf tables to data clusters; a
reference is `[off, w]`, as the high bits and the W bit of the table entries.
`hwm` is the allocator of metadata clusters. `tx` holds the allocations
begun and not committed.
`tx_write_prep` makes the head own the leaf table, `BeginTx` takes a data cluster
for an entry that needs one, `tx_write_commit` stores it; `Abort` is what a
failed I/O leaves. `translate_write` is the two in one, as the command-line tools
and tests use it. `SnapCreate` is `snap_create`: a copy of the root table with W
cleared on every reference, and one more cluster when the newest table of the snapshot list is
full; `SnapCreateThrows` is the exception between those two allocations.
`snap_create_from` and `peel` are `xcowctl`'s, which work on a file no server has
open (`handle = "none"`). `Crash` is the end of the server, or of `xcowctl`, at any point: the mapped file stays
as it is, transactions are forgotten, and metadata clusters that were taken and not yet linked (a leaf table, a root table, a root table
and a table of the snapshot list) are lost.
`handle` records how much of the root table the handle in use spans: `format`
leaves a handle over all its clusters ("wide"), `open_write` one over a single
cluster ("narrow").

### XcowSrv, XcowSrvProofs, XcowReplyProofs, MCXcowSrv

`XcowSrv` extends `XcowFile` by the server. Each handler of `nvme_xcow.cpp` is an
action (`ReadOne`, `ReadMany`, `Flush`, `Snapshot`, the `Write...` actions by the branch of
`do_write` they take, and for a write over several clusters one `Piece...` action per
iteration). `clock` is the bit vector of locked clusters, `wq` the work queue, `sq`
and `ring` the I/O prepared and submitted. Handlers only kick the ring when they
return a ticket, so `sq` and `ring` are kept apart. `AllocDone` is the whole
completion branch of the worker: reply, commit or abort, unlock, drain. `RwDone`
is that of a data I/O. Any submitted I/O may complete next, and fail. The worker
is one thread: completions wait until a handler has returned (`cur = Idle`).

`MCXcowSrv` makes the requests with `BlkIter`, the block iterator: a request is an address and a
length, and its clusters are those of the pieces the iterator cuts. `CutsRange` says what the handlers rely
on (adjacent pieces, none across a boundary, as many as the ticket reserved room for), and the
assumption `BlkIterCuts` has TLC evaluate it for all ranges up to 9 blocks from all addresses up to 9.

### LbaCache, XcowCache, XcowCacheProofs, MCXcowCache

`LbaCache` is `include/lbacache.hpp`, the translation cache of the XCOW program, with its
replacement state: `Slot` is the choice of a way by `lba_update`, `Marked` the setting of MRU bits.
The program of the kernel samples (*0012*) is the same code over BPF maps of the type `BPF_MAP_TYPE_PERCPU_ARRAY` (*0012*:2181): every
processor has a copy, and the program sees that of the processor it runs on, which is its controller's iothread's (*0011*:3060). `ways` and `mru` are the copy
in use, `copies` those of the other processors, `cpu` the processor; `run_on` changes it. Clearing WRITABLE for a snapshot reaches the copy in use only (*0012*:393).

`XcowCache` composes the whole data path: `nvme_run_bpf` at its two hooks over `LbaCache`
(`vsq_hit`, `vsq_miss`, `vsq_snapshot`; `ncq_valid`, `ncq_plain`, `ncq_snapshot`), `XcowSrv` with its map
file, the rings of each queue, the host queue and the data disk's contents. `srv_take` and `srv_done` are
steps of XcowSrv whose replies enter the NCQs; `hq_done` is the disk performing a command where it was
translated to; `move` is a write to `iothread_idx`, which takes the controller to another processor at any time. A write writes its own number, so that contents tell writes apart; allocation copies or
zeroes a cluster (`Allocated`). `last` and `frozen` are histories: what reads must
return, and what superseded snapshots may hold.

The run makes seven restrictions. Each is needed; without it TLC finds the property named violated. The first six, with
a root table that fits one cluster, are the hypothesis `Serial` of the proofs (section 5).

| Restriction | Constant | Without it |
|---|---|---|
| no read under a leaf table older snapshots share | `SharedReads = FALSE` | `SnapshotIntact` (run `snap_overwritten`) |
| one queue | `Queues = {1}` | `ReadsLastWrite`: an older answer overtakes a newer one through the other NCQ |
| snapshots with nothing else in flight | `Quiesced = TRUE` | `SnapshotIntact` and `ReadsLastWrite`: an answer made before the snapshot is cached after it |
| no failing I/O | `MayFail = FALSE` | `ReadsLastWrite`: the answer for a failed allocation still says VALID, WRITABLE and FORWARD |
| no return to a processor whose copy was filled | `MovesBack = FALSE` | `SnapshotIntact`, `CacheAgrees` and `ReadsLastWrite`: the copy left behind keeps translations and WRITABLE bits from before a copy or a snapshot |
| cluster 0 of the disk zeroed | `FirstZeroed = TRUE` | `ReadsLastWrite`: an unwritten cluster is read through translation 0, and `format` only skips cluster 0 (`xcow_file.cpp:60`) |
| commands within a cluster | (requests) | not expressible: the cache functions return early, so that such writes flush nothing (`nvme_xcow.cpp:44` asks guests for it) |

### IoThread, IoThreadProofs, MCIoThread

`IoThread` models who polls a controller and when. A thread passes over its list of bindings under
`bindings_lock` (`StartPass` to `EndPass`), visiting each with `begin_poll`, one iteration of the poll loop
(`PollOn`, `PollIdle`, `PollStop`) or of the drain loop (`DrainOn`, `DrainTimeout`, `Drained`), and
going idle (`SuspendBegin`, `SuspendEvent`, `SelfPark`, `SuspendRefused`). With nothing active it parks: `ParkSelf` is
`kthread_park(current)`, `Unparked` the return of `kthread_parkme`. `io_resume` and `io_pause` are what
doorbells, admin commands, interrupt set-up and the host call; `PauseBegin` and `PauseEnd` are the two ends of a
section that does both, between which the poller sees the controller paused. `StoreBegin` to `BindAdd` are a write to
`iothread_idx`, step by step between its locks.

A controller has a mode: whether the guest uses the shadow doorbell, and whether its completion queue was created with an interrupt; without one
`nvme_mdev_vcq_flush` finds nothing to flush (*0011*:5317) and the controller goes idle with completions unread. `missed` is a history: the thread was to go on polling the controller, and something
that does not keep it from parking was all that told it so. `SpuriousLive` lets the host report LIVE to a controller it did not pause: `nvme_mdev_vctrl_resume` then pauses it
(*0011*:5660, 2968) and does not resume it.

The shadow doorbell is taken to be supported by the device model (`use_shadow_doorbell`, on by default, *0007*:1246), as the guest may still not use it; the admin polling
of the loops for the other case (*0011*:2635) and the break for a dead or removed controller (*0011*:2723) are left out.

The guest's driver is modelled from how *0007* and *0011* use it: it writes its tail to
memory, then compares it with the event index in 16 bits (`NeedEvent`) and writes the
doorbell register if that was passed. Sections under `vctrl->lock` are one step, except
`suspend_io`, which races with the guest, and the pausing sections.

### NmRouter, NmRouterProofs, MCNmRouter

`NmRouter` models the iostate words and everything that changes them. `Act` is
`nvme_mdev_io_act`, `bpfsm_set` and `bpfsm_update` the two writers of the word,
`HookRuns` the conditions of `runhook`. `process_sq`, `process_hwq` and `process_ncq` are
one iteration each of the loops of that name. One iothread runs all of them for a
controller, which is why each is atomic. `Respond`, `RespondPiece`, `release`, `open` are the
UIF's side. `RespondPiece` is an error answer that is not the command's last: the XCOW server answers each failed piece of a write over several clusters, and again from the
exception handler or the ticket (`nvme_xcow.cpp:193`, `:349`, `xcowsrv.cpp:169`); `extra` counts them and `MaxRepeat` bounds them. `attach_prog` is the ioctl, which may come at any time. The sample
programs are operators that return the set of words a program may return
(`xcow`: a cache hit or a miss). `Issue` and `Reap` are the guest, which may use an
identifier again after its completion.

A word is `[status, hooks, sends, cmpl]`. The code's `NMBPF_COMPLETE` is 0, which is
also what a cleared word holds; both are `"COMPLETE"` here. `fault` and `ondev` are
histories.

### Uif, UifProofs, MCUif

`Uif` models the seven other programs: `replicator`, `replicator-aio`, `encryptor-mt`,
`encryptor-aio`, `encryptor-multi`, `encryptor-sgx` and `encryptor-sgx-aio`. They have a common
shape, the `worker_func` of each, and differ in how its loop ends and in the handlers. `Loop` has
the first difference, one operator per handler class (`nvme_sender`, `nvme_encryptor_aio` and so on) the
second; a handler is the set of outcomes a command can have in it. `dep` is the deployment:
program, number of threads, device behind each queue, the failures that can happen and
the commands of the guest. `Poll`, `Receive`, `Produce`, `Submit`, `Again`, `Kick`, `Reap` and
`NextRound` are the steps of a worker; `DoIo` is the kernel performing one submitted I/O. Queue
`q` is served by worker `(q - 1) % nthreads`, and a ticket's tag holds the *index* of the queue
among those of the worker that made it (`make_tag`).

A sector is a plaintext and the tweak it is encrypted with, so that decrypting
with another tweak gives `Junk`: the ciphers themselves are left out. `val` is
what the guest may rely on: the text of the last acknowledged write of a
block, `Unknown` from the time a write is issued. The guest has no two commands
for one block under way, for which NVMe promises nothing, and commands carry PRPs, as
the controller identifies itself without SGLs. io_uring's submission queue (2048 entries) is unbounded.

## 3. Runs

| Run | Kind | Shows |
|---|---|---|
| `ring` | pass | 4 slots, batches of 2, 6 entries (each index wraps): `FifoDelivery`, `NoOverwrite`, the inductive invariant `RingInv`, refinement of `CmdFifo`, and with both sides polling `ProduceReturns` and `EventuallyReceived` |
| `xcow_file` | pass | 3 virtual clusters under 2 leaf tables, 8 metadata clusters (three snapshots or copies of leaf tables in any order), 3 data clusters, snapshot tables of 2 entries: `WriteExclusive`, `FrozenSnapshots`, `InheritsSource`, and `XcowInv`, the candidate for an inductive invariant |
| `srv_single` | pass | three commands of one cluster each on a fresh or a forked file, failing I/O, full disk: `QueueDrained`, `AckedWhereRead`, and `Answered` under fairness |
| `srv_faults` | pass | three commands over one or two clusters, or snapshots, failing I/O, full disk, full map file: `OneReply`, `LockHeld`, `NoWriteDuringAlloc`, `RefinesFile` |
| `srv_lost` | violation | snapshots among writes: `AckedWhereRead` fails |
| `xcow_cache` | pass | four commands on three clusters of one cache line with two ways, two blocks to a cluster, on a fresh or a forked file, two processors: `ReadsLastWrite`, `SnapshotIntact`, `CacheAgrees`, `CacheUnique` |
| `snap_overwritten` | violation | the same with reads under shared leaf tables: `SnapshotIntact` fails |
| `iothread` | pass | two iothreads, one controller with queues of 2 entries, with and without the shadow doorbell and an interrupt, moved between the threads: `OnePoller`, `IdleQuiescent`, and `CommandTaken` under fairness |
| `lost_kick` | violation | one iothread, queues of 3 entries: `KickServed` fails |
| `router` | pass | two identifiers used twice, every program, failing targets, full NSQ: `SendBitsMatch`, `TargetStatusReported`, `AckedWriteOnDevice`, `EventuallyCompleted` |
| `router_change` | pass | two identifiers used twice with programs swapped and detached, the NSQ full, the notifier closed and reopened, failed writes answered twice: `CompletedOnce` (at most one completion per answer), `NoIoAfterCompletion` (for identifiers answered once) |
| `uif` | pass | the seven programs with one or two workers, refused commands, failing ciphers, short, failed and out-of-range I/O: `AckedOnDisk`, `RightQueue`, `ReadReturns`, and `UifAnswered` under fairness |

**Bounds.** `MaxWritten` (ring) caps the history, not the ring: 6 entries pass
through 4 slots, so that both indices wrap and every fill level occurs at the
wrap; the proofs have no such bound. `HwmLimit` and `DiskHwmLimit` are the
file's and the disk's sizes, which the code has too: running into them is
part of the behaviour. Three virtual clusters are the fewest with a shared leaf
table and a second one. Three commands in XcowSrv are an allocation, a write queued
behind it and one more (a snapshot, or a second in the queue). `MaxIssue` (router)
is 2 because identifiers carry state over to their next use and no further: the word is cleared
when a command is taken. `MaxRepeat` is 1 in `router_change` (one answer before the last already meets every state of the word) and 0 in `router`, whose `SendBitsMatch` and
`TargetStatusReported` fail with repeated answers. Uif has two queues, the fewest that can be told apart by
a tag, two blocks, three commands of up to two blocks, bursts of two, two passes before a kick
(`BusyLoops`) and a write-zeroes buffer of one block (`WzBlocks`), so that zeroing two blocks takes
two rounds.

XcowCache has four commands: a write that allocates, a snapshot, a write that copies and a read
of it, or an eviction and a refill; its line of two ways is the smallest in which three clusters compete. With two processors and
no return the controller may be moved once, at any point (2.2 million states). IoThread has one queue
pair, as the loops treat the others alike, one iteration per visit (`vsq_poll_loops = 1`; more are a repetition),
bursts of one, and two structures for bindings, which are leaked after use and stand for new ones. One controller is polled at a time in
the run. Queues of 3 entries with two threads and a writer (3.8 million states) satisfy the invariants too, and so does
`CommandTaken` for queues of 3 on one thread. Two controllers on one thread are too many states to exhaust;
the first 11 million, to depth 30, hold no violation of the invariants.

`iothread` makes three restrictions. One process at a time writes `iothread_idx`: with
`Writers = {w1, w2}` (and a third binding) `OnePoller` fails, as two writers unbind and bind in turn and two
bindings of the controller end in lists. And the guest, the emulator and the host leave the
controller alone while it is moved (`QuietRebind = TRUE`): otherwise `IdleQuiescent` and `CommandTaken` fail, because
`poll_enabled` was read before the doorbell, `io_bind` wakes nobody, and a doorbell in between meets a NULL binding (the `BUG_ON` of `__nvme_mdev_io_resume`). And the
host reports LIVE only to a controller it has paused (`SpuriousLive = FALSE`): otherwise `IdleQuiescent` and `CommandTaken` fail.

`CommandTaken` excepts a controller whose iothread is parked for good, although the controller is to be polled, after one of three things, which `missed` records: a kick that found
the thread not parked yet (run `lost_kick`); a move to a thread that is parked, which `io_bind` does not wake (*0011*:3100-3104); and a refused suspend while `io_idle`
is stale, for which `nvme_mdev_io_end_poll` returns success (*0011*:2823). Without the first or the second of these exceptions TLC finds it violated in this run; the third cause takes queues of 3 entries.

**Fairness.** Ring: both sides are polling loops that do not stop while the
notifier is open. Server: the worker polls its ring and its NSQ forever and the
kernel completes submitted I/O. Router: the polling loop visits every queue of the
controller in turn, the device completes what it was given, and the UIF answers
what it was sent. Uif: each worker is a thread in an endless loop, and the
kernel performs what was submitted. iothreads: the kernel schedules its threads, the guest's driver
finishes a submission and reads its completions, the devices complete their commands, a holder of `vctrl->lock` goes on to release it
(weak fairness), and a write to sysfs gets the mutexes it waits for (strong fairness: others take them in
between). `CommandTaken` excepts a controller that is paused for ever or over and over. Nothing is assumed of the guest, of `open` or of `attach_prog`.
Deadlock checking is off in the runs in which all commands the bounds allow have been
handled at the end, and in `uif`, where an exception no handler catches ends the process.

**Mutants.** Each property comes with a mutated definition (`..._full`,
`..._missing`, `..._lost` and so on, defined next to the definition they mutate) under
which TLC finds it violated.

## 4. Disagreements found

Runs that end in a violation:

* `srv_lost`: a snapshot while an allocation is in flight. `tx_write_commit` stores
  through a pointer into the leaf table of the older snapshot; the new head may
  have copied that table already. The write is acknowledged with a
  cluster that no read of the head uses. For the same reason the entry read by a
  continuation queued behind that allocation can still be empty, against the
  assertion of `set_aux` (`include/nvme_xcow.hpp:24`).
* `snap_overwritten`: after a snapshot the head shares leaf tables with it through
  read-only references. `translate_read` (`xcow/xcow_snap.cpp:14`) returns a leaf entry as it stands in the shared table,
  with the W bit the older snapshot gave it. `do_read` passes the bit on, the program caches the
  translation as writable, and the guest's next write goes straight to the older snapshot's cluster.
* `lost_kick`: an iothread that found nothing active sets its own park bit (*0011*:3028). A kick between the
  scan and that point cleared the bit too early. The thread sleeps with `poll_enabled` set; with
  the shadow doorbell the guest has passed the event index and rings no more until its tail
  comes around. Another controller of the same thread, or an admin command, may wake it. Two more ways lead to the same sleep; `CommandTaken` excepts all three (section 3).
  One is a move to a parked thread. The other is a refused suspend, although the comment before it says that the thread is parked "if IO is truly idle" (*0011*:2789): the controller went idle, a pause and its end set the thread polling without clearing `io_idle`, the thread took a command
  before the guest had read the event index for it, so that there was no doorbell write either, and for the next command in the queue `suspend_io` refuses; the stale `io_idle` makes that a success and the thread parks.

Found by checking other instances of the modules; the values reproduce them:

* `open_write` (`xcow/xcow_file.cpp:84`) and `open_read` map one cluster of the root table even where `format` allocated
  several; `snap_create` through such a handle copies the first cluster only. `InheritsSource` fails in
  `XcowFile.cfg` with `PerCluster = 1`, `NClusters = 2`, `HwmLimit = 12`.
* The drain loop (`xcowsrv.cpp:184`) breaks at the first continuation that returns a ticket, and the cluster is unlocked: nothing
  drains the others. `QueueDrained` fails in `XcowSrvFaults.cfg` with `Requests <- Multi`.
* `io_passthrough` (*0011*:2354) completes a command it rejects and so does `io_act`. `CompletedOnce` fails in
  `NmRouterChange.cfg` with `MayReject = TRUE`.
* A response for a word that is not pending is taken for a completion (*0011*:1186), and the XCOW server sends several error responses for a write of which several pieces
  fail. The first completes the command with other pieces under way; the next completes it again, or the command that has its identifier then. With `MaxRepeat = 1` in `NmRouter.cfg` `SendBitsMatch` and `TargetStatusReported` fail;
  in `NmRouterChange.cfg` a command is completed once per answer, and I/O is under way for completed ones (`CompletedOnce` and `NoIoAfterCompletion` allow this of identifiers with `extra` answers and nothing else).
* The maps of nmbpf_xcow are per processor, and a snapshot clears WRITABLE on one (*0012*:393). A controller moved away and back by `iothread_idx` uses what it left there: `SnapshotIntact`, `CacheAgrees` and `ReadsLastWrite`
  fail in `XcowCache.cfg` with `MovesBack = TRUE`.
* Unwritten clusters translate to cluster 0 of the data disk, which `format` skips (`xcow_file.cpp:60`) and nothing in the repository zeroes: `ReadsLastWrite` fails in `XcowCache.cfg` with `FirstZeroed = FALSE`.
* `nvme_mdev_vctrl_resume` of a controller that is not paused stops its polling (*0011*:5660): `IdleQuiescent` and `CommandTaken` fail in `IoThread.cfg` with `SpuriousLive = TRUE`.
* `bpfsm_set` (*0011*:1162) keeps the status bits of a pending word, so that the failure a program
  returns with COMPLETE is lost. `ProgramStatusReported` fails in `NmRouter.cfg`. Under nmbpf_xcow the guest therefore
  sees every error of the server (a full disk, the INVALID_OPCODE for write zeroes, which the controller advertises) as a success.

Described only:

* In the XCOW path: `bpf_arraymap_elem_band` returns 0 in the kernel (*0012*:402, as its comment at 2070 says), while the program
  demands the number of lines, so that a snapshot command ends in INTERNAL there; the polyfill (`lbacache-polyfill.hpp:33`) returns the number. XcowCache
  has both. `do_write_one` (`nvme_xcow.cpp:254`) adds an offset in blocks to one in bytes.
* In the iothreads: `unbind_all` sets `vctrl->binding` to NULL and then frees it (*0011*:3137), leaking the structure; `__nvme_mdev_io_pause` waits for the condition `true` (2945);
  resume no longer looks at `vctrl_paused`.
* In the router: when the NSQ refuses a mirrored write, `io_act` skips the host
  queue but leaves its send bit set, and the command is never completed. (`router`
  therefore leaves the combination of a full NSQ and `replicate` out.)
* In the workers; the deployments of `MCUif` leave these out and `AckedOnDisk`
  (the last one: `RightQueue`) fails when they are put in:
  - `pwrite` returning 0 ends the loop of the `encryptor-mt` and `encryptor-sgx` writes with a success;
  - the io_uring programs take a short count for a success (only `res < 0` is an error), for writes and for the write-zeroes the encryptors make of them;
  - `submit_write_zeroes_async` of `encryptor-aio` and `-multi` indexes blocks by byte and encrypts with the
    block's index instead of its address, which is right for block 0 alone;
  - write-zeroes of `encryptor-sgx` encrypts what `_encbuf` holds, left there by earlier commands;
  - `encryptor-sgx-aio` does not look at the result of encrypting a write;
  - two workers of `encryptor-multi` serving queues of one device share its ring, and each
    interprets the other's tags with its own list of queues.
* In the map file: on a map file formatted a second time, `snap_create` links a snapshot-list table (`xcow_file.cpp:102`) without clearing the
  cluster; a death between linking a new table and filling its first entry (`xcow_file.cpp:104-106`), or in a peel between emptying a table and unlinking it (117-119), leaves an empty newest table,
  whose `back()` is undefined at the next start; `hwm` is 32 bits wide and shifted without widening (`xcow_file.hpp:127`). In the workers, twenty passes over many
  queues may prepare more than the 2048 entries of the io_uring before the kick, and `get_sqe` then throws. In the server, only the
  result of a ticket's last completion becomes its status (`xcowsrv.cpp:168`).
* Elsewhere: `open_read` (`xcow_file.cpp:71`) with an index equal to the number of
  entries of the newest snapshot table resolves to that table's header. The PRE_VCQ hook is
  never run, because `runhook` refuses words whose completion bits are 0. A program that
  returns COMPLETE with a send has the command completed with the send under way,
  although `bpf_nvme_mdev.h:19` announces a grace period. Detaching `encrypt_ip` between
  the encryption and the device write acknowledges a write that is never made, and so does
  an NSQ that stays full for its first send.

## 5. Proofs

The theorems hold for every value of the constants that satisfies the modules' assumptions. Each invariant that
a proof adds was first checked by TLC on the instances of the runs.

**CmdBufProofs** (every ring size `count` >= 2, batch size and set of data): `TypeCorrect`, `RingInvariant`,
`FifoDeliveryHolds`, `NoOverwriteHolds` and `FifoRefined`.
`FifoDelivery` is not inductive: it does not say what is in the slots. `RingInv` adds
three things. Each side's registers lie in a window that the other side can only
enlarge (`CallsInWindow`): the producer's `n` plus the published entries stay
below `count`, the consumer's `n` stays within the published ones. The numbers of entries
written and received agree with the indices and registers. And the slots from `tail` on hold, in
order, the values written and not received. The proof has one step per action; the
arithmetic of `% count` is in lemmas of its own. `FifoRefined` maps the ring to the bounded queue of `CmdFifo`: storing
`head` appends the batch, storing `tail` removes what was received, and no other access changes the abstract queue. It needs `RingInv`,
without which the slots between the indices could change under a store.

**XcowFileProofs** (every number of entries per cluster, of clusters and of metadata clusters): `TypeCorrect`, `FileInvariant`,
`WriteExclusiveHolds`, `FrozenSnapshotsHolds`, `InheritsSourceHolds`. The inductive invariant is `TypeOK /\ XcowInv`; `XcowInv` was written for this: a
leaf table serves one root index and a data cluster one address, the snapshot (or leaf table) that may write it is the oldest that has it, what is in
use lies below the allocators' marks, and a transaction commits into a table its snapshot owns a cluster nobody holds. Every action is reduced to one of three shapes, each with a lemma: one
reference changes (`RefStep`), one leaf entry changes (`LeafStep`), or the list of snapshots does.
`InheritsSourceHolds` has a hypothesis, `l0count <= PerCluster`: the root table fits one cluster. For larger files the conclusion is
false of the code, because the handle of `open_read` and `open_write` spans one cluster and `snap_create` copies what it spans (section 4).

**XcowSrvProofs** (every map file, and every set of commands and requests of the shape `RequestAssumption` gives: a read or a write touches at
least one cluster): `SrvInvariant`, `FileRefined`, `LockHeldHolds`, `NoWriteDuringAllocHolds`. `SrvInv` adds to the file's invariant
the correspondence of locks, open transactions and allocation I/Os (`Ledger`: one of each per cluster, so a lock cannot outlive its
allocation), that every cluster named by a reply or a data I/O was taken earlier and is not being filled (`ToldSafe`),
and that a queued continuation reads its entry from a table some snapshot owns (`WqOwned`; a snapshot taken meanwhile
may make that table one of an older snapshot). `FileRefined` is proved along with it: an allocation is only begun by a handler that found the cluster unlocked.

**XcowReplyProofs**: `OneReplyHolds` for every set of requests. Its invariant, `Tickets`, says who will answer a command: its ticket counts at least the
continuations and I/Os pending for it, those are prepared or submitted as a whole, a command waiting for an allocation has
nothing else pending, and a command answered with success has nothing pending at all.
`QueueDrainedHolds` assumes `SingleCluster`: every request lies within one cluster. A write over several clusters is the one continuation that makes the
drain loop stop with work left. `AckedWhereReadHolds` assumes also that there is no snapshot command; with one, the
property is false (run XcowSrvLost). Its invariant adds to `SrvInv` that open transactions will commit into a table of the newest
snapshot whose entry still needs them (`TxCurrent`) and that each allocation and continuation is for the address its command asked (`AsksFor`).

**XcowCacheProofs** (every number of lines and ways, map file, disk, set of queues and commands; `PathAssumption`: commands are numbered, the
server is asked what the guest asks, the disk has at least one cluster). Two theorems have no further hypothesis and so cover guests the run leaves out
(several queues, failing I/O, snapshots at any time, moves back to processors used before). `CacheUniqueHolds`: the data path never caches two
translations of one cluster. Its invariant adds to `CacheUnique` only that the cache keeps its lines and ways (`CacheShape`). An
update is safe because by `CacheUnique` the way the ascending search finds is the only one holding the cluster (`SlotHolds`); the other
operations make nothing valid and change no tag. `PathTypeCorrect`: the types of the whole path. It rests on `SrvInvariant`, since what a ring, a
cached way or an address may hold is what the server has handed out.
`SnapshotIntactHolds`, `CacheAgreesHolds` and `ReadsLastWriteHolds` assume `Serial`: one queue, no failing I/O, snapshots with nothing else in
flight, no read under a shared leaf table, no return to a processor whose copy of the cache was filled, cluster 0 of the disk zeroed (without any of these a conclusion is false, section 2; the last is needed by `ReadsLastWriteHolds` alone), and a root table that fits one cluster, as for `InheritsSourceHolds`.
The instance of the run satisfies it. The inductive invariant is `PathInv`; beyond the types it says

* what the guest keeps to (`Flight`), and that transactions and continuations refer to the newest snapshot's tables (`Tables`);
* what the disk holds: the newest snapshot has there what was served last (`Newest`), a superseded one what it may hold (`Older`), and a command in
  the host queue was translated to where its cluster is (`Hosted`);
* that whatever is cached (`CacheTrue`) or answered and not yet seen by the program (`AnswerTrue`) may be used: the cluster it names has the right contents, belongs to nobody
  else, and is the head's own if it allows writes (`Truth`);
* `Ordered`, the reason why copies do not go wrong: after a copy the cache and the NCQ may still name the cluster the data was copied from. In the NCQ such stale
  answers precede fresh ones, stale answers are cached only over stale ways, and as long as there is one, a fresh answer that allows writes is to come and no write of
  that cluster is in the host queue, so that the old contents are still right.

None of the three properties is inductive without `Ordered`: a stale answer cached after the fresh one would stay. There is a lemma per action
(`VsqAgreed`, `TakeAgreed`, `NcqAgreed`, `DoneAgreed`, `HqAgreed`); a step of the server is reduced to what it does to the translations (nothing, an allocation committed, a snapshot)
before the disk and the cache are looked at.

**NmRouterProofs** (every set of identifiers, each used any number of times, any of the sample programs, exchanged at any time, `ProgramAssumption`):
`TypeCorrect` without further hypotheses; `RouterInvariant`, `CompletedOnceHolds`, `NoIoAfterCompletionHolds`, `TargetStatusReportedHolds` and the two below when
neither translation nor the host queue rejects a command (`~MayReject`; a rejected command is completed twice, section 4, so no run allows it either) and each command is answered once (`AnswersOnce`: no `RespondPiece`, or no failing userspace
I/O, or the XCOW program is neither loaded nor swapped in; the other programs answer once, `RightQueueHolds`). `RouterInv` says that a command is free, in the
submission queue, under way only at targets whose send bit it has, or completed with nothing under way, and that no queue holds it twice.
For the status, `StatusKept` adds that a failure of the awaited target stays in the word until it is reported, since a target updates a word once.
`SendBitsMatchHolds` needs that bits stand for sends: the notifier stays open and no mirrored write is refused
(`Accepted`), because a refused NSQ send returns from `io_act` before the host queue is tried and leaves its bit set, and closing the notifier drops what is in its rings.
`AckedWriteOnDeviceHolds` is about the programs that leave writing to the host queue (passthrough, replicate), loaded
from the start: `Swaps` brings in only others, for which the property promises nothing. A command routed by another program and completed under one of these two
would carry a word the property knows nothing of.

**IoThreadProofs** (every number of threads and of controllers, at least as many bindings as controllers, queues of 2 to 65536 entries, any burst): `TypeCorrect`,
`OnePollerHolds`, `SleepSafe`. All three assume `OneWriter`, one process at a time writing `iothread_idx`; with two, `OnePoller` is false
(section 3). `PollInv` is the inductive invariant behind the first two. `OnePoller` alone does not say why a move is safe; `PollInv` adds that a thread in a pass goes over what
is left of its own list (`Visit`), that a binding is in one list, once, and is the one its controller refers to (`Lists`), and that what the writer removed stays out of all lists until it adds it again (`Moving`). The writer changes a list only while no pass is
on it, so a visit never outlives its binding.
`SleepSafe` assumes `QuietRebind` as well, as the run does: the guest, the emulator and the host leave a controller alone while it is moved, and `~SpuriousLive` (without either it is false, section 3). What it says of unread completions it says of queues with an interrupt. `IdleInv` adds what a
thread on its way to sleep has seen (`Settled`: nothing in flight or unread, then the lock, then the event index at the head; unread completions matter where there is an interrupt, `Seen`), that the host resumes paused controllers only (`Resumed`), that the
binding of a moved controller is found in a list the writer has not passed (`Found`), and that a sleeping controller's event index stands at its head, so that the
guest's first command after that rings (`FirstRings`, the 16-bit comparison for every queue size up to 65536).
What `Without` keeps of a list is proved by induction in the form of a least counterexample (`LeastNat`, `NatSteps`), since the library's induction theorems cannot be applied here.

**UifProofs** (every number of queues, threads, devices, blocks and commands, every burst length, all seven programs; `UifAssumption`: there is a queue, commands have identifiers of
their own and stay within the device, a flush transfers nothing): `TypeCorrect` without further hypotheses. `RightQueueHolds` assumes `Owned`: the queues of a
device have one worker. Only `encryptor-multi` can be set up otherwise, and then a ticket's queue index is read with another worker's table (section 4).
`AckedOnDiskHolds` and `ReadReturnsHolds` also assume `Sound`: no failure or command is met that the program acknowledges without having
written it (section 4 lists these). The invariants build on each other. `TypeInv` bounds a burst and its cursor and gives a tag's index the range of its maker's queues. `FlowInv` says
where a command is: in one place only, from the ring through handler, ticket and I/O to the response (`Placed`, `Single`, `Apart`), and every tag made so far leads to the
command's own queue. `DiskInv` is needed because `AckedOnDisk` does not say what is under way: a prepared or submitted write carries what the guest asked under
the right tweak (`Prepared`), a performed one has put it on the disk (`Performed`), nothing is promised of a block while a command is changing it (`Forgotten`), and a
buffer of `encryptor-sgx` that is not zero was left so by an earlier write of the same worker (`Dirtier`; `write_zeroes` writes that buffer out as it is).
`ReadInv` says the same of a read's buffer between the host's read and the answer. What `sqids` and `Answered`, two
recursive functions, return is proved from a least counterexample as for `Without`.

Only model-checked: all liveness properties, with whatever speaks of ENABLED, which the prover cannot reach; and the runs that show a property
false outside the hypotheses above. What the block iterator computes is compared with its
reference on bounded ranges only; for every range it would take an induction like that of `Without` over divisions and remainders.

## 6. Not modelled

Argument checks that only return an error, FUA flags, the admin queue of the server (its one
handler returns a constant), `do_write_zeroes`
and `erase` (no callers), byte offsets and their widths, the set-up of rings and mappings,
creating and destroying controllers and queues, register emulation, address translation, the ciphers and the inside of the enclave (of its calls, which
blocks they encrypt with which tweak and what a failure leaves is modelled). Command translation in the
router is a nondeterministic accept or reject. Data contents are modelled where a property needs them
(XcowCache, Uif); XcowSrv tracks where data is put and whether it was initialised. The maps of the XCOW program have a copy
per processor, and a controller's program runs on the processor of its iothread; that two controllers share a program, and so the copies, is not modelled.
A death that leaves the newest table of the snapshot list empty (section 4) is not, since what the code then does is undefined.

Most of the repository's lines are not the program's own: the test framework, the option parser and the kernel headers vendored
under `include/` and `catch_amalgamated.cpp`, and code generated for the enclave. They are left out, as are command-line
tools.

## 7. Plan

`AdmNotify`: `send_wait` with a timeout and a late response; the snapshot list with its linked tables.
