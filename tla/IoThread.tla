------------------------------ MODULE IoThread ------------------------------
(***************************************************************************)
(* The iothreads that poll the virtual controllers (iothreads.c, io.c),    *)
(* the doorbells that wake them (mmio.c, vsq.c) and the sysfs file that    *)
(* moves a controller from one iothread to another (settings.c).           *)
(*                                                                         *)
(* Each controller has one I/O queue pair; the loops over queues repeat    *)
(* the same step for each.  A visit of an iothread to a binding runs one   *)
(* iteration of its poll or drain loop (vsq_poll_loops = 1).  Times are    *)
(* nondeterministic: an idle or I/O timeout may have passed whenever the   *)
(* iteration reaped no completion.  Sections under a lock are one step,    *)
(* except the one in which an iothread suspends a queue and those that     *)
(* pause a controller and resume it.                                       *)
(***************************************************************************)
EXTENDS Integers, Sequences, FiniteSets, SequencesExt

CONSTANTS
    Vctrl,         \* virtual controllers
    NThreads,      \* num_iothreads
    Binding,       \* binding structures
    None,          \* the NULL binding
    Size,          \* entries of a virtual queue
    ArbBurst,      \* commands taken from a queue in an iteration
    Modes,         \* <<shadow, irq>>: whether a guest uses the shadow doorbell and
                   \* completion interrupts
    Writers,       \* processes writing iothread_idx
    QuietRebind,   \* the guest and the emulator are quiet while they do
    SpuriousLive   \* the host's driver may report LIVE to a controller it did not pause

ASSUME IoAssumption ==
    /\ NThreads \in Nat \ {0}
    /\ Size \in 2 .. 65536
    /\ ArbBurst \in Nat \ {0}
    /\ None \notin Binding
    /\ IsFiniteSet(Vctrl)
    /\ Injection(Vctrl, Binding) # {}

Thread == 0 .. NThreads - 1
Idx    == 0 .. Size - 1

VARIABLES
    \* iothreads
    at,        \* where the thread is
    park,      \* KTHREAD_SHOULD_PARK
    bindings,  \* the list it polls
    todo,      \* bindings left in this pass over the list, the current first
    active,    \* some binding of this pass stays active
    \* bindings
    bs,        \* [vctrl, it, poll_enabled, state, idle]
    \* controllers
    binding,   \* vctrl->binding
    vlock,     \* who is in a long section under vctrl->lock: "free", "io", "pause", "resume"
    io_idle,
    paused,    \* vctrl_paused
    shadow,    \* shadow_db_en
    irq,       \* the completion queue was created with an interrupt
    vq,        \* the queue pair: [tail, head, eidx, unread, consumed]
    hw,        \* commands at the host or a notifier: [pending, done]
    guest,     \* the guest's submission: "run", "wrote", "mmio"
    missed,    \* history: the iothread was to go on polling the controller, and
               \* was not told in time
    \* writers of iothread_idx
    wr         \* [pc, c, to, old, i, n, b]

threadVars == <<at, park, bindings, todo, active>>
modes      == <<shadow, irq>>
ctrlVars   == <<io_idle, paused, modes, vq, hw, guest, missed>>
ioVars     == <<threadVars, bs, binding, vlock, ctrlVars, wr>>

Unused == [vctrl |-> None, it |-> 0, poll_enabled |-> FALSE, state |-> "ZERO", idle |-> FALSE]
NoJob  == [pc |-> "off", c |-> None, to |-> 0, old |-> FALSE, i |-> 0, n |-> 0, b |-> None]

\* Every controller is bound to iothread 0, which has nothing to poll.
IoInit ==
    /\ at = [t \in Thread |-> "parkme"]
    /\ park = [t \in Thread |-> TRUE]
    /\ binding = CHOOSE f \in Injection(Vctrl, Binding) : TRUE
    /\ bindings = [t \in Thread |-> IF t = 0 THEN SetToSeq(Range(binding)) ELSE <<>>]
    /\ todo = [t \in Thread |-> <<>>]
    /\ active = [t \in Thread |-> FALSE]
    /\ bs = [b \in Binding |->
              IF \E c \in Vctrl : binding[c] = b
              THEN [Unused EXCEPT !.vctrl = CHOOSE c \in Vctrl : binding[c] = b]
              ELSE Unused]
    /\ vlock = [c \in Vctrl |-> "free"]
    /\ io_idle = [c \in Vctrl |-> TRUE]
    /\ paused = [c \in Vctrl |-> FALSE]
    /\ \E m \in [Vctrl -> Modes] : /\ shadow = [c \in Vctrl |-> m[c][1]]
                                   /\ irq = [c \in Vctrl |-> m[c][2]]
    /\ vq = [c \in Vctrl |-> [tail |-> 0, head |-> 0, eidx |-> 0, unread |-> 0, consumed |-> 0]]
    /\ hw = [c \in Vctrl |-> [pending |-> 0, done |-> 0]]
    /\ guest = [c \in Vctrl |-> "run"]
    /\ missed = [c \in Vctrl |-> FALSE]
    /\ wr = [w \in Writers |-> NoJob]

Unlocked(c) == vlock[c] = "free"
Miss(c, b)  == missed' = [missed EXCEPT ![c] = b]
Queued(c)   == (vq[c].tail - vq[c].head) % Size
InFlight(c) == hw[c].pending + hw[c].done

\* vcq->pending: reserved by nvme_mdev_vsq_get_cmd, given back by
\* nvme_mdev_vcq_process.
Reserved(c) == InFlight(c) + vq[c].unread + vq[c].consumed

\* The thread is in its pass, with bindings_lock held.
InPass(t) == at[t] \notin {"top", "idle", "parkme"}
Cur(t)    == Head(todo[t])
Ctl(t)    == bs[Cur(t)].vctrl

-----------------------------------------------------------------------------
(* nvme_mdev_io_thread.                                                     *)

StartPass(t) ==
    /\ at[t] = "top"
    /\ at' = [at EXCEPT ![t] = "scan"]
    /\ todo' = [todo EXCEPT ![t] = bindings[t]]
    /\ UNCHANGED <<park, bindings, active, bs, binding, vlock, ctrlVars, wr>>

\* The thread leaves its binding; ret is what the last loop returned.
Leave(t, ret) ==
    /\ at' = [at EXCEPT ![t] = "scan"]
    /\ todo' = [todo EXCEPT ![t] = Tail(todo[t])]
    /\ active' = [active EXCEPT ![t] = active[t] \/ ret]
    /\ UNCHANGED <<park, bindings>>

Enter(t, p) ==
    /\ at' = [at EXCEPT ![t] = p]
    /\ UNCHANGED <<park, bindings, todo, active>>

Skip(t) ==
    /\ at[t] = "scan" /\ todo[t] # <<>>
    /\ bs[Cur(t)].state = "ZERO" /\ ~bs[Cur(t)].poll_enabled
    /\ Leave(t, FALSE)
    /\ UNCHANGED <<bs, binding, vlock, ctrlVars, wr>>

nvme_mdev_io_begin_poll(t) ==
    /\ at[t] = "scan" /\ todo[t] # <<>>
    /\ bs[Cur(t)].state = "ZERO" /\ bs[Cur(t)].poll_enabled
    /\ bs' = [bs EXCEPT ![Cur(t)].idle = FALSE, ![Cur(t)].state = "BEGUN"]
    /\ Enter(t, "poll")
    /\ Miss(Ctl(t), FALSE)
    /\ UNCHANGED <<binding, vlock, io_idle, paused, modes, vq, hw, guest, wr>>

Reenter(t) ==
    /\ at[t] = "scan" /\ todo[t] # <<>>
    /\ bs[Cur(t)].state # "ZERO"
    /\ Enter(t, IF bs[Cur(t)].state = "BEGUN" THEN "poll" ELSE "drain")
    /\ Miss(Ctl(t), FALSE)
    /\ UNCHANGED <<bs, binding, vlock, io_idle, paused, modes, vq, hw, guest, wr>>

EndPass(t) ==
    /\ at[t] = "scan" /\ todo[t] = <<>>
    /\ at' = [at EXCEPT ![t] = IF active[t] THEN "top" ELSE "idle"]
    /\ active' = [active EXCEPT ![t] = FALSE]
    /\ UNCHANGED <<park, bindings, todo, bs, binding, vlock, ctrlVars, wr>>

\* kthread_park(current) ...
ParkSelf(t) ==
    /\ at[t] = "idle"
    /\ park' = [park EXCEPT ![t] = TRUE]
    /\ at' = [at EXCEPT ![t] = "parkme"]
    /\ UNCHANGED <<bindings, todo, active, bs, binding, vlock, ctrlVars, wr>>

\* ... and kthread_parkme, which returns once the bit is cleared.
Unparked(t) ==
    /\ at[t] = "parkme" /\ ~park[t]
    /\ Enter(t, "top")
    /\ UNCHANGED <<bs, binding, vlock, ctrlVars, wr>>

-----------------------------------------------------------------------------
(* One iteration of nvme_mdev_io_polling_loop.                              *)

\* Polling was disabled.
PollStop(t) ==
    /\ at[t] = "poll"
    /\ ~bs[binding[Ctl(t)]].poll_enabled
    /\ Enter(t, "drain")
    /\ UNCHANGED <<bs, binding, vlock, ctrlVars, wr>>

\* The commands taken: nvme_mdev_vsq_get_cmd, while the queue has data and
\* the completion queue has room.
Taken(c) == Min({ArbBurst, Queued(c), Size - 1 - Reserved(c)})

\* Mutation: the event index does not wrap.
Serve_nowrap(c) ==
    LET n == Taken(c)
        h == (vq[c].head + n) % Size
    IN  /\ vq' = [vq EXCEPT ![c] =
                    [tail |-> vq[c].tail, head |-> h,
                     eidx |-> IF n > 0 THEN h + (Size \div 2) ELSE vq[c].eidx,
                     unread |-> vq[c].unread + hw[c].done, consumed |-> 0]]
        /\ hw' = [hw EXCEPT ![c] = [pending |-> hw[c].pending + n, done |-> 0]]
        /\ UNCHANGED <<io_idle, paused, modes, guest, missed>>

\* The event index asks for a doorbell half a queue ahead.
Serve(c) ==
    LET n == Taken(c)
        h == (vq[c].head + n) % Size
    IN  /\ vq' = [vq EXCEPT ![c] =
                    [tail |-> vq[c].tail, head |-> h,
                     eidx |-> IF n > 0 THEN (h + (Size \div 2)) % Size ELSE vq[c].eidx,
                     unread |-> vq[c].unread + hw[c].done, consumed |-> 0]]
        /\ hw' = [hw EXCEPT ![c] = [pending |-> hw[c].pending + n, done |-> 0]]
        /\ UNCHANGED <<io_idle, paused, modes, guest, missed>>

\* The loop goes on, in a later visit ...
PollOn(t) ==
    /\ at[t] = "poll"
    /\ bs[binding[Ctl(t)]].poll_enabled
    /\ Serve(Ctl(t))
    /\ Leave(t, TRUE)
    /\ UNCHANGED <<bs, binding, vlock, wr>>

\* ... or the idle timeout has passed; there is none without the shadow
\* doorbell.
PollIdle(t) ==
    /\ at[t] = "poll"
    /\ bs[binding[Ctl(t)]].poll_enabled
    /\ shadow[Ctl(t)] /\ hw[Ctl(t)].done = 0
    /\ Serve(Ctl(t))
    /\ bs' = [bs EXCEPT ![binding[Ctl(t)]].idle = TRUE]
    /\ Enter(t, "drain")
    /\ UNCHANGED <<binding, vlock, wr>>

-----------------------------------------------------------------------------
(* nvme_mdev_io_end_poll.                                                   *)

\* Completions are still to come: the drain goes on in a later visit ...
DrainOn(t) ==
    LET c == Ctl(t) IN
    /\ at[t] = "drain" /\ InFlight(c) > 0
    /\ vq' = [vq EXCEPT ![c].unread = vq[c].unread + hw[c].done]
    /\ hw' = [hw EXCEPT ![c].done = 0]
    /\ bs' = [bs EXCEPT ![binding[c]].state = "ENDING"]
    /\ Leave(t, TRUE)
    /\ UNCHANGED <<binding, vlock, io_idle, paused, modes, guest, missed, wr>>

\* ... or is given up after io_timeout_ms without one.
DrainTimeout(t) ==
    LET c == Ctl(t) IN
    /\ at[t] = "drain" /\ hw[c].pending > 0 /\ hw[c].done = 0
    /\ bs' = [bs EXCEPT ![binding[c]].state = "ZERO", ![binding[c]].idle = FALSE]
    /\ Leave(t, TRUE)
    /\ UNCHANGED <<binding, vlock, ctrlVars, wr>>

\* Mutation: completions the guest has not seen do not keep the thread.
Drained_noflush(t) ==
    LET c == Ctl(t) IN
    /\ at[t] = "drain" /\ InFlight(c) = 0
    /\ bs' = [bs EXCEPT ![binding[c]].state = "ZERO"]
    /\ IF bs[binding[c]].idle THEN Enter(t, "trylock") ELSE Leave(t, TRUE)
    /\ UNCHANGED <<binding, vlock, ctrlVars, wr>>

\* Nothing is in flight.  The flush interrupts the guest for completions it
\* has not seen, and then the controller is not idle; it has nothing to do
\* for a completion queue without an interrupt.
Drained(t) ==
    LET c       == Ctl(t)
        flushed == vq[c].unread # 0 /\ irq[c]
        idle    == bs[binding[c]].idle /\ ~flushed
    IN
    /\ at[t] = "drain" /\ InFlight(c) = 0
    /\ bs' = [bs EXCEPT ![binding[c]].state = "ZERO", ![binding[c]].idle = idle]
    /\ IF idle THEN Enter(t, "trylock") ELSE Leave(t, TRUE)
    /\ UNCHANGED <<binding, vlock, ctrlVars, wr>>

\* Someone else holds vctrl->lock.
LockBusy(t) ==
    /\ at[t] = "trylock"
    /\ Leave(t, TRUE)
    /\ UNCHANGED <<bs, binding, vlock, ctrlVars, wr>>

\* __nvme_mdev_vsq_suspend_io: the queue is empty ...
SuspendBegin(t) ==
    LET c == Ctl(t) IN
    /\ at[t] = "trylock" /\ Unlocked(c)
    /\ vq[c].tail = vq[c].head
    /\ vlock' = [vlock EXCEPT ![c] = "io"]
    /\ Enter(t, "event")
    /\ UNCHANGED <<bs, binding, ctrlVars, wr>>

\* ... its event index is made to ask for a doorbell at the next command ...
SuspendEvent(t) ==
    LET c == Ctl(t) IN
    /\ at[t] = "event"
    /\ vq' = [vq EXCEPT ![c].eidx = vq[c].head]
    /\ Enter(t, "suspend")
    /\ UNCHANGED <<bs, binding, vlock, io_idle, paused, modes, hw, guest, missed, wr>>

\* ... a queue with a command, at first or when its doorbell is read again,
\* keeps the controller from going idle.  What is returned is io_idle, which
\* only a doorbell clears: if a pause's end resumed the controller instead,
\* the thread takes it for idle ...
SuspendRefused(t) ==
    LET c == Ctl(t) IN
    /\ \/ at[t] = "trylock" /\ Unlocked(c)
       \/ at[t] = "suspend"
    /\ vq[c].tail # vq[c].head
    /\ vlock' = [vlock EXCEPT ![c] = "free"]
    /\ bs' = [bs EXCEPT ![binding[c]].idle = FALSE]
    /\ Leave(t, ~io_idle[c])
    /\ Miss(c, io_idle[c])
    /\ UNCHANGED <<binding, io_idle, paused, modes, vq, hw, guest, wr>>

\* Mutation: the doorbell is not read again.
SelfPark_once(t) ==
    LET c == Ctl(t) IN
    /\ at[t] = "suspend"
    /\ vlock' = [vlock EXCEPT ![c] = "free"]
    /\ io_idle' = [io_idle EXCEPT ![c] = TRUE]
    /\ bs' = [bs EXCEPT ![binding[c]].poll_enabled = FALSE]
    /\ Leave(t, FALSE)
    /\ Miss(c, FALSE)
    /\ UNCHANGED <<binding, paused, modes, vq, hw, guest, wr>>

\* ... and otherwise polling is disabled.
SelfPark(t) ==
    LET c == Ctl(t) IN
    /\ at[t] = "suspend"
    /\ vq[c].tail = vq[c].head
    /\ vlock' = [vlock EXCEPT ![c] = "free"]
    /\ io_idle' = [io_idle EXCEPT ![c] = TRUE]
    /\ bs' = [bs EXCEPT ![binding[c]].poll_enabled = FALSE]
    /\ Leave(t, FALSE)
    /\ Miss(c, FALSE)
    /\ UNCHANGED <<binding, paused, modes, vq, hw, guest, wr>>

-----------------------------------------------------------------------------
(* __nvme_mdev_io_resume, __nvme_mdev_io_pause and their callers.           *)

Poll(c, on) == bs' = [bs EXCEPT ![binding[c]].poll_enabled = on]
Unpark(c)   == park' = [park EXCEPT ![bs[binding[c]].it] = FALSE]

\* The thread has been past the binding of c in this pass, and may be about to
\* park.
PastIt(c) ==
    LET t == bs[binding[c]].it
    IN  at[t] \notin {"top", "parkme"} /\ binding[c] \notin Range(todo[t])

\* Needs a binding (BUG_ON).  Unparking a thread that has not parked yet does
\* nothing.
io_resume(c) ==
    /\ binding[c] # None
    /\ Poll(c, TRUE)
    /\ Unpark(c)
    /\ Miss(c, PastIt(c))

\* The wait for the poller to become quiescent waits for "true".
io_pause(c) ==
    IF binding[c] # None
    THEN /\ Poll(c, FALSE)
         /\ IF bs[binding[c]].poll_enabled THEN Unpark(c) ELSE UNCHANGED park
         /\ Miss(c, FALSE)
    ELSE UNCHANGED <<bs, park, missed>>

Storing(c) == \E w \in Writers : wr[w].pc # "off" /\ wr[w].c = c
Quiet(c)   == QuietRebind => ~Storing(c)

\* A caller that holds vctrl->lock pauses the controller, so that the poller
\* may see it paused ...
PauseBegin(c) ==
    /\ Unlocked(c) /\ Quiet(c)
    /\ binding[c] # None
    /\ io_pause(c)
    /\ vlock' \in {[vlock EXCEPT ![c] = w] : w \in {"pause", "resume"}}
    /\ vlock'[c] = "resume" => paused[c] \/ SpuriousLive
    /\ UNCHANGED <<at, bindings, todo, active, binding, io_idle, paused, modes, vq, hw, guest, wr>>

\* ... and resumes it: admin commands, interrupt set-up and DMA mapping
\* ("pause"), nvme_mdev_vctrl_resume ("resume"), which leaves a controller
\* that was not paused as it is.
PauseEnd(c) ==
    /\ vlock[c] \in {"pause", "resume"}
    /\ IF vlock[c] = "pause" \/ paused[c] THEN io_resume(c) ELSE UNCHANGED <<bs, park, missed>>
    /\ vlock' = [vlock EXCEPT ![c] = "free"]
    /\ paused' = [paused EXCEPT ![c] = paused[c] /\ vlock[c] = "pause"]
    /\ UNCHANGED <<at, bindings, todo, active, binding, io_idle, modes, vq, hw, guest, wr>>

nvme_mdev_vctrl_pause(c) ==
    /\ Unlocked(c) /\ Quiet(c)
    /\ ~paused[c]
    /\ io_pause(c)
    /\ paused' = [paused EXCEPT ![c] = TRUE]
    /\ UNCHANGED <<at, bindings, todo, active, binding, vlock, io_idle, modes, vq, hw, guest, wr>>

\* A doorbell write traps: __nvme_mdev_mmio_db_write_sq.
DoorbellWrite(c) ==
    /\ guest[c] = "mmio" /\ Unlocked(c)
    /\ guest' = [guest EXCEPT ![c] = "run"]
    /\ vq' = IF shadow[c] THEN vq ELSE [vq EXCEPT ![c].tail = (vq[c].tail + 1) % Size]
    /\ io_idle' = [io_idle EXCEPT ![c] = FALSE]
    /\ IF paused[c] THEN UNCHANGED <<bs, park, missed>> ELSE io_resume(c)
    /\ UNCHANGED <<at, bindings, todo, active, binding, vlock, paused, modes, hw, wr>>

-----------------------------------------------------------------------------
(* The guest's driver and the host's devices.                               *)

\* A command is put into the queue; with the shadow doorbell its tail is
\* written to memory first.
GuestSubmit(c) ==
    /\ guest[c] = "run" /\ Quiet(c)
    /\ Queued(c) + InFlight(c) + vq[c].unread < Size - 1
    /\ guest' = [guest EXCEPT ![c] = IF shadow[c] THEN "wrote" ELSE "mmio"]
    /\ vq' = IF shadow[c] THEN [vq EXCEPT ![c].tail = (vq[c].tail + 1) % Size] ELSE vq
    /\ UNCHANGED <<threadVars, bs, binding, vlock, io_idle, paused, modes, hw, missed, wr>>

\* Whether a tail that moved by one passed the event index, in 16 bits.
NeedEvent(tail, eidx) ==
    LET old == (tail - 1) % Size
    IN  (tail - eidx - 1) % 65536 < (tail - old) % 65536

\* Only then is the doorbell register written.
GuestCheck(c) ==
    /\ guest[c] = "wrote"
    /\ guest' = [guest EXCEPT ![c] = IF NeedEvent(vq[c].tail, vq[c].eidx) THEN "mmio" ELSE "run"]
    /\ UNCHANGED <<threadVars, bs, binding, vlock, io_idle, paused, modes, vq, hw, missed, wr>>

GuestConsume(c) ==
    /\ vq[c].unread > 0
    /\ vq' = [vq EXCEPT ![c].unread = vq[c].unread - 1, ![c].consumed = vq[c].consumed + 1]
    /\ UNCHANGED <<threadVars, bs, binding, vlock, io_idle, paused, modes, hw, guest, missed, wr>>

HostDone(c) ==
    /\ hw[c].pending > 0
    /\ hw' = [hw EXCEPT ![c] = [pending |-> hw[c].pending - 1, done |-> hw[c].done + 1]]
    /\ UNCHANGED <<threadVars, bs, binding, vlock, io_idle, paused, modes, vq, guest, missed, wr>>

-----------------------------------------------------------------------------
(* iothread_idx_store: nvme_mdev_io_unbind_all, then nvme_mdev_io_bind.     *)

StoreBegin(w, c, to) ==
    /\ wr[w].pc = "off" /\ Unlocked(c)
    /\ QuietRebind => guest[c] = "run" /\ Queued(c) = 0
    /\ wr' = [wr EXCEPT ![w] =
                [pc |-> "pause", c |-> c, to |-> to, i |-> 0, n |-> 0, b |-> None,
                 old |-> binding[c] # None /\ bs[binding[c]].poll_enabled]]
    /\ UNCHANGED <<threadVars, bs, binding, vlock, ctrlVars>>

\* The next iothread of the loop, or the end of it.
NextThread(w, n) ==
    IF wr[w].i + 1 < NThreads
    THEN wr' = [wr EXCEPT ![w].pc = "pause", ![w].i = wr[w].i + 1, ![w].n = n]
    ELSE wr' = [wr EXCEPT ![w].pc = "bind", ![w].n = n]

UnbindPause(w) ==
    /\ wr[w].pc = "pause" /\ Unlocked(wr[w].c)
    /\ io_pause(wr[w].c)
    /\ wr' = [wr EXCEPT ![w].pc = "del"]
    /\ UNCHANGED <<at, bindings, todo, active, binding, vlock, io_idle, paused, modes, vq, hw, guest>>

\* The list s without the bindings in S.
Without(s, S) ==
    LET rest[n \in 0 .. Len(s)] ==
          IF n = 0 THEN <<>>
          ELSE IF s[n] \in S THEN rest[n - 1]
          ELSE Append(rest[n - 1], s[n])
    IN  rest[Len(s)]

\* Mutation: the list is changed without bindings_lock.
UnbindDel_nolock(w) ==
    LET i    == wr[w].i
        mine == {b \in Range(bindings[i]) : bs[b].vctrl = wr[w].c}
        n    == wr[w].n + Cardinality(mine)
    IN  /\ wr[w].pc = "del"
        /\ bindings' = [bindings EXCEPT ![i] = Without(bindings[i], mine)]
        /\ IF n > 0 THEN wr' = [wr EXCEPT ![w].pc = "null", ![w].n = n] ELSE NextThread(w, n)
        /\ UNCHANGED <<at, park, todo, active, bs, binding, vlock, ctrlVars>>

UnbindDel(w) ==
    LET i    == wr[w].i
        mine == {b \in Range(bindings[i]) : bs[b].vctrl = wr[w].c}
        n    == wr[w].n + Cardinality(mine)
    IN  /\ wr[w].pc = "del" /\ ~InPass(i)
        /\ bindings' = [bindings EXCEPT ![i] = Without(bindings[i], mine)]
        /\ IF n > 0 THEN wr' = [wr EXCEPT ![w].pc = "null", ![w].n = n] ELSE NextThread(w, n)
        /\ UNCHANGED <<at, park, todo, active, bs, binding, vlock, ctrlVars>>

Unlisted(b) ==
    /\ \A t \in Thread : b \notin Range(bindings[t])
    /\ \A w \in Writers : wr[w].b # b

\* The structure is leaked: kfree gets the pointer just cleared.
UnbindNull(w) ==
    /\ wr[w].pc = "null" /\ Unlocked(wr[w].c)
    /\ binding' = [binding EXCEPT ![wr[w].c] = None]
    /\ bs' = [b \in Binding |-> IF b = binding[wr[w].c] /\ Unlisted(b) THEN Unused ELSE bs[b]]
    /\ NextThread(w, wr[w].n)
    /\ UNCHANGED <<threadVars, vlock, ctrlVars>>

\* Structures no list and no controller refers to stand for new ones.
Free == {b \in Binding : Unlisted(b) /\ \A c \in Vctrl : binding[c] # b}

\* A controller that is bound meanwhile stays so (EEXIST).
BindSet(w) ==
    LET c == wr[w].c
        b == CHOOSE x \in Free : TRUE
    IN  /\ wr[w].pc = "bind" /\ Unlocked(c)
        /\ IF binding[c] # None
           THEN /\ wr' = [wr EXCEPT ![w] = NoJob]
                /\ UNCHANGED <<bs, binding>>
           ELSE /\ bs' = [bs EXCEPT ![b] = [vctrl |-> c, it |-> wr[w].to, poll_enabled |-> wr[w].old,
                                            state |-> "ZERO", idle |-> FALSE]]
                /\ binding' = [binding EXCEPT ![c] = b]
                /\ wr' = [wr EXCEPT ![w].pc = "add", ![w].b = b]
        /\ UNCHANGED <<threadVars, vlock, ctrlVars>>

\* The iothread is not woken, though the controller may be to be polled.
BindAdd(w) ==
    LET t == wr[w].to IN
    /\ wr[w].pc = "add" /\ ~InPass(t)
    /\ bindings' = [bindings EXCEPT ![t] = Append(bindings[t], wr[w].b)]
    /\ wr' = [wr EXCEPT ![w] = NoJob]
    /\ Miss(wr[w].c, bs[wr[w].b].poll_enabled /\ (at[t] = "idle" \/ park[t]))
    /\ UNCHANGED <<at, park, todo, active, bs, binding, vlock, io_idle, paused, modes, vq, hw, guest>>

-----------------------------------------------------------------------------
ThreadStep(t) ==
    \/ StartPass(t) \/ Skip(t) \/ nvme_mdev_io_begin_poll(t) \/ Reenter(t) \/ EndPass(t)
    \/ ParkSelf(t) \/ Unparked(t)
    \/ PollStop(t) \/ PollOn(t) \/ PollIdle(t)
    \/ DrainOn(t) \/ DrainTimeout(t) \/ Drained(t)
    \/ LockBusy(t) \/ SuspendBegin(t) \/ SuspendEvent(t) \/ SuspendRefused(t) \/ SelfPark(t)

HostStep(c)  == PauseBegin(c) \/ PauseEnd(c) \/ nvme_mdev_vctrl_pause(c)
GuestStep(c) == GuestSubmit(c) \/ GuestCheck(c) \/ DoorbellWrite(c) \/ GuestConsume(c)

StoreStep(w) ==
    \/ \E c \in Vctrl, to \in Thread : StoreBegin(w, c, to)
    \/ UnbindPause(w) \/ UnbindDel(w) \/ UnbindNull(w) \/ BindSet(w) \/ BindAdd(w)

IoNext ==
    \/ \E t \in Thread : ThreadStep(t)
    \/ \E c \in Vctrl : HostStep(c) \/ GuestStep(c) \/ HostDone(c)
    \/ \E w \in Writers : StoreStep(w)

\* The threads and the guest's processors are scheduled, the host's devices
\* complete their commands, a section under vctrl->lock ends, and a write to
\* sysfs that has begun goes on.
IoFairness ==
    /\ \A t \in Thread : WF_ioVars(ThreadStep(t))
    /\ \A c \in Vctrl : /\ WF_ioVars(GuestCheck(c) \/ DoorbellWrite(c))
                        /\ WF_ioVars(GuestConsume(c))
                        /\ WF_ioVars(PauseEnd(c))
                        /\ WF_ioVars(HostDone(c))
    /\ \A w \in Writers :
          SF_ioVars(UnbindPause(w) \/ UnbindDel(w) \/ UnbindNull(w) \/ BindSet(w) \/ BindAdd(w))

IoSpec == IoInit /\ [][IoNext]_ioVars /\ IoFairness

-----------------------------------------------------------------------------
(* Properties.                                                              *)

\* Types of the iothreads', bindings' and controllers' state.
IoTypeOK ==
    /\ at \in [Thread -> {"top", "scan", "poll", "drain", "trylock", "event", "suspend", "idle", "parkme"}]
    /\ park \in [Thread -> BOOLEAN]
    /\ bindings \in [Thread -> Seq(Binding)] /\ todo \in [Thread -> Seq(Binding)]
    /\ binding \in [Vctrl -> Binding \union {None}]
    /\ bs \in [Binding -> [vctrl : Vctrl \union {None}, it : Thread, poll_enabled : BOOLEAN,
                           state : {"ZERO", "BEGUN", "ENDING"}, idle : BOOLEAN]]
    /\ vq \in [Vctrl -> [tail : Idx, head : Idx, eidx : Idx, unread : Idx, consumed : Idx]]
    /\ hw \in [Vctrl -> [pending : Idx, done : Idx]]
    /\ vlock \in [Vctrl -> {"free", "io", "pause", "resume"}]
    /\ \A c \in Vctrl : Reserved(c) <= Size - 1

\* A controller is polled by one iothread at a time, through the binding it
\* refers to, in the state the loops ask for: none of the BUG_ONs of
\* begin_poll, polling_loop and end_poll fires while it is moved.
OnePoller ==
    /\ \A t \in Thread : at[t] \in {"poll", "drain", "trylock", "event", "suspend"} =>
          /\ \E c \in Vctrl : binding[c] = Cur(t) /\ Ctl(t) = c
          /\ at[t] = "poll" => bs[Cur(t)].state = "BEGUN"
          /\ at[t] = "drain" => bs[Cur(t)].state # "ZERO"
    /\ \A t, u \in Thread : \A i \in DOMAIN bindings[t], j \in DOMAIN bindings[u] :
          bs[bindings[t][i]].vctrl = bs[bindings[u][j]].vctrl => t = u /\ i = j

\* A controller that went idle, and is not being paused, has nothing in
\* flight and no completion the guest is to be interrupted for, and for every
\* command queued since the guest is about to write the doorbell register.
IdleQuiescent ==
    \A c \in Vctrl :
       /\ io_idle[c] /\ binding[c] # None /\ ~bs[binding[c]].poll_enabled
       /\ Unlocked(c) /\ ~paused[c] /\ ~Storing(c)
       =>
          /\ InFlight(c) = 0 /\ (irq[c] => vq[c].unread = 0)
          /\ vq[c].tail # vq[c].head =>
                \/ guest[c] = "mmio"
                \/ guest[c] = "wrote" /\ NeedEvent(vq[c].tail, vq[c].eidx)

\* The iothread of c is parked although c is to be polled.
Stranded(c) ==
    /\ binding[c] # None /\ bs[binding[c]].poll_enabled
    /\ LET t == bs[binding[c]].it IN at[t] = "parkme" /\ park[t]

\* The host, or the guest's admin commands, pause the controller for good or
\* over and over.
KeptPaused(c) == []<>(vlock[c] \in {"pause", "resume"})

\* A command in a controller's queue is taken, unless the controller is kept
\* paused, or its iothread is parked for good after one of three things that
\* do not keep it running: a kick, by a doorbell or by the end of a pause,
\* that finds the thread not parked yet; a move to a thread that is parked;
\* a refused suspend while io_idle is stale.
CommandTaken ==
    \A c \in Vctrl : \A h \in Idx :
       \/ vq[c].head = h /\ vq[c].tail # h ~> vq[c].head # h \/ paused[c]
       \/ KeptPaused(c)
       \/ <>[](Stranded(c) /\ missed[c])

\* "Kick the IO thread into running state": a command in a controller's
\* queue is taken, unless the controller is kept paused.
KickServed ==
    \A c \in Vctrl : \A h \in Idx :
       \/ vq[c].head = h /\ vq[c].tail # h ~> vq[c].head # h \/ paused[c]
       \/ KeptPaused(c)

=============================================================================
