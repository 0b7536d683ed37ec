------------------------------ MODULE NmRouter ------------------------------
(***************************************************************************)
(* The request router of the kernel module: every guest I/O command has an *)
(* iostate word, driven by a BPF program that is run at hooks, and by the  *)
(* completions of the two targets a command can be sent to: the host       *)
(* queue (HQ) and the userspace function behind the notifier (FD).         *)
(*                                                                         *)
(* bpf_sm.c (the iostate word), io.c (process_sq, process_hwq, io_act,     *)
(* passthrough), notifyfd.c (send, process_ncq, open, release), and the    *)
(* programs of samples/bpf.  One iothread polls all queues of a            *)
(* controller, so each function of it is one step; the guest, the host     *)
(* device and the userspace function run on their own.  attach_prog may    *)
(* change the program under way: nothing pauses the iothread for it.       *)
(***************************************************************************)
EXTENDS Integers, Sequences, FiniteSets

CONSTANTS
    Cid,          \* command identifiers of the guest's queue
    Programs,     \* BPF programs one of which is loaded
    Swaps,        \* programs an ioctl may load later ("none": detach)
    Faults,       \* statuses the targets may fail a command with
    MayReject,    \* translation or host submission may fail
    Slow,         \* programs under which the NSQ may stay full for nsq_timeout_ms
    MayExit,      \* the userspace function may close its notifier
    MaxRepeat,    \* bound: error answers to an identifier besides its last
    MaxIssue      \* bound: how often the guest uses a command identifier

\* The programs are those of samples/bpf.
ASSUME ProgramAssumption ==
    /\ Programs \subseteq {"passthrough", "replicate", "encrypt", "encrypt_ip", "xcow"}
    /\ Swaps \subseteq {"none", "passthrough", "replicate", "encrypt", "encrypt_ip", "xcow"}

VARIABLES
    prog,     \* the loaded program
    op,       \* the guest's command under an identifier ("none": free)
    vsq,      \* identifiers in the submission queue
    ios,      \* ctx_data[cid].iostate
    hq,       \* copies of a command at the host queue
    up,       \* the notifier is open
    nsq,      \* commands in the NSQ or held by the userspace function
    ncq,      \* responses in the NCQ, in order
    cqe,      \* statuses written to the guest's completion queue
    issued,   \* times an identifier was used
    extra,    \* history: error answers that were not the last to a command
    fault,    \* history: who has failed the command, "target" or "program"
    ondev     \* history: the host device has completed the command

kernel == <<ios, hq, nsq, ncq, cqe, fault, ondev>>
vars   == <<prog, op, vsq, up, issued, extra, kernel>>

-----------------------------------------------------------------------------
(* The iostate word: status, hook bits, send bits, completion type.         *)

IoState(status, hooks, sends, cmpl) ==
    [status |-> status, hooks |-> hooks, sends |-> sends, cmpl |-> cmpl]

Complete(status) == IoState(status, {}, {}, "COMPLETE")
Zero             == Complete("ok")

\* nvme_mdev_bpfsm_set: what the program returned; the status bits are the
\* program's only if the word held no pending completion.
bpfsm_set(cur, ret) ==
    IF cur.cmpl # "COMPLETE"
    THEN IoState(cur.status, ret.hooks, ret.sends, ret.cmpl)
    ELSE ret

\* Mutations: the send bit stays; the first completion completes the word;
\* the status is dropped.
bpfsm_update_stale(cur, status, tgt) ==
    IF cur.cmpl = "COMPLETE" THEN cur
    ELSE IoState(IF cur.cmpl = tgt THEN status ELSE cur.status, cur.hooks, cur.sends, cur.cmpl)
bpfsm_update_first(cur, status, tgt) ==
    IF cur.cmpl = "COMPLETE" \/ tgt \notin cur.sends THEN cur
    ELSE IoState(IF cur.cmpl = tgt THEN status ELSE cur.status, cur.hooks,
                 cur.sends \ {tgt}, "COMPLETE")
bpfsm_update_nostatus(cur, status, tgt) ==
    LET sends == cur.sends \ {tgt}
    IN  IF cur.cmpl = "COMPLETE" \/ tgt \notin cur.sends THEN cur
        ELSE IoState(cur.status, cur.hooks, sends, IF sends = {} THEN "COMPLETE" ELSE cur.cmpl)

\* nvme_mdev_bpfsm_update: a send to target tgt ended with a status.
bpfsm_update(cur, status, tgt) ==
    LET sends == cur.sends \ {tgt}
        st    == IF cur.cmpl = tgt THEN status ELSE cur.status
    IN  IF cur.cmpl = "COMPLETE" \/ tgt \notin cur.sends
        THEN cur
        ELSE IoState(st, cur.hooks, sends, IF sends = {} THEN "COMPLETE" ELSE cur.cmpl)

\* nvme_mdev_bpfsm_runhook runs the program at a hook of a pending command
\* when the command registered for it and no other send is pending.
\* Without a program no hook runs.
HookRuns(cur, hook, tgt) ==
    /\ cur.cmpl # "COMPLETE"
    /\ hook \in cur.hooks
    /\ cur.sends \ {tgt} = {}
    /\ prog # "none"

-----------------------------------------------------------------------------
(* The programs of samples/bpf: what they may return at a hook, given the   *)
(* status passed in ctx->data and whether the response's aux words say      *)
(* VALID and FORWARD.                                                       *)

ToHq      == IoState("ok", {}, {"HQ"}, "HQ")
ToFd      == IoState("ok", {}, {"FD"}, "FD")
HqThenHook == IoState("ok", {"HCQ"}, {"HQ"}, "WAIT")
FdThenHook == IoState("ok", {"NFD_WRITE"}, {"FD"}, "WAIT")

passthrough(o, hook, data, fwd) == {ToHq}

replicate(o, hook, data, fwd) ==
    IF o \in {"write", "zeroes"} THEN {IoState("ok", {}, {"HQ", "FD"}, "HQ")} ELSE {ToHq}

OnResponse(data, next) == IF data = "ok" THEN next ELSE Complete(data)

encrypt(o, hook, data, fwd) ==
    CASE hook = "VSQ" /\ o = "read"               -> {HqThenHook}
      [] hook = "VSQ" /\ o \in {"write", "zeroes"} -> {ToFd}
      [] hook = "HCQ"                             -> {OnResponse(data, ToFd)}
      [] OTHER                                    -> {ToHq}

encrypt_ip(o, hook, data, fwd) ==
    CASE hook = "VSQ" /\ o = "read"   -> {HqThenHook}
      [] hook = "VSQ" /\ o = "write"  -> {FdThenHook}
      [] hook = "VSQ" /\ o = "zeroes" -> {ToFd}
      [] hook = "HCQ"                 -> {OnResponse(data, ToFd)}
      [] hook = "NFD_WRITE"           -> {OnResponse(data, ToHq)}
      [] OTHER                        -> {ToHq}

\* A cached translation goes to the host queue, a miss to the server.
xcow(o, hook, data, fwd) ==
    CASE hook = "VSQ" /\ o # "flush" -> {ToHq, FdThenHook}
      [] hook = "NFD_WRITE"          -> {IF fwd THEN ToHq ELSE Complete(data)}
      [] OTHER                       -> {ToHq}

Run(o, hook, data, fwd) ==
    CASE prog = "none"        -> {ToHq}
      [] prog = "passthrough" -> passthrough(o, hook, data, fwd)
      [] prog = "replicate"   -> replicate(o, hook, data, fwd)
      [] prog = "encrypt"     -> encrypt(o, hook, data, fwd)
      [] prog = "encrypt_ip"  -> encrypt_ip(o, hook, data, fwd)
      [] prog = "xcow"        -> xcow(o, hook, data, fwd)

-----------------------------------------------------------------------------
Init ==
    /\ prog \in Programs
    /\ op = [c \in Cid |-> "none"]
    /\ vsq = <<>>
    /\ ios = [c \in Cid |-> Zero]
    /\ hq = [c \in Cid |-> 0]
    /\ up = TRUE
    /\ nsq = <<>>
    /\ ncq = <<>>
    /\ cqe = [c \in Cid |-> <<>>]
    /\ issued = [c \in Cid |-> 0]
    /\ extra = [c \in Cid |-> 0]
    /\ fault = [c \in Cid |-> {}]
    /\ ondev = [c \in Cid |-> FALSE]

\* Mutation: a word that waits for a hook is taken for a complete one.
Act_nowait(st0, react, fdOk, hqOk) ==
    LET fd   == react /\ "FD" \in st0.sends
        st1  == IF fd /\ ~fdOk THEN bpfsm_update(st0, "refused", "FD") ELSE st0
        goHq == react /\ (fd => fdOk) /\ "HQ" \in st1.sends
    IN  [st |-> st1, fd |-> fd /\ fdOk, hq |-> goHq,
         done |-> IF st1.cmpl \in {"COMPLETE", "WAIT"} THEN <<st1.status>> ELSE <<>>]

\* nvme_mdev_io_act on the word st0, with react: new sends may be due.
\* fdOk and hqOk say whether the NSQ and the host queue accept them.
\* nvme_mdev_io_passthrough completes a command it rejects, and io_act then
\* acts on the updated word.  In a COMPLETE word HookRuns is FALSE, so the
\* PRE_VCQ hook is never run here.
Act(st0, react, fdOk, hqOk) ==
    LET fd    == react /\ "FD" \in st0.sends
        st1   == IF fd /\ ~fdOk THEN bpfsm_update(st0, "refused", "FD") ELSE st0
        goHq  == react /\ (fd => fdOk) /\ "HQ" \in st1.sends
        st2   == IF goHq /\ ~hqOk THEN bpfsm_update(st1, "rejected", "HQ") ELSE st1
        done1 == IF goHq /\ ~hqOk THEN <<"rejected">> ELSE <<>>
        done2 == IF st2.cmpl = "COMPLETE" /\ ~HookRuns(st2, "PRE_VCQ", "none")
                 THEN <<st2.status>> ELSE <<>>
    IN  [st |-> st2, fd |-> fd /\ fdOk, hq |-> goHq /\ hqOk, done |-> done1 \o done2]

\* The effect of one io_act for c, on rings with the response taken out.
Apply(c, a, ncqRest, hqRest) ==
    /\ ios' = [ios EXCEPT ![c] = a.st]
    /\ cqe' = [cqe EXCEPT ![c] = cqe[c] \o a.done]
    /\ nsq' = IF a.fd THEN Append(nsq, c) ELSE nsq
    /\ hq'  = IF a.hq THEN [hqRest EXCEPT ![c] = hqRest[c] + 1] ELSE hqRest
    /\ ncq' = ncqRest

FdAccepts == {up} \union (IF prog \in Slow THEN {FALSE} ELSE {})
HqAccepts == {TRUE} \union (IF MayReject THEN {FALSE} ELSE {})

\* The guest puts a command into the submission queue; it may use an
\* identifier again after its completion.
Issue(c, o) ==
    /\ op[c] = "none"
    /\ issued[c] < MaxIssue
    /\ op' = [op EXCEPT ![c] = o]
    /\ issued' = [issued EXCEPT ![c] = issued[c] + 1]
    /\ cqe' = [cqe EXCEPT ![c] = <<>>]
    /\ fault' = [fault EXCEPT ![c] = {}]
    /\ ondev' = [ondev EXCEPT ![c] = FALSE]
    /\ vsq' = Append(vsq, c)
    /\ UNCHANGED <<prog, ios, hq, up, nsq, ncq, extra>>

\* The guest takes the completion.
Reap(c) ==
    /\ op[c] # "none"
    /\ cqe[c] # <<>>
    /\ op' = [op EXCEPT ![c] = "none"]
    /\ UNCHANGED <<prog, vsq, up, issued, extra, kernel>>

\* Mutation: the submission queue's head does not advance.
process_sq_again ==
    /\ vsq # <<>>
    /\ LET c == Head(vsq) IN
       \E ret \in Run(op[c], "VSQ", "ok", FALSE), fdOk \in FdAccepts, hqOk \in HqAccepts :
          Apply(c, Act(bpfsm_set(Zero, ret), TRUE, fdOk, hqOk), ncq, hq)
    /\ UNCHANGED <<prog, op, vsq, up, issued, extra, fault, ondev>>

\* nvme_mdev_io_process_sq: the word is cleared, the VSQ hook always runs.
process_sq ==
    /\ vsq # <<>>
    /\ LET c == Head(vsq) IN
       \E ret \in Run(op[c], "VSQ", "ok", FALSE), fdOk \in FdAccepts, hqOk \in HqAccepts :
          Apply(c, Act(bpfsm_set(Zero, ret), TRUE, fdOk, hqOk), ncq, hq)
    /\ vsq' = Tail(vsq)
    /\ UNCHANGED <<prog, op, up, issued, extra, fault, ondev>>

Blame(c, who, failed) == fault' = [fault EXCEPT ![c] = IF failed THEN fault[c] \union {who} ELSE fault[c]]

\* A completion from target tgt with a status: the hook if it runs, else an
\* update.  A word that is not pending stays as it is, and io_act takes it
\* for a command to complete.
Completion(c, tgt, hook, status, fwd, ncqRest, hqRest) ==
    /\ \/ /\ HookRuns(ios[c], hook, tgt)
          /\ \E ret \in Run(op[c], hook, status, fwd), fdOk \in FdAccepts, hqOk \in HqAccepts :
                /\ Apply(c, Act(bpfsm_set(ios[c], ret), TRUE, fdOk, hqOk), ncqRest, hqRest)
                /\ Blame(c, "program", ret.cmpl = "COMPLETE" /\ ret.status # "ok")
       \/ /\ ~HookRuns(ios[c], hook, tgt)
          /\ Apply(c, Act(bpfsm_update(ios[c], status, tgt), FALSE, TRUE, TRUE), ncqRest, hqRest)
          /\ Blame(c, "target", ios[c].cmpl = tgt /\ status # "ok")
    /\ ondev' = [ondev EXCEPT ![c] = ondev[c] \/ (tgt = "HQ" /\ status = "ok")]

\* Mutation: completions are taken whether or not there is one.
process_hwq_unchecked(c, status) ==
    /\ Completion(c, "HQ", "HCQ", status, FALSE, ncq, [hq EXCEPT ![c] = hq[c] - 1])
    /\ UNCHANGED <<prog, op, vsq, up, issued, extra>>

\* nvme_mdev_io_process_hwq: the host device has completed a command.
process_hwq(c, status) ==
    /\ hq[c] > 0
    /\ Completion(c, "HQ", "HCQ", status, FALSE, ncq, [hq EXCEPT ![c] = hq[c] - 1])
    /\ UNCHANGED <<prog, op, vsq, up, issued, extra>>

\* The userspace function gives its last answer to a command it was sent, in
\* any order.
Respond(n, status, fwd) ==
    /\ up
    /\ ncq' = Append(ncq, [c |-> nsq[n], status |-> status, fwd |-> fwd])
    /\ nsq' = SubSeq(nsq, 1, n - 1) \o SubSeq(nsq, n + 1, Len(nsq))
    /\ UNCHANGED <<prog, op, vsq, ios, hq, up, cqe, issued, extra, fault, ondev>>

\* The XCOW server answers a write of several clusters with an error for each
\* piece that fails, or whose allocation throws, while the write's ticket and
\* the last answer are still to come.
RespondPiece(n) ==
    /\ up
    /\ "fderr" \in Faults
    /\ prog = "xcow" /\ op[nsq[n]] = "write"
    /\ extra[nsq[n]] < MaxRepeat
    /\ ncq' = Append(ncq, [c |-> nsq[n], status |-> "fderr", fwd |-> FALSE])
    /\ extra' = [extra EXCEPT ![nsq[n]] = extra[nsq[n]] + 1]
    /\ UNCHANGED <<prog, op, vsq, ios, hq, up, nsq, cqe, issued, fault, ondev>>

\* nvme_mdev_notifyfd_process_ncq: one response of its loop.
process_ncq ==
    /\ up
    /\ ncq # <<>>
    /\ LET r == Head(ncq)
       IN  Completion(r.c, "FD", "NFD_WRITE", r.status, r.fwd, Tail(ncq), hq)
    /\ UNCHANGED <<prog, op, vsq, up, issued, extra>>

\* notifyfd_release: the rings go with the notifier.
release ==
    /\ MayExit
    /\ up
    /\ up' = FALSE
    /\ nsq' = <<>>
    /\ ncq' = <<>>
    /\ UNCHANGED <<prog, op, vsq, ios, hq, cqe, issued, extra, fault, ondev>>

\* nvme_mdev_notifyfd_open: a new notifier, its rings empty.
open ==
    /\ ~up
    /\ up' = TRUE
    /\ UNCHANGED <<prog, op, vsq, issued, extra, kernel>>

\* nvme_mdev_vctrl_attach_prog, also with NULL: detach.
attach_prog(p) ==
    /\ p # prog
    /\ prog' = p
    /\ UNCHANGED <<op, vsq, up, issued, extra, kernel>>

-----------------------------------------------------------------------------
FdStatus == {"ok"} \union (Faults \intersect {"fderr"})
HqStatus == {"ok"} \union (Faults \intersect {"hqerr"})

Uif       == \E n \in 1 .. Len(nsq), status \in FdStatus, fwd \in BOOLEAN :
                Respond(n, status, fwd /\ prog = "xcow")
Device(c) == \E status \in HqStatus : process_hwq(c, status)

Opcodes == {"read", "write", "zeroes", "flush"}

Next ==
    \/ \E c \in Cid, o \in Opcodes : Issue(c, o)
    \/ \E c \in Cid : Reap(c)
    \/ process_sq
    \/ \E c \in Cid : Device(c)
    \/ Uif
    \/ \E n \in 1 .. Len(nsq) : RespondPiece(n)
    \/ process_ncq
    \/ release
    \/ open
    \/ \E p \in Swaps : attach_prog(p)

Spec == Init /\ [][Next]_vars

\* The iothread polls all its queues in turn, the device completes what it
\* was given, and the userspace function answers what it was sent.
FairSpec ==
    /\ Spec
    /\ WF_vars(process_sq)
    /\ WF_vars(process_ncq)
    /\ \A c \in Cid : WF_vars(Device(c))
    /\ WF_vars(Uif)

-----------------------------------------------------------------------------
(* Properties.                                                              *)

Status  == {"ok", "hqerr", "fderr", "refused", "rejected"}
IoWord  == [status : Status, hooks : SUBSET {"HCQ", "NFD_WRITE", "PRE_VCQ"},
            sends : SUBSET {"HQ", "FD"}, cmpl : {"COMPLETE", "HQ", "FD", "WAIT"}]

\* Types of the words, queues and histories.
TypeOK ==
    /\ prog \in Programs \union Swaps /\ up \in BOOLEAN
    /\ op \in [Cid -> Opcodes \union {"none"}]
    /\ vsq \in Seq(Cid) /\ nsq \in Seq(Cid)
    /\ ios \in [Cid -> IoWord]
    /\ hq \in [Cid -> Nat] /\ issued \in [Cid -> Nat] /\ extra \in [Cid -> Nat]
    /\ ncq \in Seq([c : Cid, status : Status, fwd : BOOLEAN])
    /\ cqe \in [Cid -> Seq(Status)]
    /\ fault \in [Cid -> SUBSET {"target", "program"}] /\ ondev \in [Cid -> BOOLEAN]

AtFd(c) == \/ \E n \in 1 .. Len(nsq) : nsq[n] = c
           \/ \E n \in 1 .. Len(ncq) : ncq[n].c = c

InVsq(c) == \E n \in 1 .. Len(vsq) : vsq[n] = c

\* The guest sees one completion per command it issued, and no more besides
\* than the userspace function gave answers that were not its last.
CompletedOnce == \A c \in Cid : Len(cqe[c]) <= 1 + extra[c]

\* A command the userspace function answers once is completed to the guest
\* only after it and the host device are through with it: neither touches
\* its buffers, and no late response is taken for the next command with that
\* identifier, whatever becomes of other identifiers.
NoIoAfterCompletion ==
    \A c \in Cid : extra[c] = 0 /\ (cqe[c] # <<>> \/ op[c] = "none") => hq[c] = 0 /\ ~AtFd(c)

\* The send bits of the word are exactly the sends under way.
SendBitsMatch ==
    \A c \in Cid : ~InVsq(c) /\ op[c] # "none" =>
       /\ ("HQ" \in ios[c].sends) <=> (hq[c] = 1)
       /\ ("FD" \in ios[c].sends) <=> AtFd(c)

\* Every command the guest issues is completed.
EventuallyCompleted == \A c \in Cid : (op[c] # "none") ~> (cqe[c] # <<>>)

Acked(c) == \E n \in 1 .. Len(cqe[c]) : cqe[c][n] = "ok"

\* A failure of the target a command's word waits for (not of the other
\* side of a mirrored write) is never reported to the guest as a success,
\* whichever hooks and sends came before and whichever completion is last.
TargetStatusReported == \A c \in Cid : "target" \in fault[c] => ~Acked(c)

\* A failure a program returns with COMPLETE is not reported as a success.
ProgramStatusReported == \A c \in Cid : "program" \in fault[c] => ~Acked(c)

\* A write the guest is told has succeeded is on the host device, for the
\* programs that leave the writing to the host queue alone.
AckedWriteOnDevice ==
    \A c \in Cid : prog \in {"passthrough", "replicate"} /\ op[c] = "write" /\ Acked(c) => ondev[c]

=============================================================================
