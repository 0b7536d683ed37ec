--------------------------- MODULE NmRouterProofs ---------------------------
(***************************************************************************)
(* Proofs about the request router, for every set of identifiers, however  *)
(* often each is used, and every choice and change of the programs of      *)
(* samples/bpf: a command is completed once, after both targets are        *)
(* through with it, with the status of the target it waits for.  The       *)
(* userspace function is taken to answer each command once (AnswersOnce),  *)
(* as all do but the XCOW server when a write of several clusters fails.   *)
(***************************************************************************)
EXTENDS NmRouter, TLAPS

(***************************************************************************)
(* Queues of identifiers and of responses.                                 *)
(***************************************************************************)
In(s, c)  == \E n \in 1 .. Len(s) : s[n] = c
InC(s, c) == \E n \in 1 .. Len(s) : s[n].c = c

Once(s)  == \A i, j \in 1 .. Len(s) : s[i] = s[j] => i = j
OnceC(s) == \A i, j \in 1 .. Len(s) : s[i].c = s[j].c => i = j

Response == [c : Cid, status : Status, fwd : BOOLEAN]

\* Appending an identifier.
LEMMA Appended ==
    ASSUME NEW s \in Seq(Cid), NEW x \in Cid
    PROVE  /\ Append(s, x) \in Seq(Cid)
           /\ \A c : In(Append(s, x), c) <=> In(s, c) \/ c = x
           /\ Once(s) /\ ~In(s, x) => Once(Append(s, x))
<1> DEFINE t == Append(s, x)
<1>1. t \in Seq(Cid) /\ Len(t) = Len(s) + 1 /\ Len(s) \in Nat
  OBVIOUS
<1>2. \A i \in 1 .. Len(s) : t[i] = s[i]
  OBVIOUS
<1>3. t[Len(s) + 1] = x
  OBVIOUS
<1> HIDE DEF t
<1>4. \A i \in 1 .. Len(t) : i \in 1 .. Len(s) \/ i = Len(s) + 1
  BY <1>1
<1>5. \A i \in 1 .. Len(s) : i \in 1 .. Len(t)
  BY <1>1
<1>6. Len(s) + 1 \in 1 .. Len(t)
  BY <1>1
<1>7. \A c : In(t, c) <=> In(s, c) \/ c = x
  BY <1>2, <1>3, <1>4, <1>5, <1>6 DEF In
<1>8. ASSUME Once(s), ~In(s, x) PROVE Once(t)
  BY <1>2, <1>3, <1>4, <1>8 DEF Once, In
<1> QED BY <1>1, <1>7, <1>8 DEF t

\* Taking the first identifier.
LEMMA Headed ==
    ASSUME NEW s \in Seq(Cid), s # <<>>
    PROVE  /\ Head(s) \in Cid /\ In(s, Head(s)) /\ Tail(s) \in Seq(Cid)
           /\ \A c : In(Tail(s), c) => In(s, c)
           /\ \A c : In(s, c) /\ c # Head(s) => In(Tail(s), c)
           /\ Once(s) => Once(Tail(s)) /\ ~In(Tail(s), Head(s))
<1> DEFINE t == Tail(s)
<1>1. /\ t \in Seq(Cid) /\ Len(t) = Len(s) - 1 /\ Len(s) \in Nat /\ Len(s) >= 1
      /\ Head(s) = s[1] /\ Head(s) \in Cid
  OBVIOUS
<1>2. \A i \in 1 .. Len(t) : t[i] = s[i + 1]
  OBVIOUS
<1> HIDE DEF t
<1>3. \A i \in 1 .. Len(t) : i + 1 \in 1 .. Len(s) /\ i + 1 # 1
  BY <1>1
<1>4. \A i \in 1 .. Len(s) : i = 1 \/ (i - 1 \in 1 .. Len(t) /\ (i - 1) + 1 = i)
  BY <1>1
<1>5. 1 \in 1 .. Len(s)
  BY <1>1
<1>6. \A c : In(t, c) => In(s, c)
  BY <1>2, <1>3 DEF In
<1>7. ASSUME NEW c, In(s, c), c # Head(s) PROVE In(t, c)
  <2>1. PICK i \in 1 .. Len(s) : s[i] = c
    BY <1>7 DEF In
  <2>2. i - 1 \in 1 .. Len(t) /\ (i - 1) + 1 = i
    BY <1>1, <1>4, <1>7, <2>1
  <2>3. t[i - 1] = c
    BY <1>2, <2>1, <2>2
  <2> QED BY <2>2, <2>3 DEF In
<1>8. In(s, Head(s))
  BY <1>1, <1>5 DEF In
<1>9. ASSUME Once(s) PROVE Once(t) /\ ~In(t, Head(s))
  <2>1. \A i, j \in 1 .. Len(t) : i + 1 = j + 1 => i = j
    BY <1>1
  <2>2. Once(t)
    BY <1>2, <1>3, <1>9, <2>1 DEF Once
  <2>3. ~In(t, Head(s))
    BY <1>1, <1>2, <1>3, <1>5, <1>9 DEF Once, In
  <2> QED BY <2>2, <2>3
<1> QED BY <1>1, <1>6, <1>7, <1>8, <1>9 DEF t

\* Appending a response.
LEMMA AppendedC ==
    ASSUME NEW s \in Seq(Response), NEW x \in Response
    PROVE  /\ Append(s, x) \in Seq(Response)
           /\ \A c : InC(Append(s, x), c) <=> InC(s, c) \/ c = x.c
           /\ OnceC(s) /\ ~InC(s, x.c) => OnceC(Append(s, x))
<1> DEFINE t == Append(s, x)
<1>1. t \in Seq(Response) /\ Len(t) = Len(s) + 1 /\ Len(s) \in Nat
  OBVIOUS
<1>2. \A i \in 1 .. Len(s) : t[i] = s[i]
  OBVIOUS
<1>3. t[Len(s) + 1] = x
  OBVIOUS
<1> HIDE DEF t
<1>4. \A i \in 1 .. Len(t) : i \in 1 .. Len(s) \/ i = Len(s) + 1
  BY <1>1
<1>5. \A i \in 1 .. Len(s) : i \in 1 .. Len(t)
  BY <1>1
<1>6. Len(s) + 1 \in 1 .. Len(t)
  BY <1>1
<1>7. \A c : InC(t, c) <=> InC(s, c) \/ c = x.c
  BY <1>2, <1>3, <1>4, <1>5, <1>6 DEF InC
<1>8. ASSUME OnceC(s), ~InC(s, x.c) PROVE OnceC(t)
  BY <1>2, <1>3, <1>4, <1>8 DEF OnceC, InC
<1> QED BY <1>1, <1>7, <1>8 DEF t

\* Taking the first response.
LEMMA HeadedC ==
    ASSUME NEW s \in Seq(Response), s # <<>>
    PROVE  /\ Head(s) \in Response /\ InC(s, Head(s).c) /\ Tail(s) \in Seq(Response)
           /\ \A c : InC(Tail(s), c) => InC(s, c)
           /\ \A c : InC(s, c) /\ c # Head(s).c => InC(Tail(s), c)
           /\ OnceC(s) => OnceC(Tail(s)) /\ ~InC(Tail(s), Head(s).c)
<1> DEFINE t == Tail(s)
<1>1. /\ t \in Seq(Response) /\ Len(t) = Len(s) - 1 /\ Len(s) \in Nat /\ Len(s) >= 1
      /\ Head(s) = s[1] /\ Head(s) \in Response
  OBVIOUS
<1>2. \A i \in 1 .. Len(t) : t[i] = s[i + 1]
  OBVIOUS
<1> HIDE DEF t
<1>3. \A i \in 1 .. Len(t) : i + 1 \in 1 .. Len(s) /\ i + 1 # 1
  BY <1>1
<1>4. \A i \in 1 .. Len(s) : i = 1 \/ (i - 1 \in 1 .. Len(t) /\ (i - 1) + 1 = i)
  BY <1>1
<1>5. 1 \in 1 .. Len(s)
  BY <1>1
<1>6. \A c : InC(t, c) => InC(s, c)
  BY <1>2, <1>3 DEF InC
<1>7. \A c : InC(s, c) /\ c # Head(s).c => InC(t, c)
  BY <1>1, <1>2, <1>4 DEF InC
<1>8. InC(s, Head(s).c)
  BY <1>1, <1>5 DEF InC
<1>9. ASSUME OnceC(s) PROVE OnceC(t) /\ ~InC(t, Head(s).c)
  <2>1. \A i, j \in 1 .. Len(t) : i + 1 = j + 1 => i = j
    BY <1>1
  <2>2. OnceC(t)
    BY <1>2, <1>3, <1>9, <2>1 DEF OnceC
  <2>3. ~InC(t, Head(s).c)
    BY <1>1, <1>2, <1>3, <1>5, <1>9 DEF OnceC, InC
  <2> QED BY <2>2, <2>3
<1> QED BY <1>1, <1>6, <1>7, <1>8, <1>9 DEF t

\* Taking an identifier out of the middle.
LEMMA Removed ==
    ASSUME NEW s \in Seq(Cid), NEW n \in 1 .. Len(s)
    PROVE  LET t == SubSeq(s, 1, n - 1) \o SubSeq(s, n + 1, Len(s)) IN
           /\ t \in Seq(Cid)
           /\ \A c : In(t, c) => In(s, c)
           /\ \A c : In(s, c) /\ c # s[n] => In(t, c)
           /\ Once(s) => Once(t) /\ ~In(t, s[n])
<1> DEFINE a == SubSeq(s, 1, n - 1)
           b == SubSeq(s, n + 1, Len(s))
           t == a \o b
<1>1. n \in Nat /\ n >= 1 /\ n <= Len(s) /\ Len(s) \in Nat
  OBVIOUS
<1>2. a \in Seq(Cid) /\ Len(a) = n - 1 /\ \A i \in 1 .. n - 1 : a[i] = s[i]
  <2>1. \A i \in 1 .. n - 1 : s[i] \in Cid
    BY <1>1
  <2> QED BY <1>1, <2>1
<1>3. b \in Seq(Cid) /\ Len(b) = Len(s) - n /\ \A i \in 1 .. Len(s) - n : b[i] = s[n + i]
  <2>1. \A i \in n + 1 .. Len(s) : s[i] \in Cid
    BY <1>1
  <2> QED BY <1>1, <2>1
<1> HIDE DEF a, b
<1>4. t \in Seq(Cid) /\ Len(t) = Len(s) - 1
  <2>1. \A p, q \in Seq(Cid) : p \o q \in Seq(Cid) /\ Len(p \o q) = Len(p) + Len(q)
    OBVIOUS
  <2>2. a \in Seq(Cid) /\ b \in Seq(Cid)
    BY <1>2, <1>3
  <2>3. t \in Seq(Cid) /\ Len(t) = Len(a) + Len(b)
    BY <2>1, <2>2
  <2> QED BY <1>1, <1>2, <1>3, <2>3
<1>5. \A i \in 1 .. Len(t) : t[i] = IF i < n THEN s[i] ELSE s[i + 1]
  <2> SUFFICES ASSUME NEW i \in 1 .. Len(t) PROVE t[i] = IF i < n THEN s[i] ELSE s[i + 1]
    OBVIOUS
  <2>1. i \in 1 .. Len(a) + Len(b)
    BY <1>1, <1>2, <1>3, <1>4
  <2>2. t[i] = IF i <= Len(a) THEN a[i] ELSE b[i - Len(a)]
    BY <1>2, <1>3, <2>1
  <2>3. CASE i < n
    BY <1>1, <1>2, <2>1, <2>2, <2>3
  <2>4. CASE ~(i < n)
    <3>1. i - Len(a) \in 1 .. Len(s) - n /\ n + (i - Len(a)) = i + 1 /\ ~(i <= Len(a))
      BY <1>1, <1>2, <1>3, <2>1, <2>4
    <3> QED BY <1>3, <2>2, <2>4, <3>1
  <2> QED BY <2>3, <2>4
<1> HIDE DEF t
<1> DEFINE at(i) == IF i < n THEN i ELSE i + 1
<1>6. /\ \A i \in 1 .. Len(t) : at(i) \in 1 .. Len(s) /\ at(i) # n /\ t[i] = s[at(i)]
      /\ \A i, j \in 1 .. Len(t) : at(i) = at(j) => i = j
  BY <1>1, <1>4, <1>5
<1>7. \A i \in 1 .. Len(s) : i # n => \E j \in 1 .. Len(t) : at(j) = i
  <2> SUFFICES ASSUME NEW i \in 1 .. Len(s), i # n PROVE \E j \in 1 .. Len(t) : at(j) = i
    OBVIOUS
  <2>1. CASE i < n
    <3>1. i \in 1 .. Len(t) /\ at(i) = i
      BY <1>1, <1>4, <2>1
    <3> QED BY <3>1
  <2>2. CASE i > n
    <3>1. i - 1 \in 1 .. Len(t) /\ at(i - 1) = i
      BY <1>1, <1>4, <2>2
    <3> QED BY <3>1
  <2> QED BY <1>1, <2>1, <2>2
<1> HIDE DEF at
<1>8. \A c : In(t, c) => In(s, c)
  BY <1>6 DEF In
<1>9. \A c : In(s, c) /\ c # s[n] => In(t, c)
  BY <1>6, <1>7 DEF In
<1>10. ASSUME Once(s) PROVE Once(t) /\ ~In(t, s[n])
  BY <1>6, <1>10 DEF Once, In
<1> QED BY <1>4, <1>8, <1>9, <1>10 DEF t, a, b

(***************************************************************************)
(* The words the programs return and io_act makes of them.                 *)
(***************************************************************************)
Mirrored == IoState("ok", {}, {"HQ", "FD"}, "HQ")
ProgWord == {ToHq, ToFd, HqThenHook, FdThenHook, Mirrored} \union {Complete(st) : st \in Status}

\* A word is complete when nothing is sent, and waits for a hook or for the
\* status of a target, not for both.
Sound(w) ==
    /\ w \in IoWord
    /\ w.cmpl = "COMPLETE" <=> w.sends = {}
    /\ w.cmpl \in {"HQ", "FD"} => w.hooks = {}

ProgName == {"none", "passthrough", "replicate", "encrypt", "encrypt_ip", "xcow"}
Direct   == {"passthrough", "replicate"}

\* What the programs return, at whichever hook and with whatever status.
LEMMA RunWords ==
    ASSUME prog \in ProgName, NEW o, NEW hook, NEW data \in Status, NEW fwd
    PROVE  /\ Run(o, hook, data, fwd) \subseteq ProgWord
           /\ prog # "replicate" => Mirrored \notin Run(o, hook, data, fwd)
           /\ prog \in Direct => Run(o, hook, data, fwd) \subseteq {ToHq, Mirrored}
<1>1. \A st \in Status : Complete(st) # Mirrored
  BY DEF Complete, Mirrored, IoState
<1>2. ToHq # Mirrored /\ ToFd # Mirrored /\ HqThenHook # Mirrored /\ FdThenHook # Mirrored
  BY DEF ToHq, ToFd, HqThenHook, FdThenHook, Mirrored, IoState
<1>3. \A st \in Status : Complete(st) \in ProgWord
  BY DEF ProgWord
<1>4. {ToHq, ToFd, HqThenHook, FdThenHook, Mirrored} \subseteq ProgWord
  BY DEF ProgWord
<1>5. CASE prog \in {"none", "passthrough"}
  BY <1>2, <1>4, <1>5 DEF Run, passthrough, Direct
<1>6. CASE prog = "replicate"
  BY <1>4, <1>6 DEF Run, replicate, Direct, Mirrored
<1>7. CASE prog = "encrypt"
  BY <1>1, <1>2, <1>3, <1>4, <1>7 DEF Run, encrypt, Direct, OnResponse
<1>8. CASE prog = "encrypt_ip"
  BY <1>1, <1>2, <1>3, <1>4, <1>8 DEF Run, encrypt_ip, Direct, OnResponse
<1>9. CASE prog = "xcow"
  BY <1>1, <1>2, <1>3, <1>4, <1>9 DEF Run, xcow, Direct
<1> QED BY <1>5, <1>6, <1>7, <1>8, <1>9 DEF ProgName

\* What a program returned, as the word keeps it.
LEMMA SetWord ==
    ASSUME NEW cur \in IoWord, NEW ret \in ProgWord
    PROVE  LET w == bpfsm_set(cur, ret) IN
           /\ Sound(w)
           /\ w.hooks = ret.hooks /\ w.sends = ret.sends /\ w.cmpl = ret.cmpl
           /\ w.status = IF cur.cmpl = "COMPLETE" THEN ret.status ELSE cur.status
<1>1. Sound(ret)
  <2>1. CASE ret \in {ToHq, ToFd, HqThenHook, FdThenHook, Mirrored}
    BY <2>1 DEF ToHq, ToFd, HqThenHook, FdThenHook, Mirrored, IoState, Sound, IoWord, Status
  <2>2. CASE \E st \in Status : ret = Complete(st)
    BY <2>2 DEF Complete, IoState, Sound, IoWord
  <2> QED BY <2>1, <2>2 DEF ProgWord
<1>2. CASE cur.cmpl = "COMPLETE"
  BY <1>1, <1>2 DEF bpfsm_set
<1>3. CASE cur.cmpl # "COMPLETE"
  <2>1. bpfsm_set(cur, ret) = IoState(cur.status, ret.hooks, ret.sends, ret.cmpl)
    BY <1>3 DEF bpfsm_set
  <2> QED BY <1>1, <1>3, <2>1 DEF IoState, Sound, IoWord
<1> QED BY <1>2, <1>3

\* The end of a send: its bit goes, and the status is kept if it is the one
\* that is waited for.
LEMMA UpdateWord ==
    ASSUME NEW cur, Sound(cur), NEW st \in Status, NEW tgt \in {"HQ", "FD"}, tgt \in cur.sends
    PROVE  LET w == bpfsm_update(cur, st, tgt) IN
           /\ Sound(w)
           /\ w.sends = cur.sends \ {tgt} /\ w.hooks = cur.hooks
           /\ w.cmpl = IF w.sends = {} THEN "COMPLETE" ELSE cur.cmpl
           /\ w.status = IF cur.cmpl = tgt THEN st ELSE cur.status
<1>1. cur.cmpl # "COMPLETE" /\ cur \in IoWord
  BY DEF Sound
<1>2. bpfsm_update(cur, st, tgt) =
        IoState(IF cur.cmpl = tgt THEN st ELSE cur.status, cur.hooks, cur.sends \ {tgt},
                IF cur.sends \ {tgt} = {} THEN "COMPLETE" ELSE cur.cmpl)
  BY <1>1 DEF bpfsm_update
<1>3. cur.sends \ {tgt} \in SUBSET {"HQ", "FD"} /\ cur.hooks \in SUBSET {"HCQ", "NFD_WRITE", "PRE_VCQ"}
  BY <1>1 DEF IoWord
<1>4. cur.status \in Status /\ cur.cmpl \in {"COMPLETE", "HQ", "FD", "WAIT"}
  BY <1>1 DEF IoWord
<1>5. bpfsm_update(cur, st, tgt) \in IoWord
  BY <1>2, <1>3, <1>4 DEF IoState, IoWord
<1> QED BY <1>1, <1>2, <1>5 DEF IoState, Sound

\* io_act makes a word and statuses, whatever is accepted.
LEMMA ActType ==
    ASSUME NEW w \in IoWord, NEW react \in BOOLEAN, NEW fdOk \in BOOLEAN, NEW hqOk \in BOOLEAN
    PROVE  LET a == Act(w, react, fdOk, hqOk) IN
           /\ a.st \in IoWord /\ a.done \in Seq(Status)
           /\ a.fd \in BOOLEAN /\ a.hq \in BOOLEAN
<1>1. ASSUME NEW u \in IoWord, NEW st \in Status, NEW tgt \in {"HQ", "FD"}
      PROVE  bpfsm_update(u, st, tgt) \in IoWord
  <2>1. u.sends \ {tgt} \in SUBSET {"HQ", "FD"} /\ u.hooks \in SUBSET {"HCQ", "NFD_WRITE", "PRE_VCQ"}
    BY DEF IoWord
  <2>2. u.status \in Status /\ u.cmpl \in {"COMPLETE", "HQ", "FD", "WAIT"}
    BY DEF IoWord
  <2> QED BY <2>1, <2>2 DEF bpfsm_update, IoState, IoWord
<1> DEFINE fd    == react /\ "FD" \in w.sends
           st1   == IF fd /\ ~fdOk THEN bpfsm_update(w, "refused", "FD") ELSE w
           goHq  == react /\ (fd => fdOk) /\ "HQ" \in st1.sends
           st2   == IF goHq /\ ~hqOk THEN bpfsm_update(st1, "rejected", "HQ") ELSE st1
           done1 == IF goHq /\ ~hqOk THEN <<"rejected">> ELSE <<>>
           done2 == IF st2.cmpl = "COMPLETE" /\ ~HookRuns(st2, "PRE_VCQ", "none")
                    THEN <<st2.status>> ELSE <<>>
<1>2. "refused" \in Status /\ "rejected" \in Status
  BY DEF Status
<1>3. st1 \in IoWord
  BY <1>1, <1>2
<1>4. st2 \in IoWord
  <2> HIDE DEF st1, goHq
  <2> QED BY <1>1, <1>2, <1>3
<1>5. st2.status \in Status
  BY <1>4 DEF IoWord
<1>6. done1 \in Seq(Status)
  <2> HIDE DEF goHq
  <2> QED BY <1>2
<1>7. done2 \in Seq(Status)
  <2> HIDE DEF st2
  <2> QED BY <1>5
<1>8. Act(w, react, fdOk, hqOk) = [st |-> st2, fd |-> fd /\ fdOk, hq |-> goHq /\ hqOk, done |-> done1 \o done2]
  BY DEF Act
<1>9. fd \in BOOLEAN /\ goHq \in BOOLEAN
  OBVIOUS
<1> HIDE DEF fd, st1, goHq, st2, done1, done2
<1>10. done1 \o done2 \in Seq(Status)
  BY <1>6, <1>7
<1> QED BY <1>4, <1>8, <1>9, <1>10

\* What io_act makes of the word w of a hook.
ActSent(a, w, fdOk) ==
    /\ Sound(a.st) /\ a.st.hooks = w.hooks
    /\ a.st.cmpl = IF a.st.sends = {} THEN "COMPLETE" ELSE w.cmpl
    /\ a.hq => "HQ" \in a.st.sends
    /\ a.fd => "FD" \in a.st.sends
    /\ a.done = IF a.st.sends = {} THEN <<a.st.status>> ELSE <<>>
    /\ "FD" \in a.st.sends => a.fd
    /\ "HQ" \in a.st.sends => a.hq \/ (~fdOk /\ w.sends = {"HQ", "FD"})
    /\ "HQ" \in w.sends => "HQ" \in a.st.sends

\* io_act after a hook: what is sent has its bit, and a word without sends
\* is completed with its status.
LEMMA ActSends ==
    ASSUME NEW w, Sound(w), NEW fdOk \in BOOLEAN
    PROVE  ActSent(Act(w, TRUE, fdOk, TRUE), w, fdOk)
<1> DEFINE a == Act(w, TRUE, fdOk, TRUE)
           fd == "FD" \in w.sends
           st == IF fd /\ ~fdOk THEN bpfsm_update(w, "refused", "FD") ELSE w
<1>1. w.sends \in SUBSET {"HQ", "FD"}
  BY DEF Sound, IoWord
<1>2. "refused" \in Status
  BY DEF Status
<1>3. /\ Sound(st) /\ st.hooks = w.hooks
      /\ st.sends = IF fd /\ ~fdOk THEN w.sends \ {"FD"} ELSE w.sends
      /\ st.cmpl = IF st.sends = {} THEN "COMPLETE" ELSE w.cmpl
  <2>1. CASE fd /\ ~fdOk
    BY <1>2, <2>1, UpdateWord
  <2>2. CASE ~(fd /\ ~fdOk)
    BY <2>2 DEF Sound
  <2> QED BY <2>1, <2>2
<1>4. /\ a.st = st /\ a.fd = (fd /\ fdOk)
      /\ a.hq = ((fd => fdOk) /\ "HQ" \in st.sends)
      /\ a.done = <<>> \o (IF st.cmpl = "COMPLETE" /\ ~HookRuns(st, "PRE_VCQ", "none") THEN <<st.status>> ELSE <<>>)
  BY DEF Act
<1>5. st.cmpl = "COMPLETE" => ~HookRuns(st, "PRE_VCQ", "none")
  BY DEF HookRuns
<1> HIDE DEF a, st
<1>6. st.cmpl = "COMPLETE" <=> st.sends = {}
  BY <1>3 DEF Sound
<1>7. a.done = IF st.sends = {} THEN <<st.status>> ELSE <<>>
  BY <1>4, <1>5, <1>6
<1>8. w.sends = {} \/ w.sends = {"HQ"} \/ w.sends = {"FD"} \/ w.sends = {"HQ", "FD"}
  BY <1>1
<1> HIDE DEF fd
<1>9. fd <=> "FD" \in w.sends
  BY DEF fd
<1>10. a.hq => "HQ" \in st.sends
  BY <1>4
<1>11. st.sends \subseteq w.sends /\ ("FD" \in st.sends => fd /\ fdOk) /\ ("HQ" \in w.sends => "HQ" \in st.sends)
  BY <1>3, <1>9
<1>12. a.fd => "FD" \in st.sends
  BY <1>3, <1>4, <1>9
<1>13. "HQ" \in st.sends => a.hq \/ (~fdOk /\ w.sends = {"HQ", "FD"})
  <2>1. CASE fd => fdOk
    BY <1>4, <2>1
  <2>2. CASE fd /\ ~fdOk
    BY <1>8, <1>9, <1>11, <2>2
  <2> QED BY <2>1, <2>2
<1>14. "FD" \in st.sends => a.fd
  BY <1>4, <1>11
<1> QED BY <1>3, <1>4, <1>7, <1>10, <1>11, <1>12, <1>13, <1>14 DEF a, ActSent

\* io_act after a completion: nothing is sent.
LEMMA ActKeeps ==
    ASSUME NEW w, Sound(w)
    PROVE  Act(w, FALSE, TRUE, TRUE) =
              [st |-> w, fd |-> FALSE, hq |-> FALSE, done |-> IF w.sends = {} THEN <<w.status>> ELSE <<>>]
<1>1. w.cmpl = "COMPLETE" => ~HookRuns(w, "PRE_VCQ", "none")
  BY DEF HookRuns
<1>2. w.cmpl = "COMPLETE" <=> w.sends = {}
  BY DEF Sound
<1>3. Act(w, FALSE, TRUE, TRUE) =
        [st |-> w, fd |-> FALSE, hq |-> FALSE,
         done |-> <<>> \o (IF w.cmpl = "COMPLETE" /\ ~HookRuns(w, "PRE_VCQ", "none") THEN <<w.status>> ELSE <<>>)]
  BY DEF Act
<1>4. <<>> \o <<w.status>> = <<w.status>> /\ <<>> \o <<>> = <<>>
  OBVIOUS
<1> QED BY <1>1, <1>2, <1>3, <1>4

(***************************************************************************)
(* The inductive invariant, per command and for the queues.                *)
(***************************************************************************)
\* A command is in one place: free, in the submission queue, under way at the
\* targets its send bits name, or completed.
Placed(c) ==
    /\ Sound(ios[c])
    /\ hq[c] \in {0, 1} /\ Len(cqe[c]) <= 1
    /\ hq[c] = 1 => "HQ" \in ios[c].sends
    /\ AtFd(c) => "FD" \in ios[c].sends
    /\ op[c] = "none" => ~InVsq(c)
    /\ InVsq(c) => cqe[c] = <<>> /\ fault[c] = {}
    /\ op[c] = "none" \/ InVsq(c) \/ cqe[c] # <<>> => hq[c] = 0 /\ ~AtFd(c)

\* No queue holds a command twice, and no command is both asked and answered.
QueuesOnce ==
    /\ Once(vsq) /\ Once(nsq) /\ OnceC(ncq)
    /\ \A c \in Cid : ~(In(nsq, c) /\ InC(ncq, c))

RouterInv == TypeOK /\ QueuesOnce /\ \A c \in Cid : Placed(c)

\* The status of the target that is waited for stays in the word until it is
\* reported: no later update comes from that target.
StatusKept(c) ==
    "target" \in fault[c] =>
       /\ ~Acked(c)
       /\ cqe[c] = <<>> => /\ ios[c].status # "ok"
                           /\ ios[c].cmpl \in {"HQ", "FD"} /\ ios[c].cmpl \notin ios[c].sends

\* The send bits stand for sends that are under way.
BitsSent(c) ==
    op[c] # "none" /\ ~InVsq(c) =>
       /\ "HQ" \in ios[c].sends => hq[c] = 1
       /\ "FD" \in ios[c].sends => AtFd(c)

\* Under the programs that leave the writing to the host queue, a word waits
\* for the host queue, and loses its bit only to the device's status.
WrittenFirst(c) ==
    prog \in Direct /\ op[c] # "none" /\ ~InVsq(c) =>
       /\ ios[c].hooks = {}
       /\ cqe[c] = <<>> => ios[c].cmpl = "HQ"
       /\ "HQ" \in ios[c].sends \/ ios[c].status # "ok" \/ ondev[c]
       /\ Acked(c) => ondev[c]

(***************************************************************************)
(* Types.                                                                  *)
(***************************************************************************)
\* The programs that can be loaded.
LEMMA Names == Programs \union Swaps \subseteq ProgName
  BY ProgramAssumption DEF ProgName

\* What io_act puts into the word and the queues has their types.
LEMMA ApplyType ==
    ASSUME TypeOK, NEW c \in Cid, NEW a, NEW ncqR \in Seq(Response), NEW hqR \in [Cid -> Nat],
           a.st \in IoWord, a.done \in Seq(Status), Apply(c, a, ncqR, hqR)
    PROVE  /\ ios' \in [Cid -> IoWord] /\ hq' \in [Cid -> Nat] /\ nsq' \in Seq(Cid)
           /\ ncq' \in Seq(Response) /\ cqe' \in [Cid -> Seq(Status)]
<1>1. ios' \in [Cid -> IoWord]
  BY DEF TypeOK, Apply
<1>2. hq' \in [Cid -> Nat]
  BY DEF Apply
<1>3. nsq' \in Seq(Cid)
  BY Appended DEF TypeOK, Apply
<1>4. cqe' \in [Cid -> Seq(Status)]
  <2>1. cqe[c] \o a.done \in Seq(Status)
    BY DEF TypeOK
  <2> QED BY <2>1 DEF TypeOK, Apply
<1> QED BY <1>1, <1>2, <1>3, <1>4 DEF Apply

\* io_act on what a program returned, or on the updated word.
LEMMA CompletionType ==
    ASSUME TypeOK, NEW c \in Cid, NEW tgt \in {"HQ", "FD"}, NEW hook, NEW status \in Status, NEW fwd,
           NEW ncqR \in Seq(Response), NEW hqR \in [Cid -> Nat],
           Completion(c, tgt, hook, status, fwd, ncqR, hqR)
    PROVE  /\ ios' \in [Cid -> IoWord] /\ hq' \in [Cid -> Nat] /\ nsq' \in Seq(Cid)
           /\ ncq' \in Seq(Response) /\ cqe' \in [Cid -> Seq(Status)]
           /\ fault' \in [Cid -> SUBSET {"target", "program"}] /\ ondev' \in [Cid -> BOOLEAN]
<1>1. prog \in ProgName /\ ios[c] \in IoWord
  BY Names DEF TypeOK
<1>2. FdAccepts \subseteq BOOLEAN /\ HqAccepts \subseteq BOOLEAN
  BY DEF FdAccepts, HqAccepts, TypeOK
<1>3. ondev' \in [Cid -> BOOLEAN]
  BY DEF Completion, TypeOK
<1>4. ASSUME NEW who \in {"target", "program"}, NEW failed, Blame(c, who, failed)
      PROVE  fault' \in [Cid -> SUBSET {"target", "program"}]
  BY <1>4 DEF Blame, TypeOK
<1>5. CASE HookRuns(ios[c], hook, tgt)
  <2>1. PICK ret \in Run(op[c], hook, status, fwd), fdOk \in FdAccepts, hqOk \in HqAccepts :
          /\ Apply(c, Act(bpfsm_set(ios[c], ret), TRUE, fdOk, hqOk), ncqR, hqR)
          /\ Blame(c, "program", ret.cmpl = "COMPLETE" /\ ret.status # "ok")
    BY <1>5 DEF Completion
  <2>2. ret \in ProgWord
    BY <1>1, RunWords
  <2>3. bpfsm_set(ios[c], ret) \in IoWord
    BY <1>1, <2>2, SetWord DEF Sound
  <2>4. PICK a : a = Act(bpfsm_set(ios[c], ret), TRUE, fdOk, hqOk)
    OBVIOUS
  <2>5. a.st \in IoWord /\ a.done \in Seq(Status)
    BY <1>2, <2>3, <2>4, ActType
  <2>6. Apply(c, a, ncqR, hqR)
    BY <2>1, <2>4
  <2>7. fault' \in [Cid -> SUBSET {"target", "program"}]
    BY <1>4, <2>1
  <2> QED BY <1>3, <2>5, <2>6, <2>7, ApplyType
<1>6. CASE ~HookRuns(ios[c], hook, tgt)
  <2>1. /\ Apply(c, Act(bpfsm_update(ios[c], status, tgt), FALSE, TRUE, TRUE), ncqR, hqR)
        /\ Blame(c, "target", ios[c].cmpl = tgt /\ status # "ok")
    BY <1>6 DEF Completion
  <2>2. bpfsm_update(ios[c], status, tgt) \in IoWord
    <3>1. ios[c].sends \ {tgt} \in SUBSET {"HQ", "FD"} /\ ios[c].hooks \in SUBSET {"HCQ", "NFD_WRITE", "PRE_VCQ"}
      BY <1>1 DEF IoWord
    <3>2. ios[c].status \in Status /\ ios[c].cmpl \in {"COMPLETE", "HQ", "FD", "WAIT"}
      BY <1>1 DEF IoWord
    <3> QED BY <1>1, <3>1, <3>2 DEF bpfsm_update, IoState, IoWord
  <2>4. PICK a : a = Act(bpfsm_update(ios[c], status, tgt), FALSE, TRUE, TRUE)
    OBVIOUS
  <2>5. a.st \in IoWord /\ a.done \in Seq(Status)
    BY <2>2, <2>4, ActType
  <2>6. Apply(c, a, ncqR, hqR)
    BY <2>1, <2>4
  <2>7. fault' \in [Cid -> SUBSET {"target", "program"}]
    BY <1>4, <2>1
  <2> QED BY <1>3, <2>5, <2>6, <2>7, ApplyType
<1> QED BY <1>5, <1>6

\* The initial state has its types.
LEMMA TypeInit == Init => TypeOK
<1> SUFFICES ASSUME Init PROVE TypeOK
  OBVIOUS
<1>1. Zero \in IoWord
  BY DEF Zero, Complete, IoState, IoWord, Status
<1>2. \A S : <<>> \in Seq(S)
  OBVIOUS
<1> QED BY <1>1, <1>2 DEF Init, TypeOK

\* Every step keeps the types.
LEMMA TypeNext == TypeOK /\ [Next]_vars => TypeOK'
<1> SUFFICES ASSUME TypeOK, [Next]_vars PROVE TypeOK'
  OBVIOUS
<1> USE DEF Response
<1>1. ASSUME NEW c \in Cid, NEW o \in Opcodes, Issue(c, o) PROVE TypeOK'
  <2>1. vsq' \in Seq(Cid)
    BY <1>1, Appended DEF TypeOK, Issue
  <2>2. <<>> \in Seq(Status)
    OBVIOUS
  <2>3. cqe' \in [Cid -> Seq(Status)]
    BY <1>1, <2>2 DEF TypeOK, Issue
  <2>4. op' \in [Cid -> Opcodes \union {"none"}] /\ issued' \in [Cid -> Nat] /\ extra' \in [Cid -> Nat]
    BY <1>1 DEF TypeOK, Issue
  <2>5. fault' \in [Cid -> SUBSET {"target", "program"}] /\ ondev' \in [Cid -> BOOLEAN]
    BY <1>1 DEF TypeOK, Issue
  <2> QED BY <1>1, <2>1, <2>3, <2>4, <2>5 DEF TypeOK, Issue
<1>2. ASSUME NEW c \in Cid, Reap(c) PROVE TypeOK'
  BY <1>2 DEF TypeOK, Reap, kernel
<1>3. ASSUME process_sq PROVE TypeOK'
  <2>1. vsq # <<>> /\ vsq' = Tail(vsq) /\ UNCHANGED <<prog, op, up, issued, extra, fault, ondev>>
    BY <1>3 DEF process_sq
  <2>2. PICK c \in Cid : c = Head(vsq)
    BY <2>1, Headed DEF TypeOK
  <2>3. PICK ret \in Run(op[c], "VSQ", "ok", FALSE), fdOk \in FdAccepts, hqOk \in HqAccepts :
          Apply(c, Act(bpfsm_set(Zero, ret), TRUE, fdOk, hqOk), ncq, hq)
    BY <1>3, <2>2 DEF process_sq
  <2>4. FdAccepts \subseteq BOOLEAN /\ HqAccepts \subseteq BOOLEAN
    BY DEF FdAccepts, HqAccepts, TypeOK
  <2>5. prog \in ProgName /\ "ok" \in Status /\ Zero \in IoWord
    BY Names DEF TypeOK, Status, Zero, Complete, IoState, IoWord
  <2>6. ret \in ProgWord
    BY <2>5, RunWords
  <2>7. bpfsm_set(Zero, ret) \in IoWord
    BY <2>5, <2>6, SetWord DEF Sound
  <2>8. PICK a : a = Act(bpfsm_set(Zero, ret), TRUE, fdOk, hqOk)
    OBVIOUS
  <2>9. a.st \in IoWord /\ a.done \in Seq(Status)
    BY <2>4, <2>7, <2>8, ActType
  <2>10. Apply(c, a, ncq, hq)
    BY <2>3, <2>8
  <2>11. ncq \in Seq(Response) /\ hq \in [Cid -> Nat]
    BY DEF TypeOK
  <2>12. /\ ios' \in [Cid -> IoWord] /\ hq' \in [Cid -> Nat] /\ nsq' \in Seq(Cid)
         /\ ncq' \in Seq(Response) /\ cqe' \in [Cid -> Seq(Status)]
    BY <2>9, <2>10, <2>11, ApplyType
  <2>13. vsq' \in Seq(Cid)
    BY <2>1, Headed DEF TypeOK
  <2> QED BY <2>1, <2>12, <2>13 DEF TypeOK
<1>4. ASSUME NEW c \in Cid, NEW status \in HqStatus, process_hwq(c, status) PROVE TypeOK'
  <2>1. status \in Status
    BY DEF HqStatus, Status
  <2>2. PICK hqR : hqR = [hq EXCEPT ![c] = hq[c] - 1]
    OBVIOUS
  <2>3. hqR \in [Cid -> Nat] /\ ncq \in Seq(Response)
    BY <1>4, <2>2 DEF process_hwq, TypeOK
  <2>4. Completion(c, "HQ", "HCQ", status, FALSE, ncq, hqR)
    BY <1>4, <2>2 DEF process_hwq
  <2> QED BY <1>4, <2>1, <2>3, <2>4, CompletionType DEF process_hwq, TypeOK
<1>5. ASSUME NEW n \in 1 .. Len(nsq), NEW status \in FdStatus, NEW fwd \in BOOLEAN,
             Respond(n, status, fwd /\ prog = "xcow")
      PROVE  TypeOK'
  <2>1. nsq[n] \in Cid /\ nsq' \in Seq(Cid)
    <3>1. nsq \in Seq(Cid)
      BY DEF TypeOK
    <3>2. nsq' = SubSeq(nsq, 1, n - 1) \o SubSeq(nsq, n + 1, Len(nsq))
      BY <1>5 DEF Respond
    <3> QED BY <3>1, <3>2, Removed
  <2>2. status \in Status
    BY DEF FdStatus, Status
  <2>3. PICK r : r = [c |-> nsq[n], status |-> status, fwd |-> fwd /\ prog = "xcow"]
    OBVIOUS
  <2>4. r \in Response
    BY <2>1, <2>2, <2>3
  <2>5. ncq' \in Seq(Response)
    BY <1>5, <2>3, <2>4, AppendedC DEF Respond, TypeOK
  <2> QED BY <1>5, <2>1, <2>5 DEF Respond, TypeOK
<1>6. ASSUME process_ncq PROVE TypeOK'
  <2>1. ncq \in Seq(Response) /\ ncq # <<>>
    BY <1>6 DEF process_ncq, TypeOK
  <2>2. PICK r \in Response : r = Head(ncq)
    BY <2>1, HeadedC
  <2>3. PICK ncqR \in Seq(Response) : ncqR = Tail(ncq)
    BY <2>1, HeadedC
  <2>4. Completion(r.c, "FD", "NFD_WRITE", r.status, r.fwd, ncqR, hq)
    BY <1>6, <2>2, <2>3 DEF process_ncq
  <2>5. r.c \in Cid /\ r.status \in Status /\ hq \in [Cid -> Nat]
    BY <2>2 DEF TypeOK
  <2> QED BY <1>6, <2>4, <2>5, CompletionType DEF process_ncq, TypeOK
<1>7. ASSUME release PROVE TypeOK'
  <2>1. \A S : <<>> \in Seq(S)
    OBVIOUS
  <2> QED BY <1>7, <2>1 DEF release, TypeOK
<1>8. ASSUME open PROVE TypeOK'
  BY <1>8 DEF open, TypeOK, kernel
<1>9. ASSUME NEW p \in Swaps, attach_prog(p) PROVE TypeOK'
  BY <1>9 DEF attach_prog, TypeOK, kernel
<1>10. ASSUME UNCHANGED vars PROVE TypeOK'
  BY <1>10 DEF vars, kernel, TypeOK
<1>11. ASSUME NEW n \in 1 .. Len(nsq), RespondPiece(n) PROVE TypeOK'
  <2>1. nsq[n] \in Cid
    BY DEF TypeOK
  <2>2. PICK r : r = [c |-> nsq[n], status |-> "fderr", fwd |-> FALSE]
    OBVIOUS
  <2>3. r \in Response
    BY <2>1, <2>2 DEF Status
  <2>4. ncq' \in Seq(Response)
    BY <1>11, <2>2, <2>3, AppendedC DEF RespondPiece, TypeOK
  <2>5. extra' \in [Cid -> Nat]
    <3>1. extra' = [extra EXCEPT ![nsq[n]] = extra[nsq[n]] + 1] /\ extra \in [Cid -> Nat]
      BY <1>11 DEF RespondPiece, TypeOK
    <3>2. extra[nsq[n]] + 1 \in Nat
      BY <2>1, <3>1
    <3> QED BY <2>1, <3>1, <3>2
  <2> QED BY <1>11, <2>4, <2>5 DEF RespondPiece, TypeOK
<1> QED BY <1>1, <1>2, <1>3, <1>4, <1>5, <1>6, <1>7, <1>8, <1>9, <1>10, <1>11 DEF Next, Device, Uif

\* The words, queues and histories have their types, for every set of
\* programs and whatever fails.
THEOREM TypeCorrect == Spec => []TypeOK
  BY TypeInit, TypeNext, PTL DEF Spec

(***************************************************************************)
(* What the steps of the iothread have in common: io_act for command c,    *)
(* with the rings as they are without the completion that was taken.       *)
(***************************************************************************)
Routed(c, a, ncqR, hqR) ==
    /\ Apply(c, a, ncqR, hqR)
    /\ UNCHANGED <<prog, op, up>>
    /\ cqe[c] = <<>> /\ op[c] # "none"
    \* the rest of the submission queue
    /\ vsq' \in Seq(Cid) /\ Once(vsq') /\ ~In(vsq', c)
    /\ \A d \in Cid : d # c => (In(vsq', d) <=> In(vsq, d))
    \* the rest of the other queues
    /\ ncqR \in Seq(Response) /\ OnceC(ncqR) /\ hqR \in [Cid -> Nat] /\ hqR[c] \in {0, 1}
    /\ \A d \in Cid : InC(ncqR, d) => InC(ncq, d)
    /\ \A d \in Cid : d # c => hqR[d] = hq[d] /\ (InC(ncq, d) => InC(ncqR, d))
    \* the new word
    /\ Sound(a.st) /\ a.done = IF a.st.sends = {} THEN <<a.st.status>> ELSE <<>>
    /\ hqR[c] = 1 => "HQ" \in a.st.sends /\ ~a.hq
    /\ In(nsq, c) \/ InC(ncqR, c) => "FD" \in a.st.sends /\ ~a.fd
    /\ a.hq => "HQ" \in a.st.sends
    /\ a.fd => "FD" \in a.st.sends
    /\ \A d \in Cid : d # c => fault'[d] = fault[d] /\ ondev'[d] = ondev[d]

\* AtFd and InVsq in terms of the queues, before and after a step.
LEMMA AtFdIn ==
    /\ \A c : AtFd(c) <=> In(nsq, c) \/ InC(ncq, c)
    /\ \A c : AtFd(c)' <=> In(nsq', c) \/ InC(ncq', c)
    /\ \A c : InVsq(c) <=> In(vsq, c)
    /\ \A c : InVsq(c)' <=> In(vsq', c)
  BY DEF AtFd, InVsq, In, InC

\* Where everything is after io_act.
LEMMA RoutedEffect ==
    ASSUME TypeOK, NEW c \in Cid, NEW a, NEW ncqR, NEW hqR, Routed(c, a, ncqR, hqR)
    PROVE  /\ ios'[c] = a.st /\ cqe'[c] = a.done
           /\ hq'[c] = IF a.hq THEN hqR[c] + 1 ELSE hqR[c]
           /\ \A x : In(nsq', x) <=> In(nsq, x) \/ (a.fd /\ x = c)
           /\ ncq' = ncqR
           /\ \A d \in Cid : d # c => ios'[d] = ios[d] /\ cqe'[d] = cqe[d] /\ hq'[d] = hq[d]
<1>1. /\ ios' = [ios EXCEPT ![c] = a.st]
      /\ cqe' = [cqe EXCEPT ![c] = cqe[c] \o a.done]
      /\ nsq' = IF a.fd THEN Append(nsq, c) ELSE nsq
      /\ hq'  = IF a.hq THEN [hqR EXCEPT ![c] = hqR[c] + 1] ELSE hqR
      /\ ncq' = ncqR
  BY DEF Routed, Apply
<1>2. cqe[c] \o a.done = a.done
  <2>1. a.done \in Seq(Status) /\ cqe[c] = <<>>
    <3>1. a.st.status \in Status
      BY DEF Routed, Sound, IoWord
    <3> QED BY <3>1 DEF Routed
  <2> QED BY <2>1
<1>3. \A x : In(nsq', x) <=> In(nsq, x) \/ (a.fd /\ x = c)
  BY <1>1, Appended DEF TypeOK
<1>4. ios'[c] = a.st /\ cqe'[c] = a.done
  BY <1>1, <1>2 DEF TypeOK
<1>5. hq'[c] = IF a.hq THEN hqR[c] + 1 ELSE hqR[c]
  BY <1>1 DEF Routed
<1>6. \A d \in Cid : d # c => ios'[d] = ios[d] /\ cqe'[d] = cqe[d] /\ hq'[d] = hq[d]
  BY <1>1 DEF TypeOK, Routed
<1> QED BY <1>1, <1>3, <1>4, <1>5, <1>6

\* io_act keeps every command in its place.
LEMMA RoutedPlaced ==
    ASSUME RouterInv, NEW c \in Cid, NEW a, NEW ncqR, NEW hqR, Routed(c, a, ncqR, hqR)
    PROVE  QueuesOnce' /\ \A d \in Cid : Placed(d)'
<1>1. /\ ios'[c] = a.st /\ cqe'[c] = a.done
      /\ hq'[c] = IF a.hq THEN hqR[c] + 1 ELSE hqR[c]
      /\ \A x : In(nsq', x) <=> In(nsq, x) \/ (a.fd /\ x = c)
      /\ ncq' = ncqR
      /\ \A d \in Cid : d # c => ios'[d] = ios[d] /\ cqe'[d] = cqe[d] /\ hq'[d] = hq[d]
  BY RoutedEffect DEF RouterInv
<1>2. TypeOK /\ QueuesOnce /\ Placed(c)
  BY DEF RouterInv
<1>3. QueuesOnce'
  <2>1. Once(nsq')
    <3>1. CASE a.fd
      <4>1. ~In(nsq, c) /\ nsq' = Append(nsq, c)
        BY <3>1 DEF Routed, Apply
      <4> QED BY <1>2, <4>1, Appended DEF QueuesOnce, TypeOK
    <3>2. CASE ~a.fd
      BY <1>2, <3>2 DEF Routed, Apply, QueuesOnce
    <3> QED BY <3>1, <3>2
  <2>2. ASSUME NEW d \in Cid, In(nsq', d), InC(ncqR, d) PROVE FALSE
    <3>1. InC(ncq, d)
      BY <2>2 DEF Routed
    <3>2. ~In(nsq, d)
      BY <1>2, <3>1 DEF QueuesOnce
    <3>3. a.fd /\ d = c
      BY <1>1, <2>2, <3>2
    <3> QED BY <2>2, <3>3 DEF Routed
  <2>3. Once(vsq') /\ OnceC(ncq')
    BY <1>1 DEF Routed
  <2>4. \A d \in Cid : ~(In(nsq', d) /\ InC(ncq', d))
    BY <1>1, <2>2
  <2> QED BY <2>1, <2>3, <2>4 DEF QueuesOnce
<1>4. Placed(c)'
  <2>1. Sound(ios'[c])
    BY <1>1 DEF Routed
  <2>2. hq'[c] \in {0, 1} /\ (hq'[c] = 1 => "HQ" \in ios'[c].sends)
    BY <1>1 DEF Routed
  <2>3. Len(cqe'[c]) <= 1
    BY <1>1 DEF Routed
  <2>4. In(nsq', c) \/ InC(ncq', c) => "FD" \in ios'[c].sends
    BY <1>1 DEF Routed
  <2>5. op'[c] # "none" /\ ~In(vsq', c)
    BY DEF Routed
  <2>6. cqe'[c] # <<>> => hq'[c] = 0 /\ ~(In(nsq', c) \/ InC(ncq', c))
    <3>1. cqe'[c] # <<>> => ios'[c].sends = {}
      BY <1>1 DEF Routed
    <3> QED BY <2>2, <2>4, <3>1
  <2>7. /\ AtFd(c)' => "FD" \in ios'[c].sends
        /\ cqe'[c] # <<>> => hq'[c] = 0 /\ ~AtFd(c)'
        /\ ~InVsq(c)'
    BY <2>4, <2>5, <2>6, AtFdIn
  <2> QED BY <2>1, <2>2, <2>3, <2>5, <2>7 DEF Placed
<1>5. ASSUME NEW d \in Cid, d # c PROVE Placed(d)'
  <2>1. Placed(d)
    BY DEF RouterInv
  <2>2. /\ ios'[d] = ios[d] /\ cqe'[d] = cqe[d] /\ hq'[d] = hq[d]
        /\ op'[d] = op[d] /\ fault'[d] = fault[d]
    BY <1>1, <1>5 DEF Routed
  <2>3. AtFd(d)' <=> AtFd(d)
    <3>1. InC(ncqR, d) <=> InC(ncq, d)
      BY <1>5 DEF Routed
    <3>2. In(nsq', d) <=> In(nsq, d)
      BY <1>1, <1>5
    <3> QED BY <1>1, <3>1, <3>2, AtFdIn
  <2>4. InVsq(d)' <=> InVsq(d)
    <3>1. In(vsq', d) <=> In(vsq, d)
      BY <1>5 DEF Routed
    <3> QED BY <3>1, AtFdIn
  <2> QED BY <2>1, <2>2, <2>3, <2>4 DEF Placed
<1> QED BY <1>3, <1>4, <1>5

(***************************************************************************)
(* The iothread's steps are such steps.                                    *)
(***************************************************************************)
\* The word of a hook: its sends are under way, unless the NSQ refused a
\* mirrored write; under a direct program it waits for the host queue.
Fresh(a) ==
    /\ "HQ" \in a.st.sends => a.hq \/ (prog = "replicate" /\ (~up \/ prog \in Slow))
    /\ "FD" \in a.st.sends => a.fd
    /\ prog \in Direct => a.st.hooks = {} /\ a.st.cmpl = "HQ" /\ "HQ" \in a.st.sends

\* What a hook makes of a word.
HookWord(a) ==
    /\ Sound(a.st) /\ a.done = IF a.st.sends = {} THEN <<a.st.status>> ELSE <<>>
    /\ a.hq => "HQ" \in a.st.sends
    /\ a.fd => "FD" \in a.st.sends
    /\ Fresh(a)

\* A hook was run for a completion from tgt.
Hooked(c, a, tgt) ==
    /\ Fresh(a)
    /\ ios[c].hooks # {} /\ ios[c].cmpl = "WAIT" /\ ios[c].sends = {tgt}
    /\ fault'[c] \subseteq fault[c] \union {"program"}

\* The word was updated by a completion from tgt.
Updated(c, a, tgt, status) ==
    /\ ~a.hq /\ ~a.fd
    /\ a.st.sends = ios[c].sends \ {tgt} /\ a.st.hooks = ios[c].hooks
    /\ a.st.cmpl = IF a.st.sends = {} THEN "COMPLETE" ELSE ios[c].cmpl
    /\ a.st.status = IF ios[c].cmpl = tgt THEN status ELSE ios[c].status
    /\ fault'[c] = IF ios[c].cmpl = tgt /\ status # "ok" THEN fault[c] \union {"target"} ELSE fault[c]

\* The word after a hook is complete or waits for what was sent.
LEMMA HookAct ==
    ASSUME TypeOK, ~MayReject, NEW cur \in IoWord, NEW o, NEW hook, NEW data \in Status, NEW fwd,
           NEW ret \in Run(o, hook, data, fwd), NEW fdOk \in FdAccepts, NEW hqOk \in HqAccepts,
           NEW a, a = Act(bpfsm_set(cur, ret), TRUE, fdOk, hqOk)
    PROVE  HookWord(a)
<1>1. prog \in ProgName
  BY Names DEF TypeOK
<1>2. ret \in ProgWord /\ (prog # "replicate" => ret # Mirrored) /\ (prog \in Direct => ret \in {ToHq, Mirrored})
  BY <1>1, RunWords
<1>3. hqOk = TRUE /\ fdOk \in BOOLEAN /\ (~fdOk => ~up \/ prog \in Slow)
  BY DEF HqAccepts, FdAccepts, TypeOK
<1>4. PICK w : w = bpfsm_set(cur, ret)
  OBVIOUS
<1>5. Sound(w) /\ w.hooks = ret.hooks /\ w.sends = ret.sends /\ w.cmpl = ret.cmpl
  BY <1>2, <1>4, SetWord
<1>6. a = Act(w, TRUE, fdOk, TRUE)
  BY <1>3, <1>4
<1>7. /\ Sound(a.st) /\ a.st.hooks = w.hooks
      /\ a.st.cmpl = IF a.st.sends = {} THEN "COMPLETE" ELSE w.cmpl
      /\ a.hq => "HQ" \in a.st.sends
      /\ a.fd => "FD" \in a.st.sends
      /\ a.done = IF a.st.sends = {} THEN <<a.st.status>> ELSE <<>>
      /\ "FD" \in a.st.sends => a.fd
      /\ "HQ" \in a.st.sends => a.hq \/ (~fdOk /\ w.sends = {"HQ", "FD"})
      /\ "HQ" \in w.sends => "HQ" \in a.st.sends
  <2>1. ActSent(a, w, fdOk)
    BY <1>3, <1>5, <1>6, ActSends
  <2> QED BY <2>1 DEF ActSent
<1>8. ret.sends = {"HQ", "FD"} => ret = Mirrored
  BY <1>2 DEF ProgWord, ToHq, ToFd, HqThenHook, FdThenHook, Mirrored, Complete, IoState
<1>9. "HQ" \in a.st.sends => a.hq \/ (prog = "replicate" /\ (~up \/ prog \in Slow))
  BY <1>2, <1>3, <1>5, <1>7, <1>8
<1>10. ASSUME prog \in Direct PROVE a.st.hooks = {} /\ a.st.cmpl = "HQ" /\ "HQ" \in a.st.sends
  <2>1. ret.hooks = {} /\ "HQ" \in ret.sends /\ ret.cmpl = "HQ"
    BY <1>2, <1>10 DEF ToHq, Mirrored, IoState
  <2> QED BY <1>5, <1>7, <2>1
<1> QED BY <1>7, <1>9, <1>10 DEF Fresh, HookWord

\* process_sq.
LEMMA SqRouted ==
    ASSUME RouterInv, ~MayReject, process_sq
    PROVE  \E c \in Cid : \E a : /\ InVsq(c) /\ Routed(c, a, ncq, hq) /\ Fresh(a)
                                 /\ UNCHANGED <<fault, ondev>>
<1>1. TypeOK /\ QueuesOnce
  BY DEF RouterInv
<1>2. vsq # <<>> /\ vsq' = Tail(vsq) /\ UNCHANGED <<prog, op, up, issued, extra, fault, ondev>>
  BY DEF process_sq
<1>3. PICK c \in Cid : c = Head(vsq)
  BY <1>1, <1>2, Headed DEF TypeOK
<1>4. PICK ret \in Run(op[c], "VSQ", "ok", FALSE), fdOk \in FdAccepts, hqOk \in HqAccepts :
        Apply(c, Act(bpfsm_set(Zero, ret), TRUE, fdOk, hqOk), ncq, hq)
  BY <1>3 DEF process_sq
<1>5. PICK a : a = Act(bpfsm_set(Zero, ret), TRUE, fdOk, hqOk)
  OBVIOUS
<1>6. "ok" \in Status /\ Zero \in IoWord
  BY DEF Status, Zero, Complete, IoState, IoWord
<1>7. /\ Sound(a.st) /\ a.done = IF a.st.sends = {} THEN <<a.st.status>> ELSE <<>>
      /\ a.hq => "HQ" \in a.st.sends
      /\ a.fd => "FD" \in a.st.sends
      /\ Fresh(a)
  <2>1. HookWord(a)
    BY <1>1, <1>4, <1>5, <1>6, HookAct
  <2> QED BY <2>1 DEF HookWord
<1>8. /\ In(vsq, c) /\ vsq' \in Seq(Cid) /\ Once(vsq') /\ ~In(vsq', c)
      /\ \A d \in Cid : d # c => (In(vsq', d) <=> In(vsq, d))
  BY <1>1, <1>2, <1>3, Headed DEF TypeOK, QueuesOnce
<1>9. InVsq(c)
  BY <1>8, AtFdIn
<1>10. op[c] # "none" /\ cqe[c] = <<>> /\ hq[c] = 0 /\ ~AtFd(c)
  BY <1>9 DEF RouterInv, Placed
<1>11. ~In(nsq, c) /\ ~InC(ncq, c)
  BY <1>10, AtFdIn
<1>12. Apply(c, a, ncq, hq)
  BY <1>4, <1>5
<1>13. ncq \in Seq(Response) /\ hq \in [Cid -> Nat] /\ OnceC(ncq)
  BY <1>1 DEF TypeOK, QueuesOnce, Response
<1>14. Routed(c, a, ncq, hq)
  BY <1>2, <1>7, <1>8, <1>10, <1>11, <1>12, <1>13 DEF Routed
<1> QED BY <1>2, <1>7, <1>9, <1>14

\* The rings without the completion of c from tgt.
TakenOut(c, tgt, ncqR, hqR) ==
    /\ hq[c] = 1 \/ AtFd(c)
    /\ tgt \in ios[c].sends
    /\ ncqR \in Seq(Response) /\ OnceC(ncqR) /\ hqR \in [Cid -> Nat]
    /\ \A d \in Cid : InC(ncqR, d) => InC(ncq, d)
    /\ \A d \in Cid : d # c => hqR[d] = hq[d] /\ (InC(ncq, d) => InC(ncqR, d))
    /\ hqR[c] = IF tgt = "HQ" THEN 0 ELSE hq[c]
    /\ tgt = "FD" => ~In(nsq, c) /\ ~InC(ncqR, c)

\* A completion from a target that a pending word waits for.
LEMMA CompletionRouted ==
    ASSUME RouterInv, ~MayReject, NEW c \in Cid, NEW tgt \in {"HQ", "FD"}, NEW hook, NEW status \in Status,
           NEW fwd, NEW ncqR, NEW hqR, Completion(c, tgt, hook, status, fwd, ncqR, hqR),
           UNCHANGED <<prog, op, vsq, up, issued, extra>>, TakenOut(c, tgt, ncqR, hqR)
    PROVE  \E a : /\ Routed(c, a, ncqR, hqR)
                  /\ Hooked(c, a, tgt) \/ Updated(c, a, tgt, status)
                  /\ ondev' = [ondev EXCEPT ![c] = ondev[c] \/ (tgt = "HQ" /\ status = "ok")]
<1> USE DEF TakenOut
<1>1. TypeOK /\ QueuesOnce /\ Placed(c) /\ Sound(ios[c])
  BY DEF RouterInv, Placed
<1>2. op[c] # "none" /\ cqe[c] = <<>> /\ ~InVsq(c)
  BY <1>1 DEF Placed
<1>3. /\ vsq' \in Seq(Cid) /\ Once(vsq') /\ ~In(vsq', c)
      /\ \A d \in Cid : d # c => (In(vsq', d) <=> In(vsq, d))
  BY <1>1, <1>2, AtFdIn DEF TypeOK, QueuesOnce
<1>4. ondev' = [ondev EXCEPT ![c] = ondev[c] \/ (tgt = "HQ" /\ status = "ok")]
  BY DEF Completion
<1>5. ASSUME NEW who, NEW failed, Blame(c, who, failed)
      PROVE  /\ fault'[c] = IF failed THEN fault[c] \union {who} ELSE fault[c]
             /\ \A d \in Cid : d # c => fault'[d] = fault[d] /\ ondev'[d] = ondev[d]
  BY <1>1, <1>4, <1>5 DEF Blame, TypeOK
<1>6. hqR[c] \in {0, 1} /\ (hqR[c] = 1 => tgt = "FD" /\ "HQ" \in ios[c].sends)
  BY <1>1 DEF Placed
<1>7. In(nsq, c) \/ InC(ncqR, c) => tgt = "HQ" /\ "FD" \in ios[c].sends
  BY <1>1, AtFdIn DEF Placed
<1>8. CASE HookRuns(ios[c], hook, tgt)
  <2>1. PICK ret \in Run(op[c], hook, status, fwd), fdOk \in FdAccepts, hqOk \in HqAccepts :
          /\ Apply(c, Act(bpfsm_set(ios[c], ret), TRUE, fdOk, hqOk), ncqR, hqR)
          /\ Blame(c, "program", ret.cmpl = "COMPLETE" /\ ret.status # "ok")
    BY <1>8 DEF Completion
  <2>2. PICK a : a = Act(bpfsm_set(ios[c], ret), TRUE, fdOk, hqOk)
    OBVIOUS
  <2>3. ios[c] \in IoWord
    BY <1>1 DEF Sound
  <2>4. /\ Sound(a.st) /\ a.done = IF a.st.sends = {} THEN <<a.st.status>> ELSE <<>>
        /\ a.hq => "HQ" \in a.st.sends
        /\ a.fd => "FD" \in a.st.sends
        /\ Fresh(a)
    <3>1. HookWord(a)
      BY <1>1, <2>1, <2>2, <2>3, HookAct
    <3> QED BY <3>1 DEF HookWord
  <2>5. ios[c].hooks # {} /\ ios[c].cmpl = "WAIT" /\ ios[c].sends = {tgt}
    <3>1. ios[c].hooks # {} /\ ios[c].cmpl # "COMPLETE" /\ ios[c].sends \ {tgt} = {}
      BY <1>8 DEF HookRuns
    <3>2. ios[c].cmpl \in {"COMPLETE", "HQ", "FD", "WAIT"}
      BY <2>3 DEF IoWord
    <3> QED BY <1>1, <3>1, <3>2 DEF Sound
  <2>6. hqR[c] = 0 /\ ~In(nsq, c) /\ ~InC(ncqR, c)
    BY <1>6, <1>7, <2>5
  <2>7. /\ fault'[c] \subseteq fault[c] \union {"program"}
        /\ \A d \in Cid : d # c => fault'[d] = fault[d] /\ ondev'[d] = ondev[d]
    BY <1>5, <2>1
  <2>8. Apply(c, a, ncqR, hqR)
    BY <2>1, <2>2
  <2>9. Routed(c, a, ncqR, hqR)
    BY <1>2, <1>3, <1>6, <2>4, <2>6, <2>7, <2>8 DEF Routed
  <2>10. Hooked(c, a, tgt)
    BY <2>4, <2>5, <2>7 DEF Hooked
  <2> QED BY <1>4, <2>9, <2>10
<1>9. CASE ~HookRuns(ios[c], hook, tgt)
  <2>1. /\ Apply(c, Act(bpfsm_update(ios[c], status, tgt), FALSE, TRUE, TRUE), ncqR, hqR)
        /\ Blame(c, "target", ios[c].cmpl = tgt /\ status # "ok")
    BY <1>9 DEF Completion
  <2>2. PICK w : w = bpfsm_update(ios[c], status, tgt)
    OBVIOUS
  <2>3. /\ Sound(w)
        /\ w.sends = ios[c].sends \ {tgt} /\ w.hooks = ios[c].hooks
        /\ w.cmpl = IF w.sends = {} THEN "COMPLETE" ELSE ios[c].cmpl
        /\ w.status = IF ios[c].cmpl = tgt THEN status ELSE ios[c].status
    BY <1>1, <2>2, UpdateWord
  <2>4. PICK a : a = Act(w, FALSE, TRUE, TRUE)
    OBVIOUS
  <2>5. a.st = w /\ ~a.fd /\ ~a.hq /\ a.done = IF w.sends = {} THEN <<w.status>> ELSE <<>>
    <3>1. a = [st |-> w, fd |-> FALSE, hq |-> FALSE, done |-> IF w.sends = {} THEN <<w.status>> ELSE <<>>]
      BY <2>3, <2>4, ActKeeps
    <3> QED BY <3>1
  <2>6. Apply(c, a, ncqR, hqR)
    BY <2>1, <2>2, <2>4
  <2>7. /\ fault'[c] = IF ios[c].cmpl = tgt /\ status # "ok" THEN fault[c] \union {"target"} ELSE fault[c]
        /\ \A d \in Cid : d # c => fault'[d] = fault[d] /\ ondev'[d] = ondev[d]
    BY <1>5, <2>1
  <2>8. hqR[c] = 1 => "HQ" \in a.st.sends /\ ~a.hq
    BY <1>6, <2>3, <2>5
  <2>9. In(nsq, c) \/ InC(ncqR, c) => "FD" \in a.st.sends /\ ~a.fd
    BY <1>7, <2>3, <2>5
  <2>10. Routed(c, a, ncqR, hqR)
    BY <1>2, <1>3, <1>6, <2>3, <2>5, <2>6, <2>7, <2>8, <2>9 DEF Routed
  <2>11. Updated(c, a, tgt, status)
    BY <2>3, <2>5, <2>7 DEF Updated
  <2> QED BY <1>4, <2>10, <2>11
<1> QED BY <1>8, <1>9

\* A step of the iothread that takes a completion.
TookCompletion(c, a, tgt, status, ncqR, hqR) ==
    /\ Routed(c, a, ncqR, hqR)
    /\ Hooked(c, a, tgt) \/ Updated(c, a, tgt, status)
    /\ ondev' = [ondev EXCEPT ![c] = ondev[c] \/ (tgt = "HQ" /\ status = "ok")]
    /\ ~InVsq(c) /\ tgt \in ios[c].sends
    /\ tgt = "FD" => hqR = hq
    /\ tgt = "HQ" => ncqR = ncq

\* process_hwq takes one.
LEMMA HwqRouted ==
    ASSUME RouterInv, ~MayReject, NEW c \in Cid, NEW status \in HqStatus, process_hwq(c, status)
    PROVE  \E a, hqR : TookCompletion(c, a, "HQ", status, ncq, hqR)
<1>1. TypeOK /\ QueuesOnce /\ Placed(c)
  BY DEF RouterInv
<1>2. hq[c] = 1 /\ "HQ" \in ios[c].sends /\ ~InVsq(c)
  BY <1>1 DEF process_hwq, Placed
<1>3. PICK hqR : hqR = [hq EXCEPT ![c] = hq[c] - 1]
  OBVIOUS
<1>4. hqR \in [Cid -> Nat] /\ hqR[c] = 0 /\ \A d \in Cid : d # c => hqR[d] = hq[d]
  BY <1>1, <1>2, <1>3 DEF TypeOK
<1>5. Completion(c, "HQ", "HCQ", status, FALSE, ncq, hqR) /\ UNCHANGED <<prog, op, vsq, up, issued, extra>>
  BY <1>3 DEF process_hwq
<1>6. status \in Status /\ ncq \in Seq(Response) /\ OnceC(ncq)
  BY <1>1 DEF HqStatus, Status, TypeOK, QueuesOnce, Response
<1>7. PICK tgt \in {"HQ", "FD"} : tgt = "HQ"
  OBVIOUS
<1>8. \E a : /\ Routed(c, a, ncq, hqR)
             /\ Hooked(c, a, tgt) \/ Updated(c, a, tgt, status)
             /\ ondev' = [ondev EXCEPT ![c] = ondev[c] \/ (tgt = "HQ" /\ status = "ok")]
  <2> PICK ncqR \in Seq(Response) : ncqR = ncq
    BY <1>6
  <2>1. Completion(c, tgt, "HCQ", status, FALSE, ncqR, hqR)
    BY <1>5, <1>7
  <2>2. tgt \in ios[c].sends /\ (tgt = "FD" => ~In(nsq, c) /\ ~InC(ncqR, c))
    BY <1>2, <1>7
  <2>3. hqR[c] = IF tgt = "HQ" THEN 0 ELSE hq[c]
    BY <1>4, <1>7
  <2>4. \A d \in Cid : d # c => hqR[d] = hq[d] /\ (InC(ncq, d) => InC(ncqR, d))
    BY <1>4
  <2>5. OnceC(ncqR) /\ \A d \in Cid : InC(ncqR, d) => InC(ncq, d)
    BY <1>6
  <2>6. \E a : /\ Routed(c, a, ncqR, hqR)
               /\ Hooked(c, a, tgt) \/ Updated(c, a, tgt, status)
               /\ ondev' = [ondev EXCEPT ![c] = ondev[c] \/ (tgt = "HQ" /\ status = "ok")]
    <3>1. TakenOut(c, tgt, ncqR, hqR)
      BY <1>2, <1>4, <2>2, <2>3, <2>4, <2>5 DEF TakenOut
    <3> QED BY <1>5, <1>6, <2>1, <3>1, CompletionRouted
  <2> QED BY <2>6
<1>9. PICK a : /\ Routed(c, a, ncq, hqR)
               /\ Hooked(c, a, tgt) \/ Updated(c, a, tgt, status)
               /\ ondev' = [ondev EXCEPT ![c] = ondev[c] \/ (tgt = "HQ" /\ status = "ok")]
  BY <1>8
<1>10. TookCompletion(c, a, "HQ", status, ncq, hqR)
  BY <1>2, <1>7, <1>9 DEF TookCompletion
<1> QED BY <1>10

\* process_ncq takes one.
LEMMA NcqRouted ==
    ASSUME RouterInv, ~MayReject, process_ncq
    PROVE  \E c \in Cid, status \in Status : \E a, ncqR : TookCompletion(c, a, "FD", status, ncqR, hq)
<1>1. TypeOK /\ QueuesOnce
  BY DEF RouterInv
<1>2. ncq \in Seq(Response) /\ ncq # <<>> /\ OnceC(ncq) /\ hq \in [Cid -> Nat]
  BY <1>1 DEF process_ncq, TypeOK, QueuesOnce, Response
<1>3. PICK r \in Response : r = Head(ncq)
  BY <1>2, HeadedC
<1>4. PICK ncqR \in Seq(Response) : ncqR = Tail(ncq)
  BY <1>2, HeadedC
<1>5. Completion(r.c, "FD", "NFD_WRITE", r.status, r.fwd, ncqR, hq) /\ UNCHANGED <<prog, op, vsq, up, issued, extra>>
  BY <1>3, <1>4 DEF process_ncq
<1>6. r.c \in Cid /\ r.status \in Status
  BY <1>3 DEF Response
<1>7. PICK c \in Cid : c = r.c
  BY <1>6
<1>8. /\ InC(ncq, c) /\ OnceC(ncqR) /\ ~InC(ncqR, c)
      /\ \A d \in Cid : InC(ncqR, d) => InC(ncq, d)
      /\ \A d \in Cid : d # c => (InC(ncq, d) => InC(ncqR, d))
  BY <1>2, <1>3, <1>4, <1>7, HeadedC
<1>9. AtFd(c) /\ ~In(nsq, c)
  BY <1>1, <1>8, AtFdIn DEF QueuesOnce
<1>10. "FD" \in ios[c].sends /\ ~InVsq(c)
  BY <1>9 DEF RouterInv, Placed
<1>11. \E a : /\ Routed(c, a, ncqR, hq)
              /\ Hooked(c, a, "FD") \/ Updated(c, a, "FD", r.status)
              /\ ondev' = [ondev EXCEPT ![c] = ondev[c] \/ ("FD" = "HQ" /\ r.status = "ok")]
  <2>1. Completion(c, "FD", "NFD_WRITE", r.status, r.fwd, ncqR, hq)
    BY <1>5, <1>7
  <2>2. hq[c] = IF "FD" = "HQ" THEN 0 ELSE hq[c]
    OBVIOUS
  <2>3. \A d \in Cid : d # c => hq[d] = hq[d] /\ (InC(ncq, d) => InC(ncqR, d))
    BY <1>8
  <2>4. TakenOut(c, "FD", ncqR, hq)
    BY <1>2, <1>8, <1>9, <1>10, <2>2, <2>3 DEF TakenOut
  <2> QED BY <1>5, <1>6, <2>1, <2>4, CompletionRouted
<1>12. PICK a : /\ Routed(c, a, ncqR, hq)
                /\ Hooked(c, a, "FD") \/ Updated(c, a, "FD", r.status)
                /\ ondev' = [ondev EXCEPT ![c] = ondev[c] \/ ("FD" = "HQ" /\ r.status = "ok")]
  BY <1>11
<1>13. PICK status \in Status : status = r.status
  BY <1>6
<1>14. TookCompletion(c, a, "FD", status, ncqR, hq)
  BY <1>10, <1>12, <1>13 DEF TookCompletion
<1> QED BY <1>14

(***************************************************************************)
(* Commands stay in their places.                                          *)
(***************************************************************************)
\* The userspace function answers each command once: it is not the XCOW
\* server, or no piece of a write of several clusters fails.
AnswersOnce == MaxRepeat = 0 \/ "fderr" \notin Faults \/ "xcow" \notin Programs \union Swaps

\* Then there is no answer but the last.
LEMMA NoPiece ==
    ASSUME AnswersOnce, TypeOK, NEW n \in 1 .. Len(nsq), RespondPiece(n)
    PROVE  FALSE
<1>1. nsq[n] \in Cid /\ prog \in Programs \union Swaps
  BY DEF TypeOK
<1>2. extra[nsq[n]] \in Nat /\ extra[nsq[n]] < MaxRepeat
  BY <1>1 DEF TypeOK, RespondPiece
<1>3. MaxRepeat # 0
  BY <1>2
<1> QED BY <1>1, <1>3 DEF AnswersOnce, RespondPiece

\* At first every command is free.
LEMMA PlacedInit == Init => RouterInv
<1> SUFFICES ASSUME Init PROVE RouterInv
  OBVIOUS
<1>1. TypeOK
  BY TypeInit
<1>2. vsq = <<>> /\ nsq = <<>> /\ ncq = <<>>
  BY DEF Init
<1>3. \A s : s = <<>> => Once(s) /\ OnceC(s) /\ \A x : ~In(s, x) /\ ~InC(s, x)
  <2>1. \A i : ~(i \in 1 .. Len(<<>>))
    OBVIOUS
  <2> QED BY <2>1 DEF Once, OnceC, In, InC
<1>4. QueuesOnce
  BY <1>2, <1>3 DEF QueuesOnce
<1>5. \A c \in Cid : ~AtFd(c) /\ ~InVsq(c)
  BY <1>2, <1>3, AtFdIn
<1>6. Sound(Zero)
  BY DEF Sound, Zero, Complete, IoState, IoWord, Status
<1>7. ASSUME NEW c \in Cid PROVE Placed(c)
  <2>1. ios[c] = Zero /\ hq[c] = 0 /\ cqe[c] = <<>> /\ fault[c] = {} /\ op[c] = "none"
    BY DEF Init
  <2>2. Len(cqe[c]) <= 1
    BY <2>1
  <2> QED BY <1>5, <1>6, <2>1, <2>2 DEF Placed
<1> QED BY <1>1, <1>4, <1>7 DEF RouterInv

\* A step that leaves a command where it was, or takes it to a place with
\* fewer duties.
LEMMA PlacedStays ==
    ASSUME NEW d \in Cid, Placed(d), ios'[d] = ios[d], cqe'[d] = cqe[d], hq'[d] = hq[d], fault'[d] = fault[d],
           AtFd(d)' => AtFd(d), InVsq(d)' <=> InVsq(d), op'[d] = op[d]
    PROVE  Placed(d)'
  BY DEF Placed

\* Every step keeps the commands in their places, if no command is rejected
\* and none answered twice.
LEMMA PlacedNext == ~MayReject /\ AnswersOnce /\ RouterInv /\ [Next]_vars => RouterInv'
<1> SUFFICES ASSUME ~MayReject, AnswersOnce, RouterInv, [Next]_vars PROVE RouterInv'
  OBVIOUS
<1>1. TypeOK /\ QueuesOnce /\ TypeOK'
  BY TypeNext DEF RouterInv
<1>2. ASSUME NEW c \in Cid, NEW o \in Opcodes, Issue(c, o) PROVE RouterInv'
  <2>1. /\ op[c] = "none" /\ op' = [op EXCEPT ![c] = o] /\ vsq' = Append(vsq, c)
        /\ UNCHANGED <<ios, hq, nsq, ncq>>
    BY <1>2 DEF Issue
  <2>2. cqe' = [cqe EXCEPT ![c] = <<>>] /\ fault' = [fault EXCEPT ![c] = {}]
    BY <1>2 DEF Issue
  <2>3. Placed(c) /\ ~In(vsq, c)
    BY <2>1, AtFdIn DEF RouterInv, Placed
  <2>4. Once(vsq') /\ \A x : In(vsq', x) <=> In(vsq, x) \/ x = c
    BY <1>1, <2>1, <2>3, Appended DEF TypeOK, QueuesOnce
  <2>5. QueuesOnce'
    BY <1>1, <2>1, <2>4 DEF QueuesOnce
  <2>6. \A x : (AtFd(x)' <=> AtFd(x)) /\ (InVsq(x)' <=> InVsq(x) \/ x = c)
    BY <2>1, <2>4, AtFdIn
  <2>7. Placed(c)'
    <3>1. op'[c] # "none"
      BY <1>1, <2>1 DEF TypeOK, Opcodes
    <3>2. cqe'[c] = <<>> /\ fault'[c] = {} /\ Len(cqe'[c]) <= 1
      BY <1>1, <2>2 DEF TypeOK
    <3>3. hq[c] = 0 /\ ~AtFd(c) /\ Sound(ios[c])
      BY <2>1, <2>3 DEF Placed
    <3> QED BY <2>1, <2>6, <3>1, <3>2, <3>3 DEF Placed
  <2>8. ASSUME NEW d \in Cid, d # c PROVE Placed(d)'
    <3>1. op'[d] = op[d] /\ cqe'[d] = cqe[d] /\ fault'[d] = fault[d]
      BY <1>1, <2>1, <2>2, <2>8 DEF TypeOK
    <3>2. Placed(d)
      BY DEF RouterInv
    <3> QED BY <2>1, <2>6, <2>8, <3>1, <3>2, PlacedStays
  <2> QED BY <1>1, <2>5, <2>7, <2>8 DEF RouterInv
<1>3. ASSUME NEW c \in Cid, Reap(c) PROVE RouterInv'
  <2>1. /\ op[c] # "none" /\ cqe[c] # <<>> /\ op' = [op EXCEPT ![c] = "none"]
        /\ UNCHANGED <<vsq, ios, hq, nsq, ncq, cqe, fault>>
    BY <1>3 DEF Reap, kernel
  <2>2. QueuesOnce'
    BY <1>1, <2>1 DEF QueuesOnce
  <2>3. \A x : (AtFd(x)' <=> AtFd(x)) /\ (InVsq(x)' <=> InVsq(x))
    BY <2>1, AtFdIn
  <2>4. Placed(c)'
    <3>1. Placed(c)
      BY DEF RouterInv
    <3>2. ~InVsq(c) /\ hq[c] = 0 /\ ~AtFd(c)
      BY <2>1, <3>1 DEF Placed
    <3> QED BY <2>1, <2>3, <3>1, <3>2 DEF Placed
  <2>5. ASSUME NEW d \in Cid, d # c PROVE Placed(d)'
    <3>1. op'[d] = op[d]
      BY <1>1, <2>1, <2>5 DEF TypeOK
    <3>2. Placed(d)
      BY DEF RouterInv
    <3> QED BY <2>1, <2>3, <3>1, <3>2, PlacedStays
  <2> QED BY <1>1, <2>2, <2>4, <2>5 DEF RouterInv
<1>4. ASSUME NEW c \in Cid, NEW a, NEW ncqR, NEW hqR, Routed(c, a, ncqR, hqR) PROVE RouterInv'
  BY <1>1, <1>4, RoutedPlaced DEF RouterInv
<1>5. ASSUME process_sq PROVE RouterInv'
  BY <1>4, <1>5, SqRouted
<1>6. ASSUME NEW c \in Cid, NEW status \in HqStatus, process_hwq(c, status) PROVE RouterInv'
  BY <1>4, <1>6, HwqRouted DEF TookCompletion
<1>7. ASSUME process_ncq PROVE RouterInv'
  BY <1>4, <1>7, NcqRouted DEF TookCompletion
<1>8. ASSUME NEW n \in 1 .. Len(nsq), NEW status, NEW fwd, Respond(n, status, fwd) PROVE RouterInv'
  <2>1. /\ ncq' = Append(ncq, [c |-> nsq[n], status |-> status, fwd |-> fwd])
        /\ nsq' = SubSeq(nsq, 1, n - 1) \o SubSeq(nsq, n + 1, Len(nsq))
        /\ UNCHANGED <<op, vsq, ios, hq, cqe, fault>>
    BY <1>8 DEF Respond
  <2>2. PICK c \in Cid : c = nsq[n]
    BY <1>1 DEF TypeOK
  <2>3. In(nsq, c)
    BY <2>2 DEF In
  <2>4. ~InC(ncq, c)
    BY <1>1, <2>3 DEF QueuesOnce
  <2>5. /\ \A x : In(nsq', x) => In(nsq, x)
        /\ Once(nsq') /\ ~In(nsq', c)
    BY <1>1, <2>1, <2>2, Removed DEF TypeOK, QueuesOnce
  <2>6. OnceC(ncq') /\ \A x : InC(ncq', x) <=> InC(ncq, x) \/ x = c
    <3>1. PICK r : r = [c |-> nsq[n], status |-> status, fwd |-> fwd]
      OBVIOUS
    <3>2. r.c = c /\ ncq' = Append(ncq, r)
      BY <2>1, <2>2, <3>1
    <3>3. ncq \in Seq(Response) /\ ncq' \in Seq(Response)
      BY <1>1 DEF TypeOK, Response
    <3>4. r \in Response
      <4>1. Len(ncq) \in Nat /\ Len(ncq') = Len(ncq) + 1 /\ ncq'[Len(ncq) + 1] = r
        BY <3>2, <3>3
      <4> QED BY <3>3, <4>1
    <3> QED BY <1>1, <2>4, <3>2, <3>3, <3>4, AppendedC DEF QueuesOnce
  <2>7. QueuesOnce'
    <3>1. \A d \in Cid : ~(In(nsq', d) /\ InC(ncq', d))
      BY <1>1, <2>5, <2>6 DEF QueuesOnce
    <3> QED BY <1>1, <2>1, <2>5, <2>6, <3>1 DEF QueuesOnce
  <2>8. \A x : (AtFd(x)' => AtFd(x)) /\ (InVsq(x)' <=> InVsq(x))
    BY <2>1, <2>3, <2>5, <2>6, AtFdIn
  <2>9. ASSUME NEW d \in Cid PROVE Placed(d)'
    BY <2>1, <2>8, PlacedStays DEF RouterInv
  <2> QED BY <1>1, <2>7, <2>9 DEF RouterInv
<1>9. ASSUME release PROVE RouterInv'
  <2>1. nsq' = <<>> /\ ncq' = <<>> /\ UNCHANGED <<op, vsq, ios, hq, cqe, fault>>
    BY <1>9 DEF release
  <2>2. \A s : s = <<>> => Once(s) /\ OnceC(s) /\ \A x : ~In(s, x) /\ ~InC(s, x)
    <3>1. \A i : ~(i \in 1 .. Len(<<>>))
      OBVIOUS
    <3> QED BY <3>1 DEF Once, OnceC, In, InC
  <2>3. QueuesOnce'
    BY <1>1, <2>1, <2>2 DEF QueuesOnce
  <2>4. \A x : ~AtFd(x)' /\ (InVsq(x)' <=> InVsq(x))
    BY <2>1, <2>2, AtFdIn
  <2>5. ASSUME NEW d \in Cid PROVE Placed(d)'
    BY <2>1, <2>4, PlacedStays DEF RouterInv
  <2> QED BY <1>1, <2>3, <2>5 DEF RouterInv
<1>10. ASSUME UNCHANGED <<op, vsq, ios, hq, nsq, ncq, cqe, fault>> PROVE RouterInv'
  <2>1. QueuesOnce'
    BY <1>1, <1>10 DEF QueuesOnce
  <2>2. \A x : (AtFd(x)' <=> AtFd(x)) /\ (InVsq(x)' <=> InVsq(x))
    BY <1>10, AtFdIn
  <2>3. ASSUME NEW d \in Cid PROVE Placed(d)'
    BY <1>10, <2>2, PlacedStays DEF RouterInv
  <2> QED BY <1>1, <2>1, <2>3 DEF RouterInv
<1>11. ASSUME open \/ (\E p \in Swaps : attach_prog(p)) \/ UNCHANGED vars PROVE RouterInv'
  BY <1>10, <1>11 DEF open, attach_prog, vars, kernel
<1> QED BY <1>1, <1>2, <1>3, <1>5, <1>6, <1>7, <1>8, <1>9, <1>11, NoPiece DEF Next, Device, Uif

\* Every command is free, queued, under way where its send bits say, or
\* completed once: provided translation and host submission do not fail and
\* the userspace function answers once, whichever programs are loaded and
\* changed, however slow the NSQ is, and whenever the userspace function
\* comes and goes.
THEOREM RouterInvariant == ~MayReject /\ AnswersOnce => (Spec => []RouterInv)
<1> SUFFICES ASSUME ~MayReject, AnswersOnce PROVE Spec => []RouterInv
  OBVIOUS
<1>1. RouterInv /\ [Next]_vars => RouterInv'
  BY PlacedNext
<1> QED BY <1>1, PlacedInit, PTL DEF Spec

\* The guest sees one completion per command it issued, if each is answered
\* once.
THEOREM CompletedOnceHolds == ~MayReject /\ AnswersOnce => (Spec => []CompletedOnce)
<1>1. RouterInv => CompletedOnce
  <2> SUFFICES ASSUME RouterInv, NEW c \in Cid PROVE Len(cqe[c]) <= 1 + extra[c]
    BY DEF CompletedOnce
  <2>1. Len(cqe[c]) \in Nat /\ Len(cqe[c]) <= 1 /\ extra[c] \in Nat
    BY DEF RouterInv, TypeOK, Placed
  <2> QED BY <2>1
<1> QED BY <1>1, RouterInvariant, PTL

\* A command is completed only after the host device and the userspace
\* function are through with it, if the function answers each once.
THEOREM NoIoAfterCompletionHolds == ~MayReject /\ AnswersOnce => (Spec => []NoIoAfterCompletion)
<1>1. RouterInv => NoIoAfterCompletion
  BY DEF RouterInv, Placed, NoIoAfterCompletion
<1> QED BY <1>1, RouterInvariant, PTL

(***************************************************************************)
(* What is reported.                                                       *)
(***************************************************************************)
\* An acknowledgement is the status of a word without sends.
LEMMA RoutedAck ==
    ASSUME TypeOK, NEW c \in Cid, NEW a, NEW ncqR, NEW hqR, Routed(c, a, ncqR, hqR)
    PROVE  /\ Acked(c)' => a.st.sends = {} /\ a.st.status = "ok"
           /\ cqe'[c] = <<>> <=> a.st.sends # {}
<1>1. cqe'[c] = IF a.st.sends = {} THEN <<a.st.status>> ELSE <<>>
  <2>1. cqe'[c] = a.done
    BY RoutedEffect
  <2> QED BY <2>1 DEF Routed
<1>2. \A x : <<x>> # <<>> /\ Len(<<x>>) = 1 /\ <<x>>[1] = x
  OBVIOUS
<1>3. \A n \in Nat : n \in 1 .. 1 => n = 1
  OBVIOUS
<1>4. Len(<<>>) = 0
  OBVIOUS
<1>5. CASE a.st.sends = {}
  <2>1. cqe'[c] = <<a.st.status>>
    BY <1>1, <1>5
  <2>2. Len(cqe'[c]) = 1 /\ cqe'[c][1] = a.st.status /\ cqe'[c] # <<>>
    BY <1>2, <2>1
  <2>3. Acked(c)' => a.st.status = "ok"
    BY <2>2 DEF Acked
  <2> QED BY <1>5, <2>2, <2>3
<1>6. CASE a.st.sends # {}
  <2>1. cqe'[c] = <<>> /\ Len(cqe'[c]) = 0
    BY <1>1, <1>4, <1>6
  <2>2. ~Acked(c)'
    BY <2>1 DEF Acked
  <2> QED BY <1>6, <2>1, <2>2
<1> QED BY <1>5, <1>6

\* Nothing is acknowledged to a command that has no completion.
LEMMA NoAck == \A c : (cqe[c] = <<>> => ~Acked(c)) /\ (cqe'[c] = <<>> => ~Acked(c)')
<1>1. \A s : s = <<>> => \A n : ~(n \in 1 .. Len(s))
  <2>1. \A n : ~(n \in 1 .. Len(<<>>))
    OBVIOUS
  <2> QED BY <2>1
<1> QED BY <1>1 DEF Acked

\* A command whose word, completions and failures stay.
LEMMA KeptStays ==
    ASSUME NEW d \in Cid, StatusKept(d), ios'[d] = ios[d], cqe'[d] = cqe[d], fault'[d] = fault[d]
    PROVE  StatusKept(d)'
  BY DEF StatusKept, Acked

\* Every step keeps the failure of a target until it is reported.
LEMMA KeptNext ==
    ASSUME ~MayReject, AnswersOnce, RouterInv, \A c \in Cid : StatusKept(c), [Next]_vars
    PROVE  \A c \in Cid : StatusKept(c)'
<1>1. TypeOK
  BY DEF RouterInv
<1>2. ASSUME NEW c \in Cid, NEW o \in Opcodes, Issue(c, o) PROVE \A d \in Cid : StatusKept(d)'
  <2>1. cqe' = [cqe EXCEPT ![c] = <<>>] /\ fault' = [fault EXCEPT ![c] = {}] /\ ios' = ios
    BY <1>2 DEF Issue
  <2>2. fault'[c] = {}
    BY <1>1, <2>1 DEF TypeOK
  <2>3. StatusKept(c)'
    BY <2>2 DEF StatusKept
  <2>4. ASSUME NEW d \in Cid, d # c PROVE StatusKept(d)'
    <3>1. cqe'[d] = cqe[d] /\ fault'[d] = fault[d] /\ ios'[d] = ios[d]
      BY <1>1, <2>1, <2>4 DEF TypeOK
    <3> QED BY <3>1, KeptStays
  <2> QED BY <2>3, <2>4
<1>3. ASSUME NEW c \in Cid, NEW a, NEW ncqR, NEW hqR, Routed(c, a, ncqR, hqR), StatusKept(c)'
      PROVE  \A d \in Cid : StatusKept(d)'
  <2>1. ASSUME NEW d \in Cid, d # c PROVE StatusKept(d)'
    <3>1. ios'[d] = ios[d] /\ cqe'[d] = cqe[d]
      BY <1>1, <1>3, <2>1, RoutedEffect
    <3>2. fault'[d] = fault[d]
      BY <1>3, <2>1 DEF Routed
    <3> QED BY <3>1, <3>2, KeptStays
  <2> QED BY <1>3, <2>1
<1>4. ASSUME process_sq PROVE \A d \in Cid : StatusKept(d)'
  <2>1. PICK c \in Cid : \E a : InVsq(c) /\ Routed(c, a, ncq, hq) /\ UNCHANGED <<fault, ondev>>
    BY <1>4, SqRouted
  <2>2. PICK a : InVsq(c) /\ Routed(c, a, ncq, hq) /\ UNCHANGED <<fault, ondev>>
    BY <2>1
  <2>3. fault'[c] = {}
    BY <2>2 DEF RouterInv, Placed
  <2>4. StatusKept(c)'
    BY <2>3 DEF StatusKept
  <2> QED BY <1>3, <2>2, <2>4
<1>5. ASSUME NEW c \in Cid, NEW a, NEW tgt \in {"HQ", "FD"}, NEW status, NEW ncqR, NEW hqR,
             TookCompletion(c, a, tgt, status, ncqR, hqR)
      PROVE  \A d \in Cid : StatusKept(d)'
  <2>1. Routed(c, a, ncqR, hqR) /\ tgt \in ios[c].sends
    BY <1>5 DEF TookCompletion
  <2>2. StatusKept(c) /\ cqe[c] = <<>> /\ Sound(ios[c])
    BY <2>1 DEF Routed, RouterInv, Placed
  <2>3. /\ Acked(c)' => a.st.sends = {} /\ a.st.status = "ok"
        /\ cqe'[c] = <<>> <=> a.st.sends # {}
        /\ ios'[c] = a.st
    BY <1>1, <2>1, RoutedAck, RoutedEffect
  <2>4. ASSUME Hooked(c, a, tgt) PROVE StatusKept(c)'
    <3>1. "target" \notin fault[c]
      BY <2>2, <2>4 DEF Hooked, StatusKept
    <3>2. "target" \notin fault'[c]
      BY <2>4, <3>1 DEF Hooked
    <3> QED BY <3>2 DEF StatusKept
  <2>5. ASSUME Updated(c, a, tgt, status), "target" \in fault'[c]
        PROVE  /\ a.st.status # "ok"
               /\ a.st.sends # {} => a.st.cmpl \in {"HQ", "FD"} /\ a.st.cmpl \notin a.st.sends
    <3>1. CASE ios[c].cmpl = tgt /\ status # "ok"
      BY <2>5, <3>1 DEF Updated
    <3>2. CASE ~(ios[c].cmpl = tgt /\ status # "ok")
      <4>1. "target" \in fault[c]
        BY <2>5, <3>2 DEF Updated
      <4>2. ios[c].status # "ok" /\ ios[c].cmpl \in {"HQ", "FD"} /\ ios[c].cmpl \notin ios[c].sends
        BY <2>2, <4>1 DEF StatusKept
      <4> QED BY <2>1, <2>5, <4>2 DEF Updated
    <3> QED BY <3>1, <3>2
  <2>6. ASSUME Updated(c, a, tgt, status) PROVE StatusKept(c)'
    BY <2>3, <2>5, <2>6 DEF StatusKept
  <2>7. StatusKept(c)'
    BY <1>5, <2>4, <2>6 DEF TookCompletion
  <2> QED BY <1>3, <2>1, <2>7
<1>6. ASSUME NEW c \in Cid, NEW status \in HqStatus, process_hwq(c, status) PROVE \A d \in Cid : StatusKept(d)'
  <2>1. PICK a, hqR : TookCompletion(c, a, "HQ", status, ncq, hqR)
    BY <1>6, HwqRouted
  <2> QED BY <1>5, <2>1
<1>7. ASSUME process_ncq PROVE \A d \in Cid : StatusKept(d)'
  <2>1. PICK c \in Cid, status \in Status : \E a, ncqR : TookCompletion(c, a, "FD", status, ncqR, hq)
    BY <1>7, NcqRouted
  <2>2. PICK a, ncqR : TookCompletion(c, a, "FD", status, ncqR, hq)
    BY <2>1
  <2> QED BY <1>5, <2>2
<1>8. ASSUME UNCHANGED <<ios, cqe, fault>> PROVE \A d \in Cid : StatusKept(d)'
  BY <1>8, KeptStays
<1>9. ASSUME NEW c \in Cid, Reap(c) PROVE UNCHANGED <<ios, cqe, fault>>
  BY <1>9 DEF Reap, kernel
<1>10. ASSUME NEW n, NEW status, NEW fwd, Respond(n, status, fwd) PROVE UNCHANGED <<ios, cqe, fault>>
  BY <1>10 DEF Respond
<1>11. ASSUME release \/ open \/ (\E p \in Swaps : attach_prog(p)) \/ UNCHANGED vars
       PROVE  UNCHANGED <<ios, cqe, fault>>
  BY <1>11 DEF release, open, attach_prog, vars, kernel
<1> QED BY <1>1, <1>2, <1>4, <1>6, <1>7, <1>8, <1>9, <1>10, <1>11, NoPiece DEF Next, Device, Uif

\* A failure of the target a command's word waits for is never reported as a
\* success, whichever hooks and sends came before and after, if the userspace
\* function answers each command once.
THEOREM TargetStatusReportedHolds == ~MayReject /\ AnswersOnce => (Spec => []TargetStatusReported)
<1> SUFFICES ASSUME ~MayReject, AnswersOnce PROVE Spec => []TargetStatusReported
  OBVIOUS
<1> DEFINE Kept == \A c \in Cid : StatusKept(c)
<1>1. Init => Kept
  BY DEF Init, StatusKept
<1>2. RouterInv /\ Kept /\ [Next]_vars => Kept'
  BY KeptNext
<1>3. Kept => TargetStatusReported
  BY DEF StatusKept, TargetStatusReported
<1> HIDE DEF Kept
<1> QED BY <1>1, <1>2, <1>3, RouterInvariant, PTL DEF Spec

(***************************************************************************)
(* The send bits.                                                          *)
(***************************************************************************)
\* The userspace function stays, and the NSQ accepts mirrored writes.
Accepted == ~MayExit /\ "replicate" \notin Slow

\* Every step keeps the bits that are set standing for sends under way.
LEMMA BitsNext ==
    ASSUME ~MayReject, AnswersOnce, Accepted, RouterInv, up, \A c \in Cid : BitsSent(c), [Next]_vars
    PROVE  up' /\ \A c \in Cid : BitsSent(c)'
<1>1. TypeOK
  BY DEF RouterInv
<1>2. up'
  BY DEF Next, Issue, Reap, process_sq, Device, process_hwq, Uif, Respond, RespondPiece, process_ncq, release, open,
         attach_prog, vars, kernel, Accepted
<1>3. ASSUME NEW d \in Cid, ios'[d] = ios[d], hq'[d] = hq[d], op'[d] = op[d],
             AtFd(d) => AtFd(d)', InVsq(d) => InVsq(d)'
      PROVE  BitsSent(d)'
  BY <1>3 DEF BitsSent
<1>4. ASSUME NEW c \in Cid, NEW o \in Opcodes, Issue(c, o) PROVE \A d \in Cid : BitsSent(d)'
  <2>1. op' = [op EXCEPT ![c] = o] /\ vsq' = Append(vsq, c) /\ UNCHANGED <<ios, hq, nsq, ncq>>
    BY <1>4 DEF Issue
  <2>2. \A x : (AtFd(x)' <=> AtFd(x)) /\ (InVsq(x)' <=> InVsq(x) \/ x = c)
    <3>1. \A x : In(vsq', x) <=> In(vsq, x) \/ x = c
      BY <1>1, <2>1, Appended DEF TypeOK
    <3> QED BY <2>1, <3>1, AtFdIn
  <2>3. BitsSent(c)'
    BY <2>2 DEF BitsSent
  <2>4. ASSUME NEW d \in Cid, d # c PROVE BitsSent(d)'
    <3>1. op'[d] = op[d]
      BY <1>1, <2>1, <2>4 DEF TypeOK
    <3> QED BY <1>3, <2>1, <2>2, <3>1
  <2> QED BY <2>3, <2>4
<1>5. ASSUME NEW c \in Cid, Reap(c) PROVE \A d \in Cid : BitsSent(d)'
  <2>1. op' = [op EXCEPT ![c] = "none"] /\ UNCHANGED <<vsq, ios, hq, nsq, ncq>>
    BY <1>5 DEF Reap, kernel
  <2>2. \A x : (AtFd(x)' <=> AtFd(x)) /\ (InVsq(x)' <=> InVsq(x))
    BY <2>1, AtFdIn
  <2>3. BitsSent(c)'
    BY <1>1, <2>1 DEF BitsSent, TypeOK
  <2>4. ASSUME NEW d \in Cid, d # c PROVE BitsSent(d)'
    <3>1. op'[d] = op[d]
      BY <1>1, <2>1, <2>4 DEF TypeOK
    <3> QED BY <1>3, <2>1, <2>2, <3>1
  <2> QED BY <2>3, <2>4
<1>6. ASSUME NEW c \in Cid, NEW a, NEW ncqR, NEW hqR, Routed(c, a, ncqR, hqR), BitsSent(c)'
      PROVE  \A d \in Cid : BitsSent(d)'
  <2>1. ASSUME NEW d \in Cid, d # c PROVE BitsSent(d)'
    <3>1. /\ ios'[d] = ios[d] /\ hq'[d] = hq[d] /\ ncq' = ncqR
          /\ In(nsq', d) <=> In(nsq, d) \/ (a.fd /\ d = c)
      BY <1>1, <1>6, <2>1, RoutedEffect
    <3>2. op'[d] = op[d] /\ (InC(ncq, d) => InC(ncqR, d)) /\ (In(vsq', d) <=> In(vsq, d))
      BY <1>6, <2>1 DEF Routed
    <3>3. (AtFd(d) => AtFd(d)') /\ (InVsq(d) => InVsq(d)')
      BY <3>1, <3>2, AtFdIn
    <3> QED BY <1>3, <3>1, <3>2, <3>3
  <2> QED BY <1>6, <2>1
<1>7. ASSUME NEW c \in Cid, NEW a, NEW ncqR, NEW hqR, Routed(c, a, ncqR, hqR), Fresh(a)
      PROVE  BitsSent(c)'
  <2>1. /\ ios'[c] = a.st /\ hq'[c] = IF a.hq THEN hqR[c] + 1 ELSE hqR[c]
        /\ In(nsq', c) <=> In(nsq, c) \/ (a.fd /\ c = c)
    BY <1>1, <1>7, RoutedEffect
  <2>2. "HQ" \in a.st.sends => a.hq
    BY <1>7 DEF Fresh, Accepted
  <2>3. a.hq => hq'[c] = 1
    BY <1>7, <2>1 DEF Routed
  <2>4. "FD" \in a.st.sends => AtFd(c)'
    BY <1>7, <2>1, AtFdIn DEF Fresh
  <2> QED BY <2>1, <2>2, <2>3, <2>4 DEF BitsSent
<1>8. ASSUME process_sq PROVE \A d \in Cid : BitsSent(d)'
  <2>1. PICK c \in Cid : \E a : Routed(c, a, ncq, hq) /\ Fresh(a)
    BY <1>8, SqRouted
  <2> QED BY <1>6, <1>7, <2>1
<1>9. ASSUME NEW c \in Cid, NEW a, NEW tgt \in {"HQ", "FD"}, NEW status, NEW ncqR, NEW hqR,
             TookCompletion(c, a, tgt, status, ncqR, hqR)
      PROVE  \A d \in Cid : BitsSent(d)'
  <2>1. /\ Routed(c, a, ncqR, hqR) /\ ~InVsq(c)
        /\ tgt = "FD" => hqR = hq
        /\ tgt = "HQ" => ncqR = ncq
    BY <1>9 DEF TookCompletion
  <2>2. ASSUME Hooked(c, a, tgt) PROVE BitsSent(c)'
    BY <1>7, <2>1, <2>2 DEF Hooked
  <2>3. ASSUME Updated(c, a, tgt, status) PROVE BitsSent(c)'
    <3>1. /\ ios'[c] = a.st /\ ncq' = ncqR
          /\ hq'[c] = IF a.hq THEN hqR[c] + 1 ELSE hqR[c]
          /\ In(nsq', c) <=> In(nsq, c) \/ (a.fd /\ c = c)
      BY <1>1, <2>1, RoutedEffect
    <3>2. ~a.hq /\ ~a.fd /\ a.st.sends = ios[c].sends \ {tgt}
      BY <2>3 DEF Updated
    <3>3. BitsSent(c) /\ op[c] # "none"
      BY <2>1 DEF Routed
    <3>4. ("HQ" \in ios[c].sends => hq[c] = 1) /\ ("FD" \in ios[c].sends => AtFd(c))
      BY <2>1, <3>3 DEF BitsSent
    <3>5. "HQ" \in a.st.sends => hq'[c] = 1
      BY <2>1, <3>1, <3>2, <3>4
    <3>6. "FD" \in a.st.sends => AtFd(c)'
      BY <2>1, <3>1, <3>2, <3>4, AtFdIn
    <3> QED BY <3>1, <3>5, <3>6 DEF BitsSent
  <2>4. BitsSent(c)'
    BY <1>9, <2>2, <2>3 DEF TookCompletion
  <2> QED BY <1>6, <2>1, <2>4
<1>10. ASSUME NEW c \in Cid, NEW status \in HqStatus, process_hwq(c, status) PROVE \A d \in Cid : BitsSent(d)'
  <2>1. PICK a, hqR : TookCompletion(c, a, "HQ", status, ncq, hqR)
    BY <1>10, HwqRouted
  <2> QED BY <1>9, <2>1
<1>11. ASSUME process_ncq PROVE \A d \in Cid : BitsSent(d)'
  <2>1. PICK c \in Cid, status \in Status : \E a, ncqR : TookCompletion(c, a, "FD", status, ncqR, hq)
    BY <1>11, NcqRouted
  <2>2. PICK a, ncqR : TookCompletion(c, a, "FD", status, ncqR, hq)
    BY <2>1
  <2> QED BY <1>9, <2>2
<1>12. ASSUME NEW n \in 1 .. Len(nsq), NEW status \in FdStatus, NEW fwd \in BOOLEAN, Respond(n, status, fwd)
       PROVE  \A d \in Cid : BitsSent(d)'
  <2>1. /\ ncq' = Append(ncq, [c |-> nsq[n], status |-> status, fwd |-> fwd])
        /\ nsq' = SubSeq(nsq, 1, n - 1) \o SubSeq(nsq, n + 1, Len(nsq))
        /\ UNCHANGED <<op, vsq, ios, hq>>
    BY <1>12 DEF Respond
  <2>2. PICK c \in Cid : c = nsq[n]
    BY <1>1 DEF TypeOK
  <2>3. \A x : In(nsq, x) /\ x # c => In(nsq', x)
    BY <1>1, <2>1, <2>2, Removed DEF TypeOK
  <2>4. \A x : InC(ncq', x) <=> InC(ncq, x) \/ x = c
    <3>1. PICK r : r = [c |-> nsq[n], status |-> status, fwd |-> fwd]
      OBVIOUS
    <3>2. r \in Response /\ r.c = c
      BY <2>2, <3>1 DEF Response, FdStatus, Status
    <3> QED BY <1>1, <2>1, <3>1, <3>2, AppendedC DEF TypeOK, Response
  <2>5. \A x : (AtFd(x) => AtFd(x)') /\ (InVsq(x)' <=> InVsq(x))
    BY <2>1, <2>3, <2>4, AtFdIn
  <2> QED BY <1>3, <2>1, <2>5
<1>13. ASSUME open \/ (\E p \in Swaps : attach_prog(p)) \/ UNCHANGED vars PROVE \A d \in Cid : BitsSent(d)'
  <2>1. UNCHANGED <<op, vsq, ios, hq, nsq, ncq>>
    BY <1>13 DEF open, attach_prog, vars, kernel
  <2>2. \A x : (AtFd(x) => AtFd(x)') /\ (InVsq(x)' <=> InVsq(x))
    BY <2>1, AtFdIn
  <2> QED BY <1>3, <2>1, <2>2
<1>14. ~release
  BY DEF release, Accepted
<1>15. ASSUME Uif PROVE \A d \in Cid : BitsSent(d)'
  <2>1. PICK n \in 1 .. Len(nsq), status \in FdStatus, fwd \in BOOLEAN : Respond(n, status, fwd /\ prog = "xcow")
    BY <1>15 DEF Uif
  <2>2. PICK f \in BOOLEAN : f = (fwd /\ prog = "xcow")
    OBVIOUS
  <2> QED BY <1>12, <2>1, <2>2
<1> QED BY <1>1, <1>2, <1>4, <1>5, <1>8, <1>10, <1>11, <1>13, <1>14, <1>15, NoPiece DEF Next, Device

\* The send bits of a word are exactly the sends under way, unless the NSQ
\* refuses a mirrored write or is closed, or a command is answered twice.
THEOREM SendBitsMatchHolds == ~MayReject /\ AnswersOnce /\ Accepted => (Spec => []SendBitsMatch)
<1> SUFFICES ASSUME ~MayReject, AnswersOnce, Accepted PROVE Spec => []SendBitsMatch
  OBVIOUS
<1> DEFINE Bits == up /\ \A c \in Cid : BitsSent(c)
<1>1. Init => Bits
  BY DEF Init, BitsSent
<1>2. RouterInv /\ Bits /\ [Next]_vars => Bits'
  BY BitsNext
<1>3. RouterInv /\ Bits => SendBitsMatch
  BY DEF RouterInv, Placed, BitsSent, SendBitsMatch
<1> HIDE DEF Bits
<1> QED BY <1>1, <1>2, <1>3, RouterInvariant, PTL DEF Spec

(***************************************************************************)
(* Acknowledged writes.                                                    *)
(***************************************************************************)
\* Every step keeps a direct program's words waiting for the host queue.
LEMMA WrittenNext ==
    ASSUME ~MayReject, AnswersOnce, Swaps \intersect Direct = {}, RouterInv, \A c \in Cid : WrittenFirst(c), [Next]_vars
    PROVE  \A c \in Cid : WrittenFirst(c)'
<1>1. TypeOK
  BY DEF RouterInv
<1>2. ASSUME NEW d \in Cid, prog' = prog, ios'[d] = ios[d], cqe'[d] = cqe[d], op'[d] = op[d], ondev'[d] = ondev[d],
             InVsq(d) <=> InVsq(d)'
      PROVE  WrittenFirst(d)'
  BY <1>2 DEF WrittenFirst, Acked
<1>3. ASSUME NEW c \in Cid, NEW o \in Opcodes, Issue(c, o) PROVE \A d \in Cid : WrittenFirst(d)'
  <2>1. op' = [op EXCEPT ![c] = o] /\ vsq' = Append(vsq, c) /\ UNCHANGED <<prog, ios>>
    BY <1>3 DEF Issue
  <2>2. cqe' = [cqe EXCEPT ![c] = <<>>] /\ ondev' = [ondev EXCEPT ![c] = FALSE]
    BY <1>3 DEF Issue
  <2>3. \A x : InVsq(x)' <=> InVsq(x) \/ x = c
    <3>1. \A x : In(vsq', x) <=> In(vsq, x) \/ x = c
      BY <1>1, <2>1, Appended DEF TypeOK
    <3> QED BY <3>1, AtFdIn
  <2>4. WrittenFirst(c)'
    BY <2>3 DEF WrittenFirst
  <2>5. ASSUME NEW d \in Cid, d # c PROVE WrittenFirst(d)'
    <3>1. op'[d] = op[d] /\ cqe'[d] = cqe[d] /\ ondev'[d] = ondev[d] /\ ios'[d] = ios[d]
      BY <1>1, <2>1, <2>2, <2>5 DEF TypeOK
    <3>2. InVsq(d) <=> InVsq(d)'
      BY <2>3, <2>5
    <3> QED BY <1>2, <2>1, <3>1, <3>2
  <2> QED BY <2>4, <2>5
<1>4. ASSUME NEW c \in Cid, Reap(c) PROVE \A d \in Cid : WrittenFirst(d)'
  <2>1. op' = [op EXCEPT ![c] = "none"] /\ UNCHANGED <<prog, vsq, ios, cqe, ondev>>
    BY <1>4 DEF Reap, kernel
  <2>2. \A x : InVsq(x)' <=> InVsq(x)
    BY <2>1, AtFdIn
  <2>3. WrittenFirst(c)'
    BY <1>1, <2>1 DEF WrittenFirst, TypeOK
  <2>4. ASSUME NEW d \in Cid, d # c PROVE WrittenFirst(d)'
    <3>1. op'[d] = op[d]
      BY <1>1, <2>1, <2>4 DEF TypeOK
    <3> QED BY <1>2, <2>1, <2>2, <3>1
  <2> QED BY <2>3, <2>4
<1>5. ASSUME NEW c \in Cid, NEW a, NEW ncqR, NEW hqR, Routed(c, a, ncqR, hqR), WrittenFirst(c)'
      PROVE  \A d \in Cid : WrittenFirst(d)'
  <2>1. ASSUME NEW d \in Cid, d # c PROVE WrittenFirst(d)'
    <3>1. ios'[d] = ios[d] /\ cqe'[d] = cqe[d]
      BY <1>1, <1>5, <2>1, RoutedEffect
    <3>2. op'[d] = op[d] /\ ondev'[d] = ondev[d] /\ prog' = prog /\ (In(vsq', d) <=> In(vsq, d))
      BY <1>5, <2>1 DEF Routed
    <3>3. InVsq(d) <=> InVsq(d)'
      BY <3>2, AtFdIn
    <3> QED BY <1>2, <3>1, <3>2, <3>3
  <2> QED BY <1>5, <2>1
<1>6. ASSUME NEW c \in Cid, NEW a, NEW ncqR, NEW hqR, Routed(c, a, ncqR, hqR), Fresh(a)
      PROVE  WrittenFirst(c)'
  <2>1. ios'[c] = a.st /\ prog' = prog
    <3>1. ios'[c] = a.st
      BY <1>1, <1>6, RoutedEffect
    <3> QED BY <1>6, <3>1 DEF Routed
  <2>2. Acked(c)' => a.st.sends = {}
    BY <1>1, <1>6, RoutedAck
  <2> QED BY <1>6, <2>1, <2>2 DEF WrittenFirst, Fresh
<1>7. ASSUME process_sq PROVE \A d \in Cid : WrittenFirst(d)'
  <2>1. PICK c \in Cid : \E a : Routed(c, a, ncq, hq) /\ Fresh(a)
    BY <1>7, SqRouted
  <2> QED BY <1>5, <1>6, <2>1
<1>8. ASSUME NEW c \in Cid, NEW a, NEW tgt \in {"HQ", "FD"}, NEW status, NEW ncqR, NEW hqR,
             TookCompletion(c, a, tgt, status, ncqR, hqR)
      PROVE  \A d \in Cid : WrittenFirst(d)'
  <2>1. Routed(c, a, ncqR, hqR) /\ ~InVsq(c)
    BY <1>8 DEF TookCompletion
  <2>2. ASSUME Hooked(c, a, tgt) PROVE WrittenFirst(c)'
    BY <1>6, <2>1, <2>2 DEF Hooked
  <2>3. ASSUME Updated(c, a, tgt, status), prog \in Direct
        PROVE  /\ a.st.hooks = {}
               /\ a.st.sends # {} => a.st.cmpl = "HQ"
               /\ "HQ" \in a.st.sends \/ a.st.status # "ok" \/ ondev'[c]
    <3>1. op[c] # "none" /\ cqe[c] = <<>>
      BY <2>1 DEF Routed
    <3>2. /\ ios[c].hooks = {} /\ ios[c].cmpl = "HQ"
          /\ "HQ" \in ios[c].sends \/ ios[c].status # "ok" \/ ondev[c]
      BY <2>1, <2>3, <3>1 DEF WrittenFirst
    <3>3. ondev'[c] = (ondev[c] \/ (tgt = "HQ" /\ status = "ok"))
      BY <1>1, <1>8 DEF TookCompletion, TypeOK
    <3>4. a.st.hooks = {} /\ (a.st.sends # {} => a.st.cmpl = "HQ")
      BY <2>3, <3>2 DEF Updated
    <3>5. CASE tgt = "HQ"
      BY <2>3, <3>2, <3>3, <3>4, <3>5 DEF Updated
    <3>6. CASE tgt = "FD"
      BY <2>3, <3>2, <3>3, <3>4, <3>6 DEF Updated
    <3> QED BY <3>5, <3>6
  <2>4. ASSUME Updated(c, a, tgt, status) PROVE WrittenFirst(c)'
    <3>1. ios'[c] = a.st /\ prog' = prog
      <4>1. ios'[c] = a.st
        BY <1>1, <2>1, RoutedEffect
      <4> QED BY <2>1, <4>1 DEF Routed
    <3>2. /\ Acked(c)' => a.st.sends = {} /\ a.st.status = "ok"
          /\ cqe'[c] = <<>> <=> a.st.sends # {}
      BY <1>1, <2>1, RoutedAck
    <3> QED BY <2>3, <2>4, <3>1, <3>2 DEF WrittenFirst
  <2>5. WrittenFirst(c)'
    BY <1>8, <2>2, <2>4 DEF TookCompletion
  <2> QED BY <1>5, <2>1, <2>5
<1>9. ASSUME NEW c \in Cid, NEW status \in HqStatus, process_hwq(c, status) PROVE \A d \in Cid : WrittenFirst(d)'
  <2>1. PICK a, hqR : TookCompletion(c, a, "HQ", status, ncq, hqR)
    BY <1>9, HwqRouted
  <2> QED BY <1>8, <2>1
<1>10. ASSUME process_ncq PROVE \A d \in Cid : WrittenFirst(d)'
  <2>1. PICK c \in Cid, status \in Status : \E a, ncqR : TookCompletion(c, a, "FD", status, ncqR, hq)
    BY <1>10, NcqRouted
  <2>2. PICK a, ncqR : TookCompletion(c, a, "FD", status, ncqR, hq)
    BY <2>1
  <2> QED BY <1>8, <2>2
<1>11. ASSUME UNCHANGED <<prog, op, vsq, ios, cqe, ondev>> PROVE \A d \in Cid : WrittenFirst(d)'
  <2>1. \A x : InVsq(x)' <=> InVsq(x)
    BY <1>11, AtFdIn
  <2> QED BY <1>2, <1>11, <2>1
<1>12. ASSUME NEW n, NEW status, NEW fwd, Respond(n, status, fwd) PROVE \A d \in Cid : WrittenFirst(d)'
  BY <1>11, <1>12 DEF Respond
<1>13. ASSUME release \/ open \/ UNCHANGED vars PROVE \A d \in Cid : WrittenFirst(d)'
  BY <1>11, <1>13 DEF release, open, vars, kernel
<1>14. ASSUME NEW p \in Swaps, attach_prog(p) PROVE \A d \in Cid : WrittenFirst(d)'
  <2>1. prog' \notin Direct
    BY <1>14 DEF attach_prog
  <2> QED BY <2>1 DEF WrittenFirst
<1> QED BY <1>1, <1>3, <1>4, <1>7, <1>9, <1>10, <1>12, <1>13, <1>14, NoPiece DEF Next, Device, Uif

\* A write the guest is told has succeeded is on the host device, for the
\* programs that leave the writing to the host queue, loaded from the start.
THEOREM AckedWriteOnDeviceHolds ==
    ~MayReject /\ AnswersOnce /\ Swaps \intersect Direct = {} => (Spec => []AckedWriteOnDevice)
<1> SUFFICES ASSUME ~MayReject, AnswersOnce, Swaps \intersect Direct = {} PROVE Spec => []AckedWriteOnDevice
  OBVIOUS
<1> DEFINE Written == \A c \in Cid : WrittenFirst(c)
<1>1. Init => Written
  BY DEF Init, WrittenFirst
<1>2. RouterInv /\ Written /\ [Next]_vars => Written'
  BY WrittenNext
<1>3. RouterInv /\ Written => AckedWriteOnDevice
  <2> SUFFICES ASSUME RouterInv, Written, NEW c \in Cid, prog \in Direct, op[c] = "write", Acked(c) PROVE ondev[c]
    BY DEF AckedWriteOnDevice, Direct
  <2>1. cqe[c] # <<>>
    BY NoAck
  <2>2. ~InVsq(c)
    BY <2>1 DEF RouterInv, Placed
  <2> QED BY <2>2 DEF WrittenFirst
<1> HIDE DEF Written
<1> QED BY <1>1, <1>2, <1>3, RouterInvariant, PTL DEF Spec
=============================================================================
