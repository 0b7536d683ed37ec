--------------------------- MODULE IoThreadProofs ---------------------------
(***************************************************************************)
(* Proofs about the iothreads, for every number of threads, controllers    *)
(* and queue entries: a controller is polled by one thread at a time, and  *)
(* one that went to sleep has nothing left to do.                          *)
(***************************************************************************)
EXTENDS IoThread, FiniteSetTheorems, WellFoundedInduction, TLAPS

(***************************************************************************)
(* Induction over lists: what Without returns.                             *)
(***************************************************************************)

\* A nonempty set of natural numbers has a least element.
LEMMA LeastNat == ASSUME NEW T, T \subseteq Nat, T # {} PROVE \E x \in T : \A y \in T : x <= y
<1>1. PICK R : R = {p \in Nat \X Nat : p[1] < p[2]}
  OBVIOUS
<1>2. IsWellFoundedOn(R, Nat)
  BY <1>1, NatLessThanWellFounded DEF OpToRel
<1>3. PICK x \in T : \A y \in T : ~(<<y, x>> \in R)
  BY <1>2, WFMin
<1>4. \A y \in T : ~(y < x)
  BY <1>1, <1>3
<1> QED BY <1>4

\* Induction, over a set.
LEMMA NatSteps ==
    ASSUME NEW S, 0 \in S, \A n \in Nat : n \in S => n + 1 \in S
    PROVE  \A n \in Nat : n \in S
<1> SUFFICES ASSUME NEW m \in Nat, m \notin S PROVE FALSE
  OBVIOUS
<1>1. PICK x \in Nat \ S : \A y \in Nat \ S : x <= y
  BY LeastNat
<1>2. x # 0 /\ x - 1 \in Nat
  BY <1>1
<1>3. x - 1 \in S
  BY <1>1, <1>2
<1> QED BY <1>1, <1>2, <1>3

\* The recursion of Without.
Kept(g, s, S, n) == IF s[n] \in S THEN g[n - 1] ELSE Append(g[n - 1], s[n])

Keeps(g, s, S, m) == g[0] = <<>> /\ \A k \in 1 .. m : g[k] = Kept(g, s, S, k)

\* It can be extended by one element.
LEMMA KeptExtends ==
    ASSUME NEW B, NEW s \in Seq(B), NEW S, NEW m \in Nat, m + 1 <= Len(s),
           NEW g \in [0 .. m -> Seq(B)], Keeps(g, s, S, m)
    PROVE  \E h \in [0 .. m + 1 -> Seq(B)] : Keeps(h, s, S, m + 1)
<1>1. s[m + 1] \in B /\ g[m] \in Seq(B)
  OBVIOUS
<1>2. \A r \in Seq(B), e \in B : Append(r, e) \in Seq(B)
  OBVIOUS
<1> DEFINE v == IF s[m + 1] \in S THEN g[m] ELSE Append(g[m], s[m + 1])
<1>3. v \in Seq(B)
  BY <1>1, <1>2
<1> HIDE DEF v
<1> DEFINE h == [k \in 0 .. m + 1 |-> IF k <= m THEN g[k] ELSE v]
<1>4. h \in [0 .. m + 1 -> Seq(B)] /\ (\A k \in 0 .. m : h[k] = g[k]) /\ h[m + 1] = v
  BY <1>3
<1> HIDE DEF h
<1>6. ASSUME NEW k \in 1 .. m PROVE h[k] = Kept(h, s, S, k)
  <2>1. k \in 0 .. m /\ k - 1 \in 0 .. m
    OBVIOUS
  <2>2. h[k] = g[k] /\ h[k - 1] = g[k - 1]
    BY <1>4, <2>1
  <2> QED BY <2>2 DEF Keeps, Kept
<1>7. h[m + 1] = Kept(h, s, S, m + 1)
  <2>1. m + 1 - 1 = m /\ h[m] = g[m]
    BY <1>4
  <2> QED BY <1>4, <2>1 DEF Kept, v
<1>8. \A k \in 1 .. m + 1 : k \in 1 .. m \/ k = m + 1
  OBVIOUS
<1>9. h[0] = <<>>
  BY <1>4 DEF Keeps
<1>10. Keeps(h, s, S, m + 1)
  BY <1>6, <1>7, <1>8, <1>9 DEF Keeps
<1> QED BY <1>4, <1>10

\* It defines a function.
LEMMA KeptExists ==
    ASSUME NEW B, NEW s \in Seq(B), NEW S, NEW L \in Nat, L = Len(s)
    PROVE  \E g \in [0 .. L -> Seq(B)] : Keeps(g, s, S, L)
<1> DEFINE P == {m \in Nat : m <= L => \E g \in [0 .. m -> Seq(B)] : Keeps(g, s, S, m)}
<1>2. 0 \in P
  <2>1. <<>> \in Seq(B)
    OBVIOUS
  <2>2. [k \in 0 .. 0 |-> <<>>] \in [0 .. 0 -> Seq(B)]
    BY <2>1
  <2>3. Keeps([k \in 0 .. 0 |-> <<>>], s, S, 0)
    BY DEF Keeps
  <2> QED BY <2>2, <2>3
<1>3. ASSUME NEW m \in Nat, m \in P PROVE m + 1 \in P
  <2> SUFFICES ASSUME m + 1 <= L PROVE \E g \in [0 .. m + 1 -> Seq(B)] : Keeps(g, s, S, m + 1)
    OBVIOUS
  <2>1. PICK g \in [0 .. m -> Seq(B)] : Keeps(g, s, S, m)
    BY <1>3
  <2> QED BY <2>1, KeptExtends
<1>4. L \in P
  <2> HIDE DEF P
  <2> QED BY <1>2, <1>3, NatSteps
<1> QED BY <1>4

\* Appending to a list.
LEMMA AddedLast ==
    ASSUME NEW B, NEW r \in Seq(B), NEW x \in B
    PROVE  Append(r, x) \in Seq(B) /\ Range(Append(r, x)) = Range(r) \union {x}
<1>1. PICK n \in Nat : n = Len(r)
  OBVIOUS
<1>2. /\ Append(r, x) \in Seq(B) /\ DOMAIN Append(r, x) = 1 .. n + 1 /\ DOMAIN r = 1 .. n
      /\ Append(r, x)[n + 1] = x /\ \A k \in 1 .. n : Append(r, x)[k] = r[k]
  BY <1>1
<1>3. \A k \in 1 .. n + 1 : k \in 1 .. n \/ k = n + 1
  OBVIOUS
<1>4. n + 1 \in 1 .. n + 1 /\ \A k \in 1 .. n : k \in 1 .. n + 1
  OBVIOUS
<1> QED BY <1>2, <1>3, <1>4 DEF Range

\* Appending something new.
LEMMA AddedNew ==
    ASSUME NEW B, NEW r \in Seq(B), NEW x \in B, IsInjective(r), x \notin Range(r)
    PROVE  IsInjective(Append(r, x))
<1>1. PICK n \in Nat : n = Len(r)
  OBVIOUS
<1>2. /\ DOMAIN Append(r, x) = 1 .. n + 1 /\ DOMAIN r = 1 .. n
      /\ Append(r, x)[n + 1] = x /\ \A k \in 1 .. n : Append(r, x)[k] = r[k] /\ r[k] # x
  BY <1>1 DEF Range
<1>3. \A k \in 1 .. n + 1 : k \in 1 .. n \/ k = n + 1
  OBVIOUS
<1>4. ASSUME NEW a \in 1 .. n + 1, NEW b \in 1 .. n + 1, Append(r, x)[a] = Append(r, x)[b] PROVE a = b
  <2>1. CASE a \in 1 .. n /\ b \in 1 .. n
    <3>1. r[a] = r[b]
      BY <1>2, <1>4, <2>1
    <3> QED BY <1>2, <2>1, <3>1 DEF IsInjective
  <2>2. CASE a = n + 1 /\ b \in 1 .. n
    BY <1>2, <1>4, <2>2
  <2>3. CASE a \in 1 .. n /\ b = n + 1
    BY <1>2, <1>4, <2>3
  <2> QED BY <1>3, <2>1, <2>2, <2>3
<1>5. \A a, b \in DOMAIN Append(r, x) : Append(r, x)[a] = Append(r, x)[b] => a = b
  BY <1>2, <1>4
<1> QED BY <1>5 DEF IsInjective

\* What Without returns.
LEMMA WithoutSpec ==
    ASSUME NEW B, NEW s \in Seq(B), NEW S
    PROVE  /\ Without(s, S) \in Seq(B)
           /\ Range(Without(s, S)) = Range(s) \ S
           /\ IsInjective(s) => IsInjective(Without(s, S))
<1>1. PICK L \in Nat : L = Len(s)
  OBVIOUS
<1>2. PICK g0 \in [0 .. L -> Seq(B)] : Keeps(g0, s, S, L)
  BY <1>1, KeptExists
<1> DEFINE R(f) == [n \in 0 .. Len(s) |-> IF n = 0 THEN <<>>
                                  ELSE IF s[n] \in S THEN f[n - 1]
                                  ELSE Append(f[n - 1], s[n])]
<1>3. g0 = R(g0)
  <2>1. \A n \in 0 .. Len(s) : n = 0 \/ n \in 1 .. L
    BY <1>1
  <2>2. \A n \in 0 .. Len(s) : g0[n] = IF n = 0 THEN <<>>
                                  ELSE IF s[n] \in S THEN g0[n - 1]
                                  ELSE Append(g0[n - 1], s[n])
    BY <1>2, <2>1 DEF Keeps, Kept
  <2> QED BY <1>1, <2>2
<1>4. PICK g : g = R(g) /\ Without(s, S) = g[Len(s)]
  <2>1. PICK g : g = CHOOSE f : f = R(f)
    OBVIOUS
  <2>2. g = R(g)
    BY <1>3, <2>1
  <2>3. Without(s, S) = g[Len(s)]
    BY <2>1 DEF Without
  <2> QED BY <2>2, <2>3
<1> HIDE DEF R
<1>5. Keeps(g, s, S, L)
  <2>1. \A n \in 0 .. L : g[n] = IF n = 0 THEN <<>>
                               ELSE IF s[n] \in S THEN g[n - 1]
                               ELSE Append(g[n - 1], s[n])
    BY <1>1, <1>4 DEF R
  <2>2. 0 \in 0 .. L /\ \A n \in 1 .. L : n \in 0 .. L /\ n # 0
    OBVIOUS
  <2> QED BY <2>1, <2>2 DEF Keeps, Kept
<1> DEFINE Q == {n \in Nat : n <= L =>
                   /\ g[n] \in Seq(B)
                   /\ Range(g[n]) = {s[j] : j \in 1 .. n} \ S
                   /\ IsInjective(s) => IsInjective(g[n])}
<1>6. 0 \in Q
  <2>1. g[0] = <<>>
    BY <1>5 DEF Keeps
  <2>2. <<>> \in Seq(B) /\ DOMAIN <<>> = {} /\ {s[j] : j \in 1 .. 0} = {}
    OBVIOUS
  <2> QED BY <2>1, <2>2 DEF Range, IsInjective
<1>7. ASSUME NEW n \in Nat, n \in Q PROVE n + 1 \in Q
  <2> SUFFICES ASSUME n + 1 <= L
               PROVE  /\ g[n + 1] \in Seq(B)
                      /\ Range(g[n + 1]) = {s[j] : j \in 1 .. n + 1} \ S
                      /\ IsInjective(s) => IsInjective(g[n + 1])
    OBVIOUS
  <2>1. g[n + 1] = IF s[n + 1] \in S THEN g[n] ELSE Append(g[n], s[n + 1])
    <3>1. n + 1 \in 1 .. L /\ n + 1 - 1 = n
      OBVIOUS
    <3> QED BY <1>5, <3>1 DEF Keeps, Kept
  <2>2. PICK r \in Seq(B) : r = g[n]
    BY <1>7
  <2>3. Range(r) = {s[j] : j \in 1 .. n} \ S /\ (IsInjective(s) => IsInjective(r))
    BY <1>7, <2>2
  <2>4. PICK x \in B : x = s[n + 1]
    BY <1>1
  <2>5. {s[j] : j \in 1 .. n + 1} = {s[j] : j \in 1 .. n} \union {x}
    <3>1. 1 .. n + 1 = (1 .. n) \union {n + 1}
      OBVIOUS
    <3>2. PICK m : m = n + 1
      OBVIOUS
    <3> QED BY <2>4, <3>1, <3>2
  <2>6. CASE x \in S
    BY <2>1, <2>2, <2>3, <2>4, <2>5, <2>6
  <2>7. CASE x \notin S
    <3>1. g[n + 1] = Append(r, x)
      BY <2>1, <2>2, <2>4, <2>7
    <3>2. Append(r, x) \in Seq(B) /\ Range(Append(r, x)) = Range(r) \union {x}
      BY AddedLast
    <3>3. ASSUME IsInjective(s) PROVE x \notin Range(r)
      <4>1. \A j \in 1 .. n : s[j] # s[n + 1]
        BY <1>1, <3>3 DEF IsInjective
      <4> QED BY <2>3, <2>4, <4>1
    <3>4. ASSUME IsInjective(s) PROVE IsInjective(Append(r, x))
      <4>1. IsInjective(r) /\ x \notin Range(r)
        BY <2>3, <3>3, <3>4
      <4> QED BY <4>1, AddedNew
    <3> QED BY <2>3, <2>5, <2>7, <3>1, <3>2, <3>4
  <2> QED BY <2>6, <2>7
<1>8. L \in Q
  <2> HIDE DEF Q
  <2> QED BY <1>6, <1>7, NatSteps
<1>9. g[L] \in Seq(B) /\ Range(g[L]) = {s[j] : j \in 1 .. L} \ S /\ (IsInjective(s) => IsInjective(g[L]))
  BY <1>8
<1>10. Range(s) = {s[j] : j \in 1 .. L}
  BY <1>1 DEF Range
<1> QED BY <1>1, <1>4, <1>9, <1>10

(***************************************************************************)
(* The inductive invariant.                                                *)
(***************************************************************************)
Visiting == {"poll", "drain", "trylock", "event", "suspend"}
Job == [pc : {"off", "pause", "del", "null", "bind", "add"}, c : Vctrl \union {None}, to : Thread,
        old : BOOLEAN, i : Thread, n : Nat, b : Binding \union {None}]

\* Types of what IoTypeOK leaves out.
JobTypes ==
    /\ wr \in [Writers -> Job]
    /\ \A w \in Writers : wr[w].pc # "off" => wr[w].c \in Vctrl
    /\ io_idle \in [Vctrl -> BOOLEAN] /\ paused \in [Vctrl -> BOOLEAN]
    /\ guest \in [Vctrl -> {"run", "wrote", "mmio"}]

Listed(t, b) == b \in Range(bindings[t])
Homed(b)     == \E t \in Thread : Listed(t, b)

\* A list holds a binding once, no two lists the same one, and each is the
\* binding its controller refers to.
Lists ==
    /\ \A t \in Thread : IsInjective(bindings[t])
    /\ \A t, u \in Thread : \A b \in Binding : Listed(t, b) /\ Listed(u, b) => t = u
    /\ \A b \in Binding : Homed(b) => bs[b].vctrl \in Vctrl /\ binding[bs[b].vctrl] = b
    /\ \A c \in Vctrl : binding[c] # None => bs[binding[c]].vctrl = c

\* A pass goes over bindings of the thread's list, in the state each loop
\* asks for.
Visit(t) ==
    /\ InPass(t) => \A b \in Range(todo[t]) : Listed(t, b)
    /\ at[t] \in Visiting => todo[t] # <<>>
    /\ at[t] = "poll" => bs[Cur(t)].state = "BEGUN"
    /\ at[t] = "drain" => bs[Cur(t)].state # "ZERO"

\* What a writer has removed stays out of the lists until it adds it again.
Moving(w) ==
    /\ wr[w].pc = "null" => wr[w].n > 0
    /\ wr[w].pc \in {"pause", "del", "null", "bind"} /\ wr[w].n > 0 =>
          \A b \in Binding : bs[b].vctrl = wr[w].c => ~Homed(b)
    /\ wr[w].pc = "add" => wr[w].b \in Binding /\ binding[wr[w].c] = wr[w].b /\ ~Homed(wr[w].b)
    /\ wr[w].pc # "add" => wr[w].b = None

PollInv == IoTypeOK /\ JobTypes /\ Lists /\ (\A t \in Thread : Visit(t)) /\ (\A w \in Writers : Moving(w))

\* At most one process writes iothread_idx.
OneWriter == \A w, x \in Writers : w = x

\* No completion the guest is to be interrupted for is left.
Seen(c) == irq[c] => vq[c].unread = 0

\* What going to sleep is about, of the controllers' state.
quietVars == <<io_idle, paused, irq, vq, hw, guest>>

\* The visit that is going to sleep found the controller quiescent.
Settled(t) ==
    /\ at[t] \in {"trylock", "event", "suspend"} => InFlight(Ctl(t)) = 0 /\ Seen(Ctl(t))
    /\ at[t] \in {"event", "suspend"} => vlock[Ctl(t)] = "io"
    /\ at[t] = "suspend" => vq[Ctl(t)].eidx = vq[Ctl(t)].head

\* The controller that is moved is found, and is left alone meanwhile.
Found(w) ==
    LET c == wr[w].c IN
    /\ wr[w].pc \in {"pause", "del"} =>
          IF wr[w].n = 0 THEN \E t \in wr[w].i .. NThreads - 1 : Listed(t, binding[c])
                         ELSE binding[c] = None
    /\ wr[w].pc = "bind" => binding[c] = None
    /\ wr[w].pc # "off" =>
          /\ vlock[c] \in {"free", "io"} /\ guest[c] = "run" /\ vq[c].tail = vq[c].head
          /\ ~wr[w].old /\ binding[c] # None => ~bs[binding[c]].poll_enabled
    /\ wr[w].pc = "add" => bs[binding[c]].poll_enabled = wr[w].old

Home == \A c \in Vctrl : ~Storing(c) => binding[c] \in Binding /\ Homed(binding[c])

\* A controller that sleeps, or will after it is moved.
Asleep(c) ==
    /\ io_idle[c] /\ ~paused[c] /\ vlock[c] \in {"free", "io"}
    /\ \A w \in Writers : wr[w].pc # "off" /\ wr[w].c = c => ~wr[w].old
    /\ ~Storing(c) => ~bs[binding[c]].poll_enabled

Quiescent(c) ==
    /\ InFlight(c) = 0 /\ Seen(c)
    /\ vq[c].eidx = vq[c].head
    /\ \/ vq[c].tail = vq[c].head
       \/ vq[c].tail = (vq[c].head + 1) % Size /\ guest[c] \in {"wrote", "mmio"}

\* The host resumes controllers it paused.
Resumed == \A c \in Vctrl : vlock[c] = "resume" => paused[c]

IdleInv ==
    /\ PollInv /\ Home /\ Resumed
    /\ \A t \in Thread : Settled(t)
    /\ \A w \in Writers : Found(w)
    /\ \A c \in Vctrl : Asleep(c) => Quiescent(c)

(***************************************************************************)
(* Types.                                                                  *)
(***************************************************************************)
BsRec == [vctrl : Vctrl \union {None}, it : Thread, poll_enabled : BOOLEAN,
          state : {"ZERO", "BEGUN", "ENDING"}, idle : BOOLEAN]
VqRec == [tail : Idx, head : Idx, eidx : Idx, unread : Idx, consumed : Idx]
HwRec == [pending : Idx, done : Idx]
Place == {"top", "scan", "poll", "drain", "trylock", "event", "suspend", "idle", "parkme"}

ThreadTypes ==
    /\ at \in [Thread -> Place] /\ park \in [Thread -> BOOLEAN]
    /\ bindings \in [Thread -> Seq(Binding)] /\ todo \in [Thread -> Seq(Binding)]
BindTypes  == binding \in [Vctrl -> Binding \union {None}] /\ bs \in [Binding -> BsRec]
QueueTypes == /\ vq \in [Vctrl -> VqRec] /\ hw \in [Vctrl -> HwRec]
              /\ \A c \in Vctrl : Reserved(c) <= Size - 1
LockTypes  == vlock \in [Vctrl -> {"free", "io", "pause", "resume"}]

\* IoTypeOK, by what the steps change.
LEMMA TypeParts == /\ IoTypeOK <=> ThreadTypes /\ BindTypes /\ QueueTypes /\ LockTypes
                   /\ IoTypeOK' <=> (ThreadTypes' /\ BindTypes' /\ QueueTypes' /\ LockTypes')
  BY DEF IoTypeOK, ThreadTypes, BindTypes, QueueTypes, LockTypes, BsRec, VqRec, HwRec, Place

\* The queue entries.
LEMMA Sizes == Size \in Nat /\ Size >= 2 /\ Size <= 65536 /\ NThreads \in Nat /\ NThreads >= 1 /\ 0 \in Thread
  BY IoAssumption DEF Thread

\* The least of three numbers.
LEMMA MinOfThree ==
    ASSUME NEW a \in Int, NEW b \in Int, NEW c \in Int
    PROVE  LET m == Min({a, b, c}) IN m \in {a, b, c} /\ m <= a /\ m <= b /\ m <= c
<1>1. \E x \in {a, b, c} : \A y \in {a, b, c} : x <= y
  <2>1. CASE a <= b /\ a <= c
    BY <2>1
  <2>2. CASE b <= a /\ b <= c
    BY <2>2
  <2>3. CASE c <= a /\ c <= b
    BY <2>3
  <2> QED BY <2>1, <2>2, <2>3
<1> QED BY <1>1 DEF Min

\* The commands taken fit the completion queue.
LEMMA TakenFits ==
    ASSUME QueueTypes, NEW c \in Vctrl
    PROVE  Taken(c) \in Nat /\ Taken(c) <= Size - 1 - Reserved(c) /\ Taken(c) <= Queued(c)
<1>1. vq[c] \in VqRec /\ hw[c] \in HwRec /\ Reserved(c) <= Size - 1
  BY DEF QueueTypes
<1>2. /\ vq[c].tail \in Nat /\ vq[c].head \in Nat /\ vq[c].unread \in Nat /\ vq[c].consumed \in Nat
      /\ hw[c].pending \in Nat /\ hw[c].done \in Nat
  BY <1>1, Sizes DEF VqRec, HwRec, Idx
<1>3. Reserved(c) \in Nat
  BY <1>2 DEF Reserved, InFlight
<1>4. Queued(c) \in Nat
  BY <1>2, Sizes DEF Queued
<1>5. ArbBurst \in Nat /\ Size - 1 - Reserved(c) \in Nat
  BY <1>1, <1>3, Sizes, IoAssumption
<1>6. PICK x \in Int : x = Queued(c)
  BY <1>4
<1>7. PICK y \in Int : y = Size - 1 - Reserved(c)
  BY <1>5
<1>8. Taken(c) = Min({ArbBurst, x, y})
  BY <1>6, <1>7 DEF Taken
<1>9. Taken(c) \in {ArbBurst, x, y} /\ Taken(c) <= x /\ Taken(c) <= y
  BY <1>5, <1>8, MinOfThree
<1> QED BY <1>4, <1>5, <1>6, <1>7, <1>9

\* Only the queue pair of c changes.
OnlyQueue(c) == \A d \in Vctrl : d # c => vq'[d] = vq[d] /\ hw'[d] = hw[d]

\* A queue pair that is given new values.
LEMMA QueueSet ==
    ASSUME QueueTypes, NEW c \in Vctrl, NEW q \in VqRec, NEW h \in HwRec,
           vq' = [vq EXCEPT ![c] = q], hw' = [hw EXCEPT ![c] = h],
           h.pending + h.done + q.unread + q.consumed <= Size - 1
    PROVE  QueueTypes' /\ OnlyQueue(c) /\ vq'[c] = q /\ hw'[c] = h
<1>1. /\ vq' \in [Vctrl -> VqRec] /\ hw' \in [Vctrl -> HwRec] /\ vq'[c] = q /\ hw'[c] = h
      /\ OnlyQueue(c)
  BY DEF QueueTypes, OnlyQueue
<1>2. Reserved(c)' <= Size - 1
  BY <1>1 DEF Reserved, InFlight
<1>3. \A d \in Vctrl : d # c => Reserved(d)' = Reserved(d)
  BY <1>1 DEF OnlyQueue, Reserved, InFlight
<1> QED BY <1>1, <1>2, <1>3 DEF QueueTypes

\* The fields of a queue pair are numbers.
LEMMA QueueNats ==
    ASSUME QueueTypes, NEW c \in Vctrl
    PROVE  /\ vq[c] \in VqRec /\ hw[c] \in HwRec
           /\ vq[c].tail \in Idx /\ vq[c].head \in Idx /\ vq[c].eidx \in Idx
           /\ vq[c].tail \in Nat /\ vq[c].head \in Nat /\ vq[c].unread \in Nat /\ vq[c].consumed \in Nat
           /\ hw[c].pending \in Nat /\ hw[c].done \in Nat
           /\ hw[c].pending + hw[c].done + vq[c].unread + vq[c].consumed <= Size - 1
<1>1. vq[c] \in VqRec /\ hw[c] \in HwRec /\ Reserved(c) <= Size - 1
  BY DEF QueueTypes
<1> QED BY <1>1, Sizes DEF VqRec, HwRec, Idx, Reserved, InFlight

\* Serving a queue pair.
LEMMA ServeTypes ==
    ASSUME QueueTypes, NEW c \in Vctrl, Serve(c)
    PROVE  QueueTypes' /\ OnlyQueue(c)
<1>1. PICK n \in Nat : n = Taken(c) /\ n <= Size - 1 - Reserved(c)
  BY TakenFits
<1>2. PICK h \in Idx : h = (vq[c].head + n) % Size
  BY QueueNats, Sizes DEF Idx
<1>3. PICK e \in Idx : e = IF n > 0 THEN (h + (Size \div 2)) % Size ELSE vq[c].eidx
  BY QueueNats, Sizes DEF Idx
<1>4. n + hw[c].pending + hw[c].done + vq[c].unread + vq[c].consumed <= Size - 1
  BY <1>1, QueueNats, Sizes DEF Reserved, InFlight
<1>5. PICK u \in Nat : u = vq[c].unread + hw[c].done
  BY QueueNats
<1>6. PICK p \in Nat : p = hw[c].pending + n
  BY QueueNats
<1>7. p + 0 + u + 0 <= Size - 1 /\ u \in Idx /\ p \in Idx /\ 0 \in Idx
  BY <1>4, <1>5, <1>6, QueueNats, Sizes DEF Idx
<1>8. PICK q \in VqRec : q = [tail |-> vq[c].tail, head |-> h, eidx |-> e, unread |-> u, consumed |-> 0]
  BY <1>7, QueueNats DEF VqRec
<1>9. PICK k \in HwRec : k = [pending |-> p, done |-> 0]
  BY <1>7 DEF HwRec
<1>10. vq' = [vq EXCEPT ![c] = q] /\ hw' = [hw EXCEPT ![c] = k]
  BY <1>1, <1>2, <1>3, <1>5, <1>6, <1>8, <1>9 DEF Serve
<1>11. k.pending + k.done + q.unread + q.consumed <= Size - 1
  BY <1>7, <1>8, <1>9
<1> QED BY <1>10, <1>11, QueueSet

(***************************************************************************)
(* Lists and visits.                                                       *)
(***************************************************************************)

\* The first element of a list and the others.
LEMMA SeqEnds ==
    ASSUME NEW B, NEW s \in Seq(B), s # <<>>
    PROVE  /\ Head(s) \in B /\ Head(s) \in Range(s)
           /\ Tail(s) \in Seq(B) /\ \A b \in Range(Tail(s)) : b \in Range(s)
<1>1. PICK n \in Nat : n = Len(s) /\ n >= 1
  OBVIOUS
<1>2. DOMAIN s = 1 .. n /\ Head(s) = s[1] /\ 1 \in 1 .. n
  BY <1>1
<1>3. /\ Tail(s) \in Seq(B) /\ DOMAIN Tail(s) = 1 .. n - 1
      /\ \A k \in 1 .. n - 1 : Tail(s)[k] = s[k + 1]
  BY <1>1
<1>4. \A k \in 1 .. n - 1 : k + 1 \in 1 .. n
  BY <1>1
<1> QED BY <1>2, <1>3, <1>4 DEF Range

\* The binding a thread visits is on its list, and is its controller's; no
\* other thread visits it.
LEMMA Visited ==
    ASSUME PollInv, NEW t \in Thread, InPass(t), todo[t] # <<>>
    PROVE  /\ Cur(t) \in Binding /\ Listed(t, Cur(t)) /\ Ctl(t) \in Vctrl
           /\ binding[Ctl(t)] = Cur(t) /\ bs[Cur(t)].vctrl = Ctl(t)
<1>1. ThreadTypes /\ Lists /\ Visit(t)
  BY TypeParts DEF PollInv
<1>2. Cur(t) \in Binding /\ Cur(t) \in Range(todo[t])
  BY <1>1, SeqEnds DEF Cur, ThreadTypes
<1>3. Listed(t, Cur(t))
  BY <1>1, <1>2 DEF Visit
<1>4. bs[Cur(t)].vctrl \in Vctrl /\ binding[bs[Cur(t)].vctrl] = Cur(t)
  BY <1>1, <1>2, <1>3 DEF Lists, Homed
<1> QED BY <1>2, <1>3, <1>4 DEF Ctl

\* Two threads visit different bindings of different controllers.
LEMMA Apart ==
    ASSUME PollInv, NEW t \in Thread, InPass(t), todo[t] # <<>>,
           NEW u \in Thread, InPass(u), todo[u] # <<>>, u # t
    PROVE  Cur(u) # Cur(t) /\ Ctl(u) # Ctl(t)
<1>1. /\ Cur(t) \in Binding /\ Listed(t, Cur(t)) /\ binding[Ctl(t)] = Cur(t)
      /\ Cur(u) \in Binding /\ Listed(u, Cur(u)) /\ binding[Ctl(u)] = Cur(u)
  BY Visited
<1>2. Cur(u) # Cur(t)
  BY <1>1 DEF PollInv, Lists
<1> QED BY <1>1, <1>2

\* Only binding b changes, and not its controller.
OnlyBs(b) ==
    /\ bs' \in [Binding -> BsRec]
    /\ \A x \in Binding : bs'[x].vctrl = bs[x].vctrl
    /\ \A x \in Binding : x # b => bs'[x] = bs[x]

\* Assigning a binding.
LEMMA BsSet ==
    ASSUME BindTypes, NEW b \in Binding, NEW r \in BsRec, r.vctrl = bs[b].vctrl,
           bs' = [bs EXCEPT ![b] = r]
    PROVE  OnlyBs(b) /\ bs'[b] = r
  BY DEF BindTypes, OnlyBs

\* Leaving all alone.
LEMMA BsSame == ASSUME BindTypes, bs' = bs, NEW b PROVE OnlyBs(b)
  BY DEF BindTypes, OnlyBs

\* The lists stay as they are.
LEMMA ListsKept ==
    ASSUME BindTypes, ThreadTypes, Lists, UNCHANGED <<bindings, binding>>,
           \A x \in Binding : bs'[x].vctrl = bs[x].vctrl
    PROVE  Lists'
<1>1. \A t \in Thread : \A b \in Binding : Listed(t, b)' <=> Listed(t, b)
  BY DEF Listed
<1>2. \A b \in Binding : Homed(b)' <=> Homed(b)
  BY <1>1 DEF Homed
<1>3. \A c \in Vctrl : binding[c] # None => binding[c] \in Binding
  BY DEF BindTypes
<1> QED BY <1>1, <1>2, <1>3 DEF Lists

\* So do the writers' claims.
LEMMA MovingKept ==
    ASSUME UNCHANGED <<bindings, binding, wr>>, \A x \in Binding : bs'[x].vctrl = bs[x].vctrl,
           NEW w \in Writers, Moving(w)
    PROVE  Moving(w)'
<1>1. \A b : Homed(b)' <=> Homed(b)
  BY DEF Homed, Listed
<1> QED BY <1>1 DEF Moving

\* A thread whose binding keeps its state.
LEMMA VisitKept ==
    ASSUME NEW u \in Thread, Visit(u), at'[u] = at[u], todo'[u] = todo[u], bindings'[u] = bindings[u],
           at[u] \in Visiting => bs'[Cur(u)].state = bs[Cur(u)].state
    PROVE  Visit(u)'
  BY DEF Visit, InPass, Cur, Listed, Visiting

\* What is to be shown of every step besides the types of the queues, the
\* locks and the writers.
PollNext ==
    /\ ThreadTypes' /\ BindTypes' /\ Lists'
    /\ \A t \in Thread : Visit(t)'
    /\ \A w \in Writers : Moving(w)'

\* A thread moves on, the binding it visits changes.
LEMMA ThreadMove ==
    ASSUME PollInv, NEW t \in Thread, ThreadTypes', Visit(t)',
           UNCHANGED <<bindings, binding, wr>>,
           NEW b, OnlyBs(b), b \in Binding => (InPass(t) /\ todo[t] # <<>> /\ b = Cur(t)),
           \A u \in Thread : u # t => at'[u] = at[u] /\ todo'[u] = todo[u]
    PROVE  PollNext
<1>1. ThreadTypes /\ BindTypes /\ Lists
  BY TypeParts DEF PollInv
<1>2. BindTypes'
  BY <1>1 DEF BindTypes, OnlyBs
<1>3. Lists' /\ \A w \in Writers : Moving(w)'
  BY <1>1, ListsKept, MovingKept DEF PollInv, OnlyBs
<1>4. ASSUME NEW u \in Thread, u # t PROVE Visit(u)'
  <2>1. ASSUME at[u] \in Visiting PROVE bs'[Cur(u)] = bs[Cur(u)]
    <3>1. InPass(u) /\ todo[u] # <<>>
      BY <2>1 DEF PollInv, Visit, Visiting, InPass
    <3>2. Cur(u) \in Binding
      BY <3>1, Visited
    <3>3. Cur(u) # b
      BY <1>4, <3>1, <3>2, Apart
    <3> QED BY <3>2, <3>3 DEF OnlyBs
  <2>2. Visit(u)
    BY DEF PollInv
  <2> QED BY <1>4, <2>1, <2>2, VisitKept
<1> QED BY <1>2, <1>3, <1>4 DEF PollNext

\* A thread leaves its binding.
LEMMA LeaveMove ==
    ASSUME PollInv, NEW t \in Thread, InPass(t), todo[t] # <<>>, NEW ret, Leave(t, ret),
           UNCHANGED <<binding, wr>>, OnlyBs(Cur(t))
    PROVE  PollNext
<1>1. ThreadTypes /\ Visit(t)
  BY TypeParts DEF PollInv
<1>2. /\ Tail(todo[t]) \in Seq(Binding)
      /\ \A b \in Range(Tail(todo[t])) : b \in Range(todo[t])
  BY <1>1, SeqEnds DEF ThreadTypes
<1>3. /\ ThreadTypes' /\ at'[t] = "scan" /\ todo'[t] = Tail(todo[t])
      /\ \A u \in Thread : u # t => at'[u] = at[u] /\ todo'[u] = todo[u]
      /\ bindings' = bindings
  BY <1>1, <1>2 DEF Leave, ThreadTypes, Place
<1>4. Visit(t)'
  BY <1>1, <1>2, <1>3 DEF Visit, Visiting, InPass, Listed
<1> QED BY <1>3, <1>4, ThreadMove

\* A thread goes on with its binding.
LEMMA EnterMove ==
    ASSUME PollInv, NEW t \in Thread, InPass(t), todo[t] # <<>>, NEW p \in Visiting, Enter(t, p),
           UNCHANGED <<binding, wr>>, OnlyBs(Cur(t)),
           p = "poll" => bs'[Cur(t)].state = "BEGUN", p = "drain" => bs'[Cur(t)].state # "ZERO"
    PROVE  PollNext
<1>1. ThreadTypes /\ Visit(t)
  BY TypeParts DEF PollInv
<1>3. /\ ThreadTypes' /\ at'[t] = p /\ todo'[t] = todo[t]
      /\ \A u \in Thread : u # t => at'[u] = at[u] /\ todo'[u] = todo[u]
      /\ bindings' = bindings
  BY <1>1 DEF Enter, ThreadTypes, Place, Visiting
<1>4. Visit(t)'
  BY <1>1, <1>3 DEF Visit, Visiting, InPass, Listed, Cur
<1> QED BY <1>3, <1>4, ThreadMove

\* A record of a binding with some fields replaced.
Filled(b, p, s, i) == [vctrl |-> bs[b].vctrl, it |-> bs[b].it, poll_enabled |-> p, state |-> s, idle |-> i]

\* Assigning fields of a binding is assigning the binding.
LEMMA Fill ==
    ASSUME BindTypes, NEW b \in Binding, NEW p \in BOOLEAN, NEW s \in {"ZERO", "BEGUN", "ENDING"}, NEW i \in BOOLEAN
    PROVE  /\ Filled(b, p, s, i) \in BsRec /\ Filled(b, p, s, i).vctrl = bs[b].vctrl
           /\ [bs EXCEPT ![b].poll_enabled = p] = [bs EXCEPT ![b] = Filled(b, p, bs[b].state, bs[b].idle)]
           /\ [bs EXCEPT ![b].state = s] = [bs EXCEPT ![b] = Filled(b, bs[b].poll_enabled, s, bs[b].idle)]
           /\ [bs EXCEPT ![b].idle = i] = [bs EXCEPT ![b] = Filled(b, bs[b].poll_enabled, bs[b].state, i)]
           /\ [bs EXCEPT ![b].idle = i, ![b].state = s] = [bs EXCEPT ![b] = Filled(b, bs[b].poll_enabled, s, i)]
           /\ [bs EXCEPT ![b].state = s, ![b].idle = i] = [bs EXCEPT ![b] = Filled(b, bs[b].poll_enabled, s, i)]
<1>1. bs \in [Binding -> BsRec] /\ bs[b] \in BsRec
  BY DEF BindTypes
<1>2. Filled(b, p, s, i) \in BsRec
  BY <1>1 DEF BsRec, Filled
<1>3. /\ [bs[b] EXCEPT !.poll_enabled = p] = Filled(b, p, bs[b].state, bs[b].idle)
      /\ [bs[b] EXCEPT !.state = s] = Filled(b, bs[b].poll_enabled, s, bs[b].idle)
      /\ [bs[b] EXCEPT !.idle = i] = Filled(b, bs[b].poll_enabled, bs[b].state, i)
  BY <1>1 DEF Filled, BsRec
<1>4. /\ [bs[b] EXCEPT !.idle = i, !.state = s] = Filled(b, bs[b].poll_enabled, s, i)
      /\ [bs[b] EXCEPT !.state = s, !.idle = i] = Filled(b, bs[b].poll_enabled, s, i)
  <2>1. PICK q \in BsRec : q = [bs[b] EXCEPT !.idle = i]
    BY <1>1 DEF BsRec
  <2>2. [q EXCEPT !.state = s] = Filled(b, bs[b].poll_enabled, s, i)
    <3>1. /\ q.vctrl = bs[b].vctrl /\ q.it = bs[b].it /\ q.poll_enabled = bs[b].poll_enabled
          /\ q.idle = i
      BY <1>1, <2>1 DEF BsRec
    <3>2. [q EXCEPT !.state = s] = [vctrl |-> q.vctrl, it |-> q.it, poll_enabled |-> q.poll_enabled,
                                    state |-> s, idle |-> q.idle]
      BY DEF BsRec
    <3> QED BY <3>1, <3>2 DEF Filled
  <2>3. PICK r \in BsRec : r = [bs[b] EXCEPT !.state = s]
    BY <1>1 DEF BsRec
  <2>4. [r EXCEPT !.idle = i] = Filled(b, bs[b].poll_enabled, s, i)
    <3>1. /\ r.vctrl = bs[b].vctrl /\ r.it = bs[b].it /\ r.poll_enabled = bs[b].poll_enabled
          /\ r.state = s
      BY <1>1, <2>3 DEF BsRec
    <3>2. [r EXCEPT !.idle = i] = [vctrl |-> r.vctrl, it |-> r.it, poll_enabled |-> r.poll_enabled,
                                   state |-> r.state, idle |-> i]
      BY DEF BsRec
    <3> QED BY <3>1, <3>2 DEF Filled
  <2> QED BY <2>1, <2>2, <2>3, <2>4
<1>5. Filled(b, p, s, i).vctrl = bs[b].vctrl
  BY DEF Filled
<1>6. [bs EXCEPT ![b].poll_enabled = p] = [bs EXCEPT ![b] = Filled(b, p, bs[b].state, bs[b].idle)]
  BY <1>1, <1>3
<1>7. [bs EXCEPT ![b].state = s] = [bs EXCEPT ![b] = Filled(b, bs[b].poll_enabled, s, bs[b].idle)]
  BY <1>1, <1>3
<1>8. [bs EXCEPT ![b].idle = i] = [bs EXCEPT ![b] = Filled(b, bs[b].poll_enabled, bs[b].state, i)]
  BY <1>1, <1>3
<1>9. [bs EXCEPT ![b].idle = i, ![b].state = s] = [bs EXCEPT ![b] = Filled(b, bs[b].poll_enabled, s, i)]
  BY <1>1, <1>4
<1>10. [bs EXCEPT ![b].state = s, ![b].idle = i] = [bs EXCEPT ![b] = Filled(b, bs[b].poll_enabled, s, i)]
  BY <1>1, <1>4
<1> QED BY <1>2, <1>5, <1>6, <1>7, <1>8, <1>9, <1>10

\* A binding and its fields after a step that assigns some of them.
LEMMA BsFilled ==
    ASSUME BindTypes, NEW b \in Binding, NEW p \in BOOLEAN, NEW s \in {"ZERO", "BEGUN", "ENDING"}, NEW i \in BOOLEAN,
           bs' = [bs EXCEPT ![b] = Filled(b, p, s, i)]
    PROVE  OnlyBs(b) /\ bs'[b].poll_enabled = p /\ bs'[b].state = s /\ bs'[b].idle = i
<1>1. Filled(b, p, s, i) \in BsRec /\ Filled(b, p, s, i).vctrl = bs[b].vctrl
  BY Fill
<1>2. PICK r \in BsRec : r = Filled(b, p, s, i)
  BY <1>1
<1>3. OnlyBs(b) /\ bs'[b] = r
  BY <1>1, <1>2, BsSet
<1> QED BY <1>2, <1>3 DEF Filled

\* The fields of a binding have their types.
LEMMA BsFields ==
    ASSUME BindTypes, NEW b \in Binding
    PROVE  /\ bs[b].poll_enabled \in BOOLEAN /\ bs[b].idle \in BOOLEAN
           /\ bs[b].state \in {"ZERO", "BEGUN", "ENDING"} /\ bs[b].it \in Thread
  BY DEF BindTypes, BsRec

\* A thread inside a visit has a binding.
LEMMA InVisit ==
    ASSUME PollInv, NEW t \in Thread, at[t] \in Visiting \/ (at[t] = "scan" /\ todo[t] # <<>>)
    PROVE  /\ InPass(t) /\ todo[t] # <<>> /\ Cur(t) \in Binding /\ Ctl(t) \in Vctrl /\ BindTypes
           /\ binding[Ctl(t)] = Cur(t) /\ Visit(t)
<1>1. InPass(t) /\ todo[t] # <<>> /\ Visit(t) /\ BindTypes
  BY TypeParts DEF PollInv, Visit, InPass, Visiting
<1> QED BY <1>1, Visited

\* The outer loop.
LEMMA OuterPoll ==
    ASSUME PollInv, NEW t \in Thread, StartPass(t) \/ EndPass(t) \/ ParkSelf(t) \/ Unparked(t)
    PROVE  PollNext
<1>1. ThreadTypes /\ Visit(t) /\ BindTypes
  BY TypeParts DEF PollInv
<1>2. /\ UNCHANGED <<bindings, binding, wr, bs>> /\ ThreadTypes'
      /\ \A u \in Thread : u # t => at'[u] = at[u] /\ todo'[u] = todo[u]
      /\ \/ at'[t] \in {"top", "idle", "parkme"}
         \/ at'[t] = "scan" /\ todo'[t] = bindings[t]
  BY <1>1 DEF StartPass, EndPass, ParkSelf, Unparked, Enter, ThreadTypes, Place
<1>3. Visit(t)'
  BY <1>1, <1>2 DEF Visit, Visiting, InPass, Listed
<1>4. PICK b : b \notin Binding
  BY IoAssumption
<1>5. OnlyBs(b)
  BY <1>1, <1>2, BsSame
<1> QED BY <1>2, <1>3, <1>4, <1>5, ThreadMove

\* Entering the loops.
LEMMA BeginPoll ==
    ASSUME PollInv, NEW t \in Thread, Skip(t) \/ nvme_mdev_io_begin_poll(t) \/ Reenter(t)
    PROVE  PollNext
<1>0. at[t] = "scan" /\ todo[t] # <<>>
  BY DEF Skip, nvme_mdev_io_begin_poll, Reenter
<1>1. /\ InPass(t) /\ todo[t] # <<>> /\ Cur(t) \in Binding /\ BindTypes
      /\ bs[Cur(t)].poll_enabled \in BOOLEAN /\ bs[Cur(t)].state \in {"ZERO", "BEGUN", "ENDING"}
  BY <1>0, InVisit, BsFields
<1>2. CASE Skip(t)
  <2>1. Leave(t, FALSE) /\ UNCHANGED <<bs, binding, wr>>
    BY <1>2 DEF Skip
  <2> QED BY <1>1, <2>1, BsSame, LeaveMove
<1>3. CASE nvme_mdev_io_begin_poll(t)
  <2>1. Enter(t, "poll") /\ UNCHANGED <<binding, wr>>
        /\ bs' = [bs EXCEPT ![Cur(t)] = Filled(Cur(t), bs[Cur(t)].poll_enabled, "BEGUN", FALSE)]
    <3>1. bs' = [bs EXCEPT ![Cur(t)].idle = FALSE, ![Cur(t)].state = "BEGUN"]
      BY <1>3 DEF nvme_mdev_io_begin_poll
    <3>2. PICK x \in Binding : x = Cur(t)
      BY <1>1
    <3>3. bs' = [bs EXCEPT ![x] = Filled(x, bs[x].poll_enabled, "BEGUN", FALSE)]
      BY <1>1, <3>1, <3>2, Fill
    <3> QED BY <1>3, <3>2, <3>3 DEF nvme_mdev_io_begin_poll
  <2>2. OnlyBs(Cur(t)) /\ bs'[Cur(t)].state = "BEGUN"
    BY <1>1, <2>1, BsFilled
  <2> QED BY <1>1, <2>1, <2>2, EnterMove DEF Visiting
<1>4. CASE Reenter(t)
  <2>1. /\ Enter(t, IF bs[Cur(t)].state = "BEGUN" THEN "poll" ELSE "drain") /\ UNCHANGED <<bs, binding, wr>>
        /\ bs[Cur(t)].state # "ZERO"
    BY <1>4 DEF Reenter
  <2>2. OnlyBs(Cur(t))
    BY <1>1, <2>1, BsSame
  <2>3. CASE bs[Cur(t)].state = "BEGUN"
    BY <1>1, <2>1, <2>2, <2>3, EnterMove DEF Visiting
  <2>4. CASE bs[Cur(t)].state # "BEGUN"
    BY <1>1, <2>1, <2>2, <2>4, EnterMove DEF Visiting
  <2> QED BY <2>3, <2>4
<1> QED BY <1>2, <1>3, <1>4

\* The loops that leave the bindings alone.
LEMMA PlainPoll ==
    ASSUME PollInv, NEW t \in Thread,
           PollStop(t) \/ PollOn(t) \/ LockBusy(t) \/ SuspendBegin(t) \/ SuspendEvent(t)
    PROVE  PollNext
<1>0. at[t] \in Visiting
  BY DEF PollStop, PollOn, LockBusy, SuspendBegin, SuspendEvent, Visiting
<1>1. InPass(t) /\ todo[t] # <<>> /\ Cur(t) \in Binding /\ BindTypes /\ Visit(t)
  BY <1>0, InVisit
<1>2. UNCHANGED <<bs, binding, wr>>
  BY DEF PollStop, PollOn, LockBusy, SuspendBegin, SuspendEvent
<1>3. OnlyBs(Cur(t))
  BY <1>1, <1>2, BsSame
<1>4. CASE PollOn(t) \/ LockBusy(t)
  <2>1. Leave(t, TRUE)
    BY <1>4 DEF PollOn, LockBusy
  <2> QED BY <1>1, <1>2, <1>3, <2>1, LeaveMove
<1>5. CASE PollStop(t)
  <2>1. Enter(t, "drain") /\ bs'[Cur(t)].state # "ZERO"
    BY <1>1, <1>2, <1>5 DEF PollStop, Visit
  <2> QED BY <1>1, <1>2, <1>3, <2>1, EnterMove DEF Visiting
<1>6. CASE SuspendBegin(t)
  <2>1. Enter(t, "event")
    BY <1>6 DEF SuspendBegin
  <2> QED BY <1>1, <1>2, <1>3, <2>1, EnterMove DEF Visiting
<1>7. CASE SuspendEvent(t)
  <2>1. Enter(t, "suspend")
    BY <1>7 DEF SuspendEvent
  <2> QED BY <1>1, <1>2, <1>3, <2>1, EnterMove DEF Visiting
<1> QED BY <1>4, <1>5, <1>6, <1>7

\* What the loops do to the binding they visit.
LEMMA LoopBs ==
    ASSUME PollInv, NEW t \in Thread, at[t] \in Visiting,
           PollIdle(t) \/ DrainOn(t) \/ DrainTimeout(t) \/ Drained(t) \/ SuspendRefused(t) \/ SelfPark(t)
    PROVE  /\ OnlyBs(Cur(t))
           /\ PollIdle(t) => bs'[Cur(t)].state = bs[Cur(t)].state /\ bs'[Cur(t)].poll_enabled = bs[Cur(t)].poll_enabled
           /\ SelfPark(t) => bs'[Cur(t)].poll_enabled = FALSE
           /\ bs'[Cur(t)].poll_enabled = bs[Cur(t)].poll_enabled \/ SelfPark(t)
<1>1. PICK x \in Binding : x = Cur(t)
  BY InVisit
<1>2. /\ BindTypes /\ binding[Ctl(t)] = x /\ bs[x].poll_enabled \in BOOLEAN
      /\ bs[x].state \in {"ZERO", "BEGUN", "ENDING"} /\ bs[x].idle \in BOOLEAN
  BY <1>1, InVisit, BsFields
<1>3. CASE PollIdle(t)
  <2>1. bs' = [bs EXCEPT ![x].idle = TRUE]
    BY <1>2, <1>3 DEF PollIdle
  <2>2. bs' = [bs EXCEPT ![x] = Filled(x, bs[x].poll_enabled, bs[x].state, TRUE)]
    BY <1>2, <2>1, Fill
  <2>3. OnlyBs(x) /\ bs'[x].state = bs[x].state /\ bs'[x].poll_enabled = bs[x].poll_enabled
    BY <1>2, <2>2, BsFilled
  <2>4. ~SelfPark(t)
    BY <1>3 DEF PollIdle, SelfPark
  <2> QED BY <1>1, <2>3, <2>4
<1>4. CASE DrainOn(t)
  <2>1. bs' = [bs EXCEPT ![x].state = "ENDING"]
    BY <1>2, <1>4 DEF DrainOn
  <2>2. bs' = [bs EXCEPT ![x] = Filled(x, bs[x].poll_enabled, "ENDING", bs[x].idle)]
    BY <1>2, <2>1, Fill
  <2>3. OnlyBs(x) /\ bs'[x].poll_enabled = bs[x].poll_enabled
    BY <1>2, <2>2, BsFilled
  <2>4. ~SelfPark(t) /\ ~PollIdle(t)
    BY <1>4 DEF DrainOn, SelfPark, PollIdle
  <2> QED BY <1>1, <2>3, <2>4
<1>5. CASE DrainTimeout(t)
  <2>1. bs' = [bs EXCEPT ![x].state = "ZERO", ![x].idle = FALSE]
    BY <1>2, <1>5 DEF DrainTimeout
  <2>2. bs' = [bs EXCEPT ![x] = Filled(x, bs[x].poll_enabled, "ZERO", FALSE)]
    BY <1>2, <2>1, Fill
  <2>3. OnlyBs(x) /\ bs'[x].poll_enabled = bs[x].poll_enabled
    BY <1>2, <2>2, BsFilled
  <2>4. ~SelfPark(t) /\ ~PollIdle(t)
    BY <1>5 DEF DrainTimeout, SelfPark, PollIdle
  <2> QED BY <1>1, <2>3, <2>4
<1>6. CASE Drained(t)
  <2>0. PICK i \in BOOLEAN : i = (bs[x].idle /\ ~(vq[Ctl(t)].unread # 0 /\ irq[Ctl(t)]))
    OBVIOUS
  <2>1. bs' = [bs EXCEPT ![x].state = "ZERO", ![x].idle = i]
    BY <1>2, <1>6, <2>0 DEF Drained
  <2>2. bs' = [bs EXCEPT ![x] = Filled(x, bs[x].poll_enabled, "ZERO", i)]
    <3>1. CASE i = TRUE
      <4>1. bs' = [bs EXCEPT ![x].state = "ZERO", ![x].idle = TRUE]
        BY <2>1, <3>1
      <4>2. bs' = [bs EXCEPT ![x] = Filled(x, bs[x].poll_enabled, "ZERO", TRUE)]
        BY <1>2, <4>1, Fill
      <4> QED BY <3>1, <4>2
    <3>2. CASE i = FALSE
      BY <1>2, <2>1, <3>2, Fill
    <3> QED BY <3>1, <3>2
  <2>3. OnlyBs(x) /\ bs'[x].poll_enabled = bs[x].poll_enabled
    BY <1>2, <2>2, BsFilled
  <2>4. ~SelfPark(t) /\ ~PollIdle(t)
    BY <1>6 DEF Drained, SelfPark, PollIdle
  <2> QED BY <1>1, <2>3, <2>4
<1>7. CASE SuspendRefused(t)
  <2>1. bs' = [bs EXCEPT ![x].idle = FALSE]
    BY <1>2, <1>7 DEF SuspendRefused
  <2>2. bs' = [bs EXCEPT ![x] = Filled(x, bs[x].poll_enabled, bs[x].state, FALSE)]
    BY <1>2, <2>1, Fill
  <2>3. OnlyBs(x) /\ bs'[x].poll_enabled = bs[x].poll_enabled
    BY <1>2, <2>2, BsFilled
  <2>4. ~SelfPark(t) /\ ~PollIdle(t)
    BY <1>7 DEF SuspendRefused, SelfPark, PollIdle
  <2> QED BY <1>1, <2>3, <2>4
<1>8. CASE SelfPark(t)
  <2>1. bs' = [bs EXCEPT ![x].poll_enabled = FALSE]
    BY <1>2, <1>8 DEF SelfPark
  <2>2. bs' = [bs EXCEPT ![x] = Filled(x, FALSE, bs[x].state, bs[x].idle)]
    BY <1>2, <2>1, Fill
  <2>3. OnlyBs(x) /\ bs'[x].poll_enabled = FALSE
    BY <1>2, <2>2, BsFilled
  <2>4. ~PollIdle(t)
    BY <1>8 DEF SelfPark, PollIdle
  <2> QED BY <1>1, <1>8, <2>3, <2>4
<1> QED BY <1>3, <1>4, <1>5, <1>6, <1>7, <1>8

\* The loops that change the binding they visit.
LEMMA LoopPoll ==
    ASSUME PollInv, NEW t \in Thread,
           PollIdle(t) \/ DrainOn(t) \/ DrainTimeout(t) \/ Drained(t) \/ SuspendRefused(t) \/ SelfPark(t)
    PROVE  PollNext
<1>0. at[t] \in Visiting
  BY DEF PollIdle, DrainOn, DrainTimeout, Drained, SuspendRefused, SelfPark, Visiting
<1>1. InPass(t) /\ todo[t] # <<>> /\ Visit(t)
  BY <1>0, InVisit
<1>2. UNCHANGED <<binding, wr>>
  BY DEF PollIdle, DrainOn, DrainTimeout, Drained, SuspendRefused, SelfPark
<1>3. OnlyBs(Cur(t))
  BY <1>0, LoopBs
<1>4. CASE PollIdle(t)
  <2>1. Enter(t, "drain") /\ bs'[Cur(t)].state # "ZERO"
    BY <1>0, <1>1, <1>4, LoopBs DEF PollIdle, Visit
  <2> QED BY <1>1, <1>2, <1>3, <2>1, EnterMove DEF Visiting
<1>5. CASE DrainOn(t) \/ DrainTimeout(t)
  <2>1. Leave(t, TRUE)
    BY <1>5 DEF DrainOn, DrainTimeout
  <2> QED BY <1>1, <1>2, <1>3, <2>1, LeaveMove
<1>6. CASE Drained(t)
  <2>1. Leave(t, TRUE) \/ Enter(t, "trylock")
    BY <1>6 DEF Drained
  <2> QED BY <1>1, <1>2, <1>3, <2>1, LeaveMove, EnterMove DEF Visiting
<1>7. CASE SuspendRefused(t)
  <2>1. \E ret : Leave(t, ret)
    BY <1>7 DEF SuspendRefused
  <2> QED BY <1>1, <1>2, <1>3, <2>1, LeaveMove
<1>8. CASE SelfPark(t)
  <2>1. Leave(t, FALSE)
    BY <1>8 DEF SelfPark
  <2> QED BY <1>1, <1>2, <1>3, <2>1, LeaveMove
<1> QED BY <1>4, <1>5, <1>6, <1>7, <1>8

\* Every step of a thread.
LEMMA ThreadPoll == ASSUME PollInv, NEW t \in Thread, ThreadStep(t) PROVE PollNext
  BY OuterPoll, BeginPoll, PlainPoll, LoopPoll DEF ThreadStep

\* Steps that enable or disable polling.
LEMMA CtrlMove ==
    ASSUME PollInv, UNCHANGED <<at, bindings, todo, binding, wr>>, park' \in [Thread -> BOOLEAN],
           NEW b, OnlyBs(b), b \in Binding => bs'[b].state = bs[b].state
    PROVE  PollNext
<1>1. ThreadTypes /\ BindTypes /\ Lists
  BY TypeParts DEF PollInv
<1>2. ThreadTypes' /\ BindTypes'
  BY <1>1 DEF ThreadTypes, BindTypes, OnlyBs
<1>3. Lists' /\ \A w \in Writers : Moving(w)'
  BY <1>1, ListsKept, MovingKept DEF PollInv, OnlyBs
<1>4. ASSUME NEW u \in Thread PROVE Visit(u)'
  <2>1. ASSUME at[u] \in Visiting PROVE bs'[Cur(u)].state = bs[Cur(u)].state
    <3>1. Cur(u) \in Binding
      BY <2>1, InVisit
    <3> QED BY <3>1 DEF OnlyBs
  <2>2. Visit(u)
    BY DEF PollInv
  <2> QED BY <2>1, <2>2, VisitKept
<1> QED BY <1>2, <1>3, <1>4 DEF PollNext

\* Enabling or disabling polling of a controller.
LEMMA PollSet ==
    ASSUME BindTypes, NEW c \in Vctrl, binding[c] # None, NEW on \in BOOLEAN, Poll(c, on)
    PROVE  /\ binding[c] \in Binding /\ OnlyBs(binding[c])
           /\ bs'[binding[c]].state = bs[binding[c]].state /\ bs'[binding[c]].poll_enabled = on
           /\ bs[binding[c]].it \in Thread
<1>1. PICK x \in Binding : x = binding[c]
  BY DEF BindTypes
<1>2. bs[x].poll_enabled \in BOOLEAN /\ bs[x].state \in {"ZERO", "BEGUN", "ENDING"} /\ bs[x].idle \in BOOLEAN /\ bs[x].it \in Thread
  BY BsFields
<1>3. bs' = [bs EXCEPT ![x].poll_enabled = on]
  BY <1>1 DEF Poll
<1>4. bs' = [bs EXCEPT ![x] = Filled(x, on, bs[x].state, bs[x].idle)]
  <2>1. CASE on = TRUE
    BY <1>2, <1>3, <2>1, Fill
  <2>2. CASE on = FALSE
    BY <1>2, <1>3, <2>2, Fill
  <2> QED BY <2>1, <2>2
<1>5. OnlyBs(x) /\ bs'[x].state = bs[x].state /\ bs'[x].poll_enabled = on
  BY <1>2, <1>4, BsFilled
<1> QED BY <1>1, <1>2, <1>5

\* What pausing and resuming leave.
Toggled(c, on) ==
    /\ park' \in [Thread -> BOOLEAN]
    /\ IF binding[c] = None THEN bs' = bs
       ELSE /\ binding[c] \in Binding /\ OnlyBs(binding[c])
            /\ bs'[binding[c]].state = bs[binding[c]].state /\ bs'[binding[c]].poll_enabled = on

\* Resuming and pausing.
LEMMA Toggles ==
    ASSUME PollInv, NEW c \in Vctrl
    PROVE  (io_resume(c) => Toggled(c, TRUE)) /\ (io_pause(c) => Toggled(c, FALSE))
<1>1. BindTypes /\ park \in [Thread -> BOOLEAN]
  BY TypeParts DEF PollInv, ThreadTypes
<1>2. ASSUME io_resume(c) PROVE Toggled(c, TRUE)
  <2>1. binding[c] # None /\ Poll(c, TRUE) /\ Unpark(c)
    BY <1>2 DEF io_resume
  <2>2. park' \in [Thread -> BOOLEAN]
    BY <1>1, <2>1 DEF Unpark
  <2> QED BY <1>1, <2>1, <2>2, PollSet DEF Toggled
<1>3. ASSUME io_pause(c) PROVE Toggled(c, FALSE)
  <2>1. CASE binding[c] # None
    <3>1. Poll(c, FALSE)
      BY <1>3, <2>1 DEF io_pause
    <3>2. park' \in [Thread -> BOOLEAN]
      BY <1>1, <1>3, <2>1 DEF io_pause, Unpark
    <3> QED BY <1>1, <2>1, <3>1, <3>2, PollSet DEF Toggled
  <2>2. CASE binding[c] = None
    BY <1>1, <1>3, <2>2 DEF io_pause, Toggled
  <2> QED BY <2>1, <2>2
<1> QED BY <1>2, <1>3

\* Either leaves lists and visits alone.
LEMMA ToggledMove ==
    ASSUME PollInv, UNCHANGED <<at, bindings, todo, binding, wr>>, NEW c \in Vctrl, NEW on, Toggled(c, on)
    PROVE  PollNext
<1>1. BindTypes
  BY TypeParts DEF PollInv
<1>2. CASE binding[c] = None
  <2>1. PICK b : b \notin Binding
    BY IoAssumption
  <2> QED BY <1>1, <1>2, <2>1, BsSame, CtrlMove DEF Toggled
<1>3. CASE binding[c] # None
  BY <1>3, CtrlMove DEF Toggled
<1> QED BY <1>2, <1>3

\* The host, the guest and the devices.
LEMMA CtrlPoll ==
    ASSUME PollInv, NEW c \in Vctrl, HostStep(c) \/ GuestStep(c) \/ HostDone(c)
    PROVE  PollNext
<1>0. BindTypes /\ ThreadTypes
  BY TypeParts DEF PollInv
<1>1. UNCHANGED <<at, bindings, todo, binding, wr>>
  BY DEF HostStep, GuestStep, HostDone, PauseBegin, PauseEnd, nvme_mdev_vctrl_pause, GuestSubmit,
         GuestCheck, DoorbellWrite, GuestConsume, threadVars
<1>2. CASE PauseBegin(c) \/ nvme_mdev_vctrl_pause(c)
  <2>1. io_pause(c)
    BY <1>2 DEF PauseBegin, nvme_mdev_vctrl_pause
  <2> QED BY <1>1, <2>1, Toggles, ToggledMove
<1>3. CASE io_resume(c)
  BY <1>1, <1>3, Toggles, ToggledMove
<1>4. CASE UNCHANGED <<bs, park>>
  <2>1. PICK b : b \notin Binding
    BY IoAssumption
  <2> QED BY <1>0, <1>1, <1>4, <2>1, BsSame, CtrlMove DEF ThreadTypes
<1>5. PauseEnd(c) => io_resume(c) \/ UNCHANGED <<bs, park>>
  BY DEF PauseEnd
<1>6. DoorbellWrite(c) => io_resume(c) \/ UNCHANGED <<bs, park>>
  BY DEF DoorbellWrite
<1>7. GuestSubmit(c) \/ GuestCheck(c) \/ GuestConsume(c) \/ HostDone(c) => UNCHANGED <<bs, park>>
  BY DEF GuestSubmit, GuestCheck, GuestConsume, HostDone, threadVars
<1> QED BY <1>2, <1>3, <1>4, <1>5, <1>6, <1>7 DEF HostStep, GuestStep

(***************************************************************************)
(* The writers of iothread_idx.                                            *)
(***************************************************************************)
Pcs == {"off", "pause", "del", "null", "bind", "add"}

\* The job of w goes on with these values.
JobSet(w, p, i, n, b) ==
    /\ wr' \in [Writers -> Job]
    /\ wr'[w].c = wr[w].c /\ wr'[w].to = wr[w].to /\ wr'[w].old = wr[w].old
    /\ wr'[w].pc = p /\ wr'[w].i = i /\ wr'[w].n = n /\ wr'[w].b = b

\* The fields of a job.
LEMMA JobFields ==
    ASSUME JobTypes, NEW w \in Writers
    PROVE  /\ wr[w] \in Job /\ wr[w].pc \in Pcs /\ wr[w].to \in Thread /\ wr[w].old \in BOOLEAN
           /\ wr[w].i \in Thread /\ wr[w].n \in Nat /\ wr[w].b \in Binding \union {None}
           /\ wr[w].pc # "off" => wr[w].c \in Vctrl
  BY DEF JobTypes, Job, Pcs

\* Assigning where a job is.
LEMMA JobPc ==
    ASSUME JobTypes, NEW w \in Writers, NEW p \in Pcs, wr' = [wr EXCEPT ![w].pc = p]
    PROVE  JobSet(w, p, wr[w].i, wr[w].n, wr[w].b)
<1>1. wr \in [Writers -> Job]
  BY DEF JobTypes
<1> QED BY <1>1 DEF JobSet, Job, Pcs

\* ... and how many bindings it removed ...
LEMMA JobPcN ==
    ASSUME JobTypes, NEW w \in Writers, NEW p \in Pcs, NEW n \in Nat, wr' = [wr EXCEPT ![w].pc = p, ![w].n = n]
    PROVE  JobSet(w, p, wr[w].i, n, wr[w].b)
<1>1. wr \in [Writers -> Job]
  BY DEF JobTypes
<1> QED BY <1>1 DEF JobSet, Job, Pcs

\* ... and its iothread ...
LEMMA JobPcIN ==
    ASSUME JobTypes, NEW w \in Writers, NEW p \in Pcs, NEW i \in Thread, NEW n \in Nat,
           wr' = [wr EXCEPT ![w].pc = p, ![w].i = i, ![w].n = n]
    PROVE  JobSet(w, p, i, n, wr[w].b)
<1>1. wr \in [Writers -> Job]
  BY DEF JobTypes
<1> QED BY <1>1 DEF JobSet, Job, Pcs

\* ... or its new binding.
LEMMA JobPcB ==
    ASSUME JobTypes, NEW w \in Writers, NEW p \in Pcs, NEW b \in Binding, wr' = [wr EXCEPT ![w].pc = p, ![w].b = b]
    PROVE  JobSet(w, p, wr[w].i, wr[w].n, b)
<1>1. wr \in [Writers -> Job]
  BY DEF JobTypes
<1> QED BY <1>1 DEF JobSet, Job, Pcs

\* The next iothread of the loop, or the end of it.
LEMMA NextJob ==
    ASSUME JobTypes, NEW w \in Writers, NEW n \in Nat, NextThread(w, n)
    PROVE  \/ wr[w].i + 1 \in Thread /\ JobSet(w, "pause", wr[w].i + 1, n, wr[w].b)
           \/ wr[w].i = NThreads - 1 /\ JobSet(w, "bind", wr[w].i, n, wr[w].b)
<1>1. PICK k \in Thread : k = wr[w].i
  BY JobFields
<1>2. CASE k + 1 < NThreads
  <2>1. PICK j \in Thread : j = k + 1
    BY <1>2, Sizes DEF Thread
  <2>2. wr' = [wr EXCEPT ![w].pc = "pause", ![w].i = j, ![w].n = n]
    BY <1>1, <1>2, <2>1 DEF NextThread
  <2>3. JobSet(w, "pause", j, n, wr[w].b)
    BY <2>2, JobPcIN DEF Pcs
  <2> QED BY <1>1, <2>1, <2>3
<1>3. CASE ~(k + 1 < NThreads)
  <2>1. wr' = [wr EXCEPT ![w].pc = "bind", ![w].n = n]
    BY <1>1, <1>3 DEF NextThread
  <2>2. JobSet(w, "bind", wr[w].i, n, wr[w].b)
    BY <2>1, JobPcN DEF Pcs
  <2>3. k = NThreads - 1
    BY <1>3, Sizes DEF Thread
  <2> QED BY <1>1, <2>2, <2>3
<1> QED BY <1>2, <1>3

\* The threads do not move and the lists stay.
LEMMA WriterMove ==
    ASSUME PollInv, UNCHANGED <<at, bindings, todo, binding>>, park' \in [Thread -> BOOLEAN],
           NEW b, OnlyBs(b), b \in Binding => bs'[b].state = bs[b].state
    PROVE  ThreadTypes' /\ BindTypes' /\ Lists' /\ \A u \in Thread : Visit(u)'
<1>1. ThreadTypes /\ BindTypes /\ Lists
  BY TypeParts DEF PollInv
<1>2. ThreadTypes' /\ BindTypes'
  BY <1>1 DEF ThreadTypes, BindTypes, OnlyBs
<1>3. Lists'
  BY <1>1, ListsKept DEF OnlyBs
<1>4. ASSUME NEW u \in Thread PROVE Visit(u)'
  <2>1. ASSUME at[u] \in Visiting PROVE bs'[Cur(u)].state = bs[Cur(u)].state
    <3>1. Cur(u) \in Binding
      BY <2>1, InVisit
    <3> QED BY <3>1 DEF OnlyBs
  <2>2. Visit(u)
    BY DEF PollInv
  <2> QED BY <2>1, <2>2, VisitKept
<1> QED BY <1>2, <1>3, <1>4

\* What is to be shown of a writer's step.
WriterNext == PollNext /\ JobTypes'

\* The types of the other variables of JobTypes.
LEMMA JobRest ==
    ASSUME JobTypes, UNCHANGED <<io_idle, paused, guest>>, NEW w \in Writers, wr' \in [Writers -> Job],
           OneWriter, wr'[w].pc # "off" => wr'[w].c \in Vctrl
    PROVE  JobTypes'
  BY DEF JobTypes, OneWriter

\* Beginning.
LEMMA StoreBeginPoll ==
    ASSUME PollInv, OneWriter, NEW w \in Writers, NEW c \in Vctrl, NEW to \in Thread, StoreBegin(w, c, to)
    PROVE  WriterNext
<1>1. BindTypes /\ ThreadTypes /\ JobTypes
  BY TypeParts DEF PollInv
<1>2. PICK old \in BOOLEAN : old = (binding[c] # None /\ bs[binding[c]].poll_enabled)
  OBVIOUS
<1>11. [pc |-> "pause", c |-> c, to |-> to, i |-> 0, n |-> 0, b |-> None, old |-> old] \in Job
  BY Sizes DEF Job
<1>3. PICK j \in Job : j = [pc |-> "pause", c |-> c, to |-> to, i |-> 0, n |-> 0, b |-> None, old |-> old]
  BY <1>11
<1>4. wr' = [wr EXCEPT ![w] = j] /\ UNCHANGED <<at, bindings, todo, binding, bs, park, io_idle, paused, guest>>
  BY <1>2, <1>3 DEF StoreBegin, threadVars, ctrlVars
<1>5. wr' \in [Writers -> Job] /\ wr'[w] = j
  BY <1>1, <1>4 DEF JobTypes
<1>6. JobTypes'
  BY <1>1, <1>3, <1>4, <1>5, JobRest
<1>7. Moving(w)'
  BY <1>3, <1>5 DEF Moving
<1>8. PICK b : b \notin Binding
  BY IoAssumption
<1>9. ThreadTypes' /\ BindTypes' /\ Lists' /\ \A u \in Thread : Visit(u)'
  BY <1>1, <1>4, <1>8, BsSame, WriterMove DEF ThreadTypes
<1> QED BY <1>6, <1>7, <1>9 DEF WriterNext, PollNext, OneWriter

\* Pausing.
LEMMA UnbindPausePoll ==
    ASSUME PollInv, OneWriter, NEW w \in Writers, UnbindPause(w)
    PROVE  WriterNext
<1>1. BindTypes /\ ThreadTypes /\ JobTypes /\ Moving(w)
  BY TypeParts DEF PollInv
<1>2. /\ wr[w].pc = "pause" /\ io_pause(wr[w].c) /\ wr' = [wr EXCEPT ![w].pc = "del"]
      /\ UNCHANGED <<at, bindings, todo, binding, io_idle, paused, guest>>
  BY DEF UnbindPause, ctrlVars
<1>3. PICK c \in Vctrl : c = wr[w].c
  BY <1>1, <1>2, JobFields
<1>4. JobSet(w, "del", wr[w].i, wr[w].n, wr[w].b)
  BY <1>1, <1>2, JobPc DEF Pcs
<1>5. Toggled(c, FALSE)
  BY <1>2, <1>3, Toggles
<1>6. PICK b : OnlyBs(b) /\ (b \in Binding => bs'[b].state = bs[b].state)
  <2>1. PICK x : x \notin Binding
    BY IoAssumption
  <2>2. CASE binding[c] = None
    BY <1>1, <1>5, <2>1, <2>2, BsSame DEF Toggled
  <2>3. CASE binding[c] # None
    BY <1>5, <2>3 DEF Toggled
  <2> QED BY <2>2, <2>3
<1>7. ThreadTypes' /\ BindTypes' /\ Lists' /\ \A u \in Thread : Visit(u)'
  BY <1>2, <1>5, <1>6, WriterMove DEF Toggled
<1>8. Moving(w)'
  <2>1. \A x : Homed(x)' <=> Homed(x)
    BY <1>2 DEF Homed, Listed
  <2>2. \A x \in Binding : bs'[x].vctrl = bs[x].vctrl
    BY <1>6 DEF OnlyBs
  <2> QED BY <1>1, <1>2, <1>4, <2>1, <2>2 DEF Moving, JobSet
<1>9. JobTypes'
  BY <1>1, <1>2, <1>3, <1>4, JobRest DEF JobSet
<1> QED BY <1>7, <1>8, <1>9 DEF WriterNext, PollNext, OneWriter

\* A list has finitely many elements.
LEMMA RangeFinite == ASSUME NEW B, NEW s \in Seq(B) PROVE IsFiniteSet(Range(s))
<1>1. PICK n \in Nat : n = Len(s)
  OBVIOUS
<1>2. DOMAIN s = 1 .. n
  BY <1>1
<1>3. s \in [1 .. n -> Range(s)] /\ \A y \in Range(s) : \E x \in 1 .. n : s[x] = y
  BY <1>1, <1>2 DEF Range
<1>4. s \in Surjection(1 .. n, Range(s))
  BY <1>3 DEF Surjection
<1>5. IsFiniteSet(1 .. n)
  BY FS_Interval
<1> QED BY <1>4, <1>5, FS_Surjection

\* How many elements were removed, and whether there were some.
LEMMA CountOf ==
    ASSUME NEW B, NEW s \in Seq(B), NEW S, S \subseteq Range(s)
    PROVE  Cardinality(S) \in Nat /\ (Cardinality(S) = 0 <=> S = {})
<1>1. IsFiniteSet(S)
  BY RangeFinite, FS_Subset
<1> QED BY <1>1, FS_CardinalityType, FS_EmptySet

\* The bindings of controller c leave the list of iothread i, n have in all.
Removed(w, i, c, n) ==
    /\ bindings' \in [Thread -> Seq(Binding)] /\ \A t \in Thread : t # i => bindings'[t] = bindings[t]
    /\ IsInjective(bindings[i]) => IsInjective(bindings'[i])
    /\ \A t \in Thread : \A b \in Binding : Listed(t, b)' <=> Listed(t, b) /\ ~(t = i /\ bs[b].vctrl = c)
    /\ n > 0 => \/ wr[w].n > 0
                \/ \E b \in Binding : Listed(i, b) /\ bs[b].vctrl = c
    /\ n = 0 => wr[w].n = 0 /\ \A b \in Binding : ~(Listed(i, b) /\ bs[b].vctrl = c)
    /\ IF n > 0 THEN JobSet(w, "null", i, n, wr[w].b) ELSE NextThread(w, n)

\* What UnbindDel does.
LEMMA DelEffect ==
    ASSUME PollInv, NEW w \in Writers, UnbindDel(w), NEW i \in Thread, i = wr[w].i, NEW c \in Vctrl, c = wr[w].c
    PROVE  \E n \in Nat : Removed(w, i, c, n)
<1>1. ThreadTypes /\ JobTypes
  BY TypeParts DEF PollInv
<1>2. PICK s \in Seq(Binding) : s = bindings[i]
  BY <1>1 DEF ThreadTypes
<1>3. PICK S : S = {b \in Range(s) : bs[b].vctrl = c}
  OBVIOUS
<1>4. PICK k \in Nat : k = Cardinality(S) /\ (k = 0 <=> S = {})
  BY <1>3, CountOf
<1>5. PICK m \in Nat : m = wr[w].n
  BY <1>1, JobFields
<1>6. PICK n \in Nat : n = m + k
  OBVIOUS
<1>7. PICK r : r = Without(s, S)
  OBVIOUS
<1>8. r \in Seq(Binding) /\ Range(r) = Range(s) \ S /\ (IsInjective(s) => IsInjective(r))
  BY <1>7, WithoutSpec
<1>9. /\ bindings' = [bindings EXCEPT ![i] = r]
      /\ IF n > 0 THEN wr' = [wr EXCEPT ![w].pc = "null", ![w].n = n] ELSE NextThread(w, n)
  BY <1>2, <1>3, <1>4, <1>5, <1>6, <1>7 DEF UnbindDel
<1>10. /\ bindings' \in [Thread -> Seq(Binding)] /\ bindings'[i] = r
       /\ \A t \in Thread : t # i => bindings'[t] = bindings[t]
  BY <1>1, <1>8, <1>9 DEF ThreadTypes
<1>11. \A t \in Thread : \A b \in Binding : Listed(t, b)' <=> Listed(t, b) /\ ~(t = i /\ bs[b].vctrl = c)
  BY <1>2, <1>3, <1>8, <1>10 DEF Listed
<1>12. \A b \in Range(s) : b \in Binding
  BY DEF Range
<1>13. \A b : b \in S <=> b \in Binding /\ Listed(i, b) /\ bs[b].vctrl = c
  BY <1>2, <1>3, <1>12 DEF Listed
<1>14. n > 0 => m > 0 \/ \E b \in Binding : Listed(i, b) /\ bs[b].vctrl = c
  BY <1>4, <1>6, <1>13
<1>15. n = 0 => m = 0 /\ \A b \in Binding : ~(Listed(i, b) /\ bs[b].vctrl = c)
  <2>1. n = 0 => m = 0 /\ k = 0
    BY <1>6
  <2> QED BY <1>4, <1>13, <2>1
<1>16. IF n > 0 THEN JobSet(w, "null", i, n, wr[w].b) ELSE NextThread(w, n)
  BY <1>1, <1>9, JobPcN DEF Pcs
<1>17. IsInjective(bindings[i]) => IsInjective(bindings'[i])
  BY <1>2, <1>8, <1>10
<1> QED BY <1>5, <1>10, <1>11, <1>14, <1>15, <1>16, <1>17 DEF Removed

\* Removing the controller's bindings from a list.
LEMMA UnbindDelPoll ==
    ASSUME PollInv, OneWriter, NEW w \in Writers, UnbindDel(w)
    PROVE  WriterNext
<1>1. BindTypes /\ ThreadTypes /\ JobTypes /\ Moving(w) /\ Lists
  BY TypeParts DEF PollInv
<1>2. /\ wr[w].pc = "del" /\ ~InPass(wr[w].i)
      /\ UNCHANGED <<at, park, todo, active, bs, binding, vlock, io_idle, paused, guest>>
  BY DEF UnbindDel, ctrlVars
<1>3. PICK i \in Thread : i = wr[w].i
  BY <1>1, JobFields
<1>4. PICK c \in Vctrl : c = wr[w].c
  BY <1>1, <1>2, JobFields
<1>5. PICK n \in Nat : Removed(w, i, c, n)
  BY <1>3, <1>4, DelEffect
<1>6. \A t \in Thread : \A b \in Binding : Listed(t, b)' <=> Listed(t, b) /\ ~(t = i /\ bs[b].vctrl = c)
  BY <1>5 DEF Removed
<1>7. \A b \in Binding : Homed(b)' => Homed(b)
  BY <1>6 DEF Homed
<1>8. ThreadTypes' /\ BindTypes'
  BY <1>1, <1>2, <1>5 DEF ThreadTypes, BindTypes, Removed
<1>9. Lists'
  <2>1. \A t \in Thread : IsInjective(bindings[t])'
    BY <1>1, <1>5 DEF Lists, Removed
  <2>2. \A t, u \in Thread : \A b \in Binding : Listed(t, b)' /\ Listed(u, b)' => t = u
    BY <1>1, <1>6 DEF Lists
  <2>3. \A b \in Binding : Homed(b)' => bs'[b].vctrl \in Vctrl /\ binding'[bs'[b].vctrl] = b
    BY <1>1, <1>2, <1>7 DEF Lists
  <2>4. \A d \in Vctrl : binding'[d] # None => bs'[binding'[d]].vctrl = d
    BY <1>1, <1>2 DEF Lists
  <2> QED BY <2>1, <2>2, <2>3, <2>4 DEF Lists
<1>10. ASSUME NEW u \in Thread PROVE Visit(u)'
  <2>1. Visit(u)
    BY DEF PollInv
  <2>2. CASE u # i
    BY <1>2, <1>5, <2>1, <2>2, VisitKept DEF Removed
  <2>3. CASE u = i
    <3>1. at'[u] \in {"top", "idle", "parkme"}
      BY <1>2, <1>3, <2>3 DEF InPass
    <3> QED BY <3>1 DEF Visit, InPass, Visiting
  <2> QED BY <2>2, <2>3
<1>11. \E p \in {"pause", "null", "bind"}, j \in Thread : JobSet(w, p, j, n, wr[w].b) /\ (p = "null" => n > 0)
  <2>1. CASE n > 0
    BY <1>5, <2>1 DEF Removed
  <2>2. CASE ~(n > 0)
    <3>1. NextThread(w, n)
      BY <1>5, <2>2 DEF Removed
    <3> QED BY <1>1, <1>3, <3>1, NextJob
  <2> QED BY <2>1, <2>2
<1>12. ASSUME n > 0, NEW b \in Binding, bs[b].vctrl = c PROVE ~(Homed(b)')
  <2>1. CASE wr[w].n > 0
    BY <1>1, <1>2, <1>4, <1>7, <1>12, <2>1 DEF Moving
  <2>2. CASE ~(wr[w].n > 0)
    <3>1. PICK x \in Binding : Listed(i, x) /\ bs[x].vctrl = c
      BY <1>5, <1>12, <2>2 DEF Removed
    <3>2. binding[c] = x
      BY <1>1, <3>1 DEF Lists, Homed
    <3>3. ASSUME NEW t \in Thread, Listed(t, b)' PROVE FALSE
      <4>1. Listed(t, b) /\ t # i
        BY <1>6, <1>12, <3>3
      <4>2. b = x
        BY <1>1, <1>12, <3>2, <4>1 DEF Lists, Homed
      <4> QED BY <1>1, <3>1, <4>1, <4>2 DEF Lists
    <3> QED BY <3>3 DEF Homed
  <2> QED BY <2>1, <2>2
<1>13. Moving(w)'
  BY <1>1, <1>2, <1>4, <1>11, <1>12 DEF Moving, JobSet
<1>14. JobTypes'
  BY <1>1, <1>2, <1>4, <1>11, JobRest DEF JobSet
<1> QED BY <1>8, <1>9, <1>10, <1>13, <1>14 DEF WriterNext, PollNext, OneWriter

\* There is no binding structure None.
LEMMA NoneOut == None \notin Binding
  BY IoAssumption

\* Bindings on a list keep their records: lists and visits are as before.
LEMMA HomedKept ==
    ASSUME PollInv, UNCHANGED <<at, park, bindings, todo>>, \A x \in Binding : Homed(x) => bs'[x] = bs[x]
    PROVE  /\ ThreadTypes' /\ \A u \in Thread : Visit(u)'
           /\ \A x : Homed(x)' <=> Homed(x)
           /\ \A t \in Thread : IsInjective(bindings[t])'
           /\ \A t, u \in Thread : \A b \in Binding : Listed(t, b)' /\ Listed(u, b)' => t = u
<1>1. ThreadTypes /\ Lists
  BY TypeParts DEF PollInv
<1>2. \A x : \A t \in Thread : Listed(t, x)' <=> Listed(t, x)
  BY DEF Listed
<1>3. \A x : Homed(x)' <=> Homed(x)
  BY <1>2 DEF Homed
<1>4. ASSUME NEW u \in Thread PROVE Visit(u)'
  <2>1. ASSUME at[u] \in Visiting PROVE bs'[Cur(u)] = bs[Cur(u)]
    <3>1. InPass(u) /\ todo[u] # <<>>
      BY <2>1, InVisit
    <3>2. Cur(u) \in Binding /\ Homed(Cur(u))
      BY <3>1, Visited DEF Homed
    <3> QED BY <3>2
  <2>2. Visit(u)
    BY DEF PollInv
  <2> QED BY <2>1, <2>2, VisitKept
<1> QED BY <1>1, <1>2, <1>3, <1>4 DEF ThreadTypes, Lists

\* Clearing the controller's binding.
LEMMA UnbindNullPoll ==
    ASSUME PollInv, OneWriter, NEW w \in Writers, UnbindNull(w)
    PROVE  WriterNext
<1>1. BindTypes /\ ThreadTypes /\ JobTypes /\ Moving(w) /\ Lists
  BY TypeParts DEF PollInv
<1>2. /\ wr[w].pc = "null" /\ NextThread(w, wr[w].n)
      /\ UNCHANGED <<at, park, bindings, todo, active, io_idle, paused, guest>>
  BY DEF UnbindNull, ctrlVars, threadVars
<1>3. PICK c \in Vctrl : c = wr[w].c
  BY <1>1, <1>2, JobFields
<1>4. PICK n \in Nat : n = wr[w].n /\ n > 0
  BY <1>1, <1>2, JobFields DEF Moving
<1>5. /\ binding' = [binding EXCEPT ![c] = None]
      /\ bs' = [b \in Binding |-> IF b = binding[c] /\ Unlisted(b) THEN Unused ELSE bs[b]]
  BY <1>3 DEF UnbindNull
<1>6. Unused \in BsRec
  BY Sizes DEF Unused, BsRec
<1>7. bs' \in [Binding -> BsRec] /\ \A b \in Binding : b # binding[c] \/ ~Unlisted(b) => bs'[b] = bs[b]
  BY <1>1, <1>5, <1>6 DEF BindTypes
<1>8. /\ binding' \in [Vctrl -> Binding \union {None}] /\ binding'[c] = None
      /\ \A d \in Vctrl : d # c => binding'[d] = binding[d]
  BY <1>1, <1>5 DEF BindTypes
<1>9. \A x \in Binding : Homed(x) => bs'[x] = bs[x]
  BY <1>7 DEF Unlisted, Homed, Listed
<1>10. /\ ThreadTypes' /\ \A u \in Thread : Visit(u)'
       /\ \A x : Homed(x)' <=> Homed(x)
       /\ \A t \in Thread : IsInjective(bindings[t])'
       /\ \A t, u \in Thread : \A b \in Binding : Listed(t, b)' /\ Listed(u, b)' => t = u
  BY <1>2, <1>9, HomedKept
<1>11. \A x \in Binding : Homed(x) => bs[x].vctrl # c
  BY <1>1, <1>2, <1>3, <1>4 DEF Moving
<1>12. Lists'
  <2>1. \A b \in Binding : Homed(b)' => bs'[b].vctrl \in Vctrl /\ binding'[bs'[b].vctrl] = b
    BY <1>1, <1>8, <1>9, <1>10, <1>11 DEF Lists
  <2>2. ASSUME NEW d \in Vctrl, binding'[d] # None PROVE bs'[binding'[d]].vctrl = d
    <3>1. d # c /\ binding'[d] = binding[d] /\ binding[d] \in Binding /\ bs[binding[d]].vctrl = d
      BY <1>1, <1>8, <2>2 DEF Lists, BindTypes
    <3>2. binding[d] # binding[c]
      BY <1>1, <3>1, NoneOut DEF Lists
    <3> QED BY <1>7, <3>1, <3>2
  <2> QED BY <1>10, <2>1, <2>2 DEF Lists
<1>13. \E p \in {"pause", "bind"}, j \in Thread : JobSet(w, p, j, n, wr[w].b)
  BY <1>1, <1>2, <1>4, NextJob, JobFields
<1>14. Moving(w)'
  <2>1. \A b \in Binding : bs'[b].vctrl = c => ~(Homed(b)')
    BY <1>9, <1>10, <1>11
  <2> QED BY <1>1, <1>2, <1>3, <1>13, <2>1 DEF Moving, JobSet
<1>15. JobTypes'
  BY <1>1, <1>2, <1>3, <1>13, JobRest DEF JobSet
<1>16. BindTypes'
  BY <1>7, <1>8 DEF BindTypes
<1> QED BY <1>10, <1>12, <1>14, <1>15, <1>16 DEF WriterNext, PollNext, OneWriter

\* There are at least as many bindings as controllers, so a controller
\* without one leaves one free.
LEMMA BindingLeft ==
    ASSUME BindTypes, NEW c \in Vctrl, binding[c] = None
    PROVE  \E b \in Binding : \A d \in Vctrl : binding[d] # b
<1> SUFFICES ASSUME \A b \in Binding : \E d \in Vctrl : binding[d] = b PROVE FALSE
  OBVIOUS
<1>1. PICK g \in Injection(Vctrl, Binding) : TRUE
  BY IoAssumption
<1>2. PICK D : D = {d \in Vctrl : binding[d] \in Binding}
  OBVIOUS
<1>3. D \in SUBSET (Vctrl \ {c})
  BY <1>2, IoAssumption
<1>4. IsFiniteSet(Vctrl \ {c}) /\ Cardinality(Vctrl \ {c}) = Cardinality(Vctrl) - 1 /\ Cardinality(Vctrl) \in Nat
  BY IoAssumption, FS_RemoveElement, FS_CardinalityType
<1>5. IsFiniteSet(D) /\ Cardinality(D) <= Cardinality(Vctrl) - 1
  BY <1>3, <1>4, FS_Subset
<1>6. PICK f : f = [d \in D |-> binding[d]]
  OBVIOUS
<1>7. f \in Surjection(D, Binding)
  <2>1. f \in [D -> Binding]
    BY <1>2, <1>6
  <2>2. \A b \in Binding : \E d \in D : f[d] = b
    BY <1>2, <1>6
  <2> QED BY <2>1, <2>2 DEF Surjection
<1>8. IsFiniteSet(Binding) /\ Cardinality(Binding) <= Cardinality(D)
  BY <1>5, <1>7, FS_Surjection
<1>9. Cardinality(Vctrl) <= Cardinality(Binding)
  BY <1>1, <1>8, FS_Injection
<1>10. Cardinality(D) \in Nat /\ Cardinality(Binding) \in Nat
  BY <1>5, <1>8, FS_CardinalityType
<1> QED BY <1>4, <1>5, <1>8, <1>9, <1>10

\* Controller c gets binding b, which was free.
Bound(w, c, b) ==
    /\ b # None /\ ~Homed(b) /\ \A d \in Vctrl : binding[d] # b
    /\ bs' \in [Binding -> BsRec] /\ bs'[b].vctrl = c /\ bs'[b].poll_enabled = wr[w].old
    /\ \A x \in Binding : x # b => bs'[x] = bs[x]
    /\ binding' \in [Vctrl -> Binding \union {None}] /\ binding'[c] = b
    /\ \A d \in Vctrl : d # c => binding'[d] = binding[d]
    /\ JobSet(w, "add", wr[w].i, wr[w].n, b)

\* What BindSet does.
LEMMA SetEffect ==
    ASSUME PollInv, OneWriter, NEW w \in Writers, BindSet(w), NEW c \in Vctrl, c = wr[w].c, binding[c] = None
    PROVE  \E b \in Binding : Bound(w, c, b)
<1>1. BindTypes /\ JobTypes /\ Moving(w) /\ Lists
  BY TypeParts DEF PollInv
<1>2. wr[w].pc = "bind"
  BY DEF BindSet
<1>3. \E x \in Binding : x \in Free
  <2>1. PICK x \in Binding : \A d \in Vctrl : binding[d] # x
    BY <1>1, BindingLeft
  <2>2. ~Homed(x)
    BY <1>1, <2>1 DEF Lists
  <2>3. \A v \in Writers : wr[v].b # x
    BY <1>1, <1>2, <2>1, NoneOut DEF OneWriter, Moving
  <2>4. Unlisted(x)
    BY <2>2, <2>3 DEF Unlisted, Homed, Listed
  <2> QED BY <2>1, <2>4 DEF Free
<1>4. PICK b : b = CHOOSE x \in Free : TRUE
  OBVIOUS
<1>5. b \in Binding /\ b # None /\ ~Homed(b) /\ \A d \in Vctrl : binding[d] # b
  <2>1. b \in Free
    BY <1>3, <1>4
  <2> QED BY <2>1, NoneOut DEF Free, Unlisted, Homed, Listed
<1>6. PICK r : r = [vctrl |-> c, it |-> wr[w].to, poll_enabled |-> wr[w].old, state |-> "ZERO", idle |-> FALSE]
  OBVIOUS
<1>7. r \in BsRec /\ r.vctrl = c /\ r.poll_enabled = wr[w].old
  BY <1>1, <1>6, JobFields DEF BsRec
<1>8. bs' = [bs EXCEPT ![b] = r] /\ binding' = [binding EXCEPT ![c] = b] /\ wr' = [wr EXCEPT ![w].pc = "add", ![w].b = b]
  BY <1>4, <1>6 DEF BindSet
<1>9. /\ bs' \in [Binding -> BsRec] /\ bs'[b] = r /\ \A x \in Binding : x # b => bs'[x] = bs[x]
      /\ binding' \in [Vctrl -> Binding \union {None}] /\ binding'[c] = b
      /\ \A d \in Vctrl : d # c => binding'[d] = binding[d]
  BY <1>1, <1>5, <1>7, <1>8 DEF BindTypes
<1>10. JobSet(w, "add", wr[w].i, wr[w].n, b)
  BY <1>1, <1>5, <1>8, JobPcB DEF Pcs
<1>11. Bound(w, c, b)
  BY <1>5, <1>7, <1>9, <1>10 DEF Bound
<1> QED BY <1>5, <1>11

\* A new binding structure for the controller.
LEMMA BindSetPoll ==
    ASSUME PollInv, OneWriter, NEW w \in Writers, BindSet(w)
    PROVE  WriterNext
<1>1. BindTypes /\ ThreadTypes /\ JobTypes /\ Moving(w) /\ Lists
  BY TypeParts DEF PollInv
<1>2. wr[w].pc = "bind" /\ UNCHANGED <<at, park, bindings, todo, active, io_idle, paused, guest>>
  BY DEF BindSet, ctrlVars, threadVars
<1>3. PICK c \in Vctrl : c = wr[w].c
  BY <1>1, <1>2, JobFields
<1>4. CASE binding[c] # None
  <2>1. wr' = [wr EXCEPT ![w] = NoJob] /\ UNCHANGED <<bs, binding>>
    BY <1>3, <1>4 DEF BindSet
  <2>2. NoJob \in Job
    BY Sizes DEF NoJob, Job
  <2>3. wr' \in [Writers -> Job] /\ wr'[w] = NoJob
    BY <1>1, <2>1, <2>2 DEF JobTypes
  <2>4. JobTypes' /\ Moving(w)'
    BY <1>1, <1>2, <2>3, JobRest DEF NoJob, Moving
  <2>5. PICK x : x \notin Binding
    BY IoAssumption
  <2>6. ThreadTypes' /\ BindTypes' /\ Lists' /\ \A u \in Thread : Visit(u)'
    BY <1>1, <1>2, <2>1, <2>5, BsSame, WriterMove DEF ThreadTypes
  <2> QED BY <2>4, <2>6 DEF WriterNext, PollNext, OneWriter
<1>5. CASE binding[c] = None
  <2>1. PICK b \in Binding : Bound(w, c, b)
    BY <1>3, <1>5, SetEffect
  <2>2. /\ b # None /\ ~Homed(b) /\ (\A d \in Vctrl : binding[d] # b) /\ JobSet(w, "add", wr[w].i, wr[w].n, b)
        /\ bs' \in [Binding -> BsRec] /\ bs'[b].vctrl = c /\ (\A x \in Binding : x # b => bs'[x] = bs[x])
        /\ binding' \in [Vctrl -> Binding \union {None}] /\ binding'[c] = b
        /\ \A d \in Vctrl : d # c => binding'[d] = binding[d]
    BY <2>1 DEF Bound
  <2>3. /\ ThreadTypes' /\ \A u \in Thread : Visit(u)'
        /\ \A x : Homed(x)' <=> Homed(x)
        /\ \A t \in Thread : IsInjective(bindings[t])'
        /\ \A t, u \in Thread : \A x \in Binding : Listed(t, x)' /\ Listed(u, x)' => t = u
    BY <1>2, <2>2, HomedKept
  <2>4. Lists'
    <3>1. ASSUME NEW x \in Binding, Homed(x)' PROVE bs'[x].vctrl \in Vctrl /\ binding'[bs'[x].vctrl] = x
      <4>1. x # b /\ bs'[x] = bs[x] /\ bs[x].vctrl \in Vctrl /\ binding[bs[x].vctrl] = x
        BY <1>1, <2>2, <2>3, <3>1 DEF Lists
      <4>2. bs[x].vctrl # c
        BY <1>5, <4>1, NoneOut
      <4> QED BY <2>2, <4>1, <4>2
    <3>2. ASSUME NEW d \in Vctrl, binding'[d] # None PROVE bs'[binding'[d]].vctrl = d
      BY <1>1, <2>2, <3>2 DEF Lists, BindTypes
    <3> QED BY <2>3, <3>1, <3>2 DEF Lists
  <2>5. Moving(w)'
    BY <1>3, <2>2, <2>3 DEF Moving, JobSet
  <2>6. JobTypes'
    BY <1>1, <1>2, <1>3, <2>2, JobRest DEF JobSet
  <2>7. BindTypes'
    BY <2>2 DEF BindTypes
  <2> QED BY <2>3, <2>4, <2>5, <2>6, <2>7 DEF WriterNext, PollNext, OneWriter
<1> QED BY <1>4, <1>5

\* The new binding on the iothread's list.
LEMMA BindAddPoll ==
    ASSUME PollInv, OneWriter, NEW w \in Writers, BindAdd(w)
    PROVE  WriterNext
<1>1. BindTypes /\ ThreadTypes /\ JobTypes /\ Moving(w) /\ Lists
  BY TypeParts DEF PollInv
<1>2. /\ wr[w].pc = "add" /\ ~InPass(wr[w].to) /\ wr' = [wr EXCEPT ![w] = NoJob]
      /\ UNCHANGED <<at, park, todo, active, bs, binding, io_idle, paused, guest>>
  BY DEF BindAdd, ctrlVars
<1>3. PICK c \in Vctrl : c = wr[w].c
  BY <1>1, <1>2, JobFields
<1>4. PICK k \in Thread : k = wr[w].to
  BY <1>1, JobFields
<1>5. PICK b \in Binding : b = wr[w].b
  BY <1>1, <1>2 DEF Moving
<1>6. binding[c] = b /\ ~Homed(b) /\ bs[b].vctrl = c /\ b # None
  BY <1>1, <1>2, <1>3, <1>5, NoneOut DEF Moving, Lists
<1>7. PICK s \in Seq(Binding) : s = bindings[k]
  BY <1>1 DEF ThreadTypes
<1>8. Append(s, b) \in Seq(Binding) /\ Range(Append(s, b)) = Range(s) \union {b}
  BY AddedLast
<1>9. IsInjective(Append(s, b))
  <2>1. IsInjective(s) /\ b \notin Range(s)
    BY <1>1, <1>6, <1>7 DEF Lists, Homed, Listed
  <2> QED BY <2>1, AddedNew
<1>10. PICK r : r = Append(s, b)
  OBVIOUS
<1>11. bindings' = [bindings EXCEPT ![k] = r]
  BY <1>4, <1>5, <1>7, <1>10 DEF BindAdd
<1>12. /\ bindings' \in [Thread -> Seq(Binding)] /\ bindings'[k] = r
       /\ \A t \in Thread : t # k => bindings'[t] = bindings[t]
  BY <1>1, <1>8, <1>10, <1>11 DEF ThreadTypes
<1>13. ASSUME NEW t \in Thread, NEW x \in Binding
       PROVE  Listed(t, x)' <=> Listed(t, x) \/ (t = k /\ x = b)
  BY <1>7, <1>8, <1>10, <1>12 DEF Listed
<1>14. \A x \in Binding : Homed(x)' => Homed(x) \/ x = b
  BY <1>13 DEF Homed
<1>15. ThreadTypes' /\ BindTypes'
  BY <1>1, <1>2, <1>12 DEF ThreadTypes, BindTypes
<1>16. Lists'
  <2>1. \A t \in Thread : IsInjective(bindings[t])'
    BY <1>1, <1>9, <1>10, <1>12 DEF Lists
  <2>2. \A t, u \in Thread : \A x \in Binding : Listed(t, x)' /\ Listed(u, x)' => t = u
    BY <1>1, <1>6, <1>13 DEF Lists, Homed
  <2>3. \A x \in Binding : Homed(x)' => bs'[x].vctrl \in Vctrl /\ binding'[bs'[x].vctrl] = x
    BY <1>1, <1>2, <1>6, <1>14 DEF Lists
  <2>4. \A d \in Vctrl : binding'[d] # None => bs'[binding'[d]].vctrl = d
    BY <1>1, <1>2 DEF Lists
  <2> QED BY <2>1, <2>2, <2>3, <2>4 DEF Lists
<1>17. ASSUME NEW u \in Thread PROVE Visit(u)'
  <2>1. Visit(u)
    BY DEF PollInv
  <2>2. CASE u # k
    BY <1>2, <1>12, <2>1, <2>2, VisitKept
  <2>3. CASE u = k
    <3>1. at'[u] \in {"top", "idle", "parkme"}
      BY <1>2, <1>4, <2>3 DEF InPass
    <3> QED BY <3>1 DEF Visit, InPass, Visiting
  <2> QED BY <2>2, <2>3
<1>18. NoJob \in Job
  BY Sizes DEF NoJob, Job
<1>19. wr' \in [Writers -> Job] /\ wr'[w] = NoJob
  BY <1>1, <1>2, <1>18 DEF JobTypes
<1>20. JobTypes' /\ Moving(w)'
  BY <1>1, <1>2, <1>19, JobRest DEF NoJob, Moving
<1> QED BY <1>15, <1>16, <1>17, <1>20 DEF WriterNext, PollNext, OneWriter

\* Every step of a writer.
LEMMA StorePoll == ASSUME PollInv, OneWriter, NEW w \in Writers, StoreStep(w) PROVE WriterNext
  BY StoreBeginPoll, UnbindPausePoll, UnbindDelPoll, UnbindNullPoll, BindSetPoll, BindAddPoll DEF StoreStep

(***************************************************************************)
(* Types of the queues, the locks and the writers.                         *)
(***************************************************************************)
Restful == QueueTypes /\ LockTypes /\ JobTypes

\* The queue pair keeps these.
SameEnds(c)  == vq'[c].head = vq[c].head /\ vq'[c].eidx = vq[c].eidx
SameCount(c) == hw'[c] = hw[c] /\ vq'[c].unread = vq[c].unread

\* Reaping completions.
LEMMA ReapTypes ==
    ASSUME QueueTypes, NEW c \in Vctrl, vq' = [vq EXCEPT ![c].unread = vq[c].unread + hw[c].done],
           hw' = [hw EXCEPT ![c].done = 0]
    PROVE  QueueTypes' /\ OnlyQueue(c) /\ SameEnds(c) /\ vq'[c].tail = vq[c].tail
<1>1. /\ vq[c] \in VqRec /\ hw[c] \in HwRec /\ vq[c].unread \in Nat /\ vq[c].consumed \in Nat
      /\ hw[c].pending \in Nat /\ hw[c].done \in Nat
      /\ hw[c].pending + hw[c].done + vq[c].unread + vq[c].consumed <= Size - 1
  BY QueueNats
<1>2. PICK u \in Nat : u = vq[c].unread + hw[c].done
  BY <1>1
<1>3. u \in Idx /\ 0 \in Idx
  BY <1>1, <1>2, Sizes DEF Idx
<1>4. PICK q \in VqRec : q = [vq[c] EXCEPT !.unread = u]
  BY <1>1, <1>3 DEF VqRec
<1>5. PICK h \in HwRec : h = [hw[c] EXCEPT !.done = 0]
  BY <1>1, <1>3 DEF HwRec
<1>6. /\ q.unread = u /\ q.consumed = vq[c].consumed /\ q.head = vq[c].head /\ q.eidx = vq[c].eidx
      /\ q.tail = vq[c].tail /\ h.pending = hw[c].pending /\ h.done = 0
  BY <1>1, <1>4, <1>5 DEF VqRec, HwRec
<1>7. vq' = [vq EXCEPT ![c] = q] /\ hw' = [hw EXCEPT ![c] = h]
  BY <1>2, <1>4, <1>5 DEF QueueTypes
<1>8. h.pending + h.done + q.unread + q.consumed <= Size - 1
  BY <1>1, <1>2, <1>6
<1>9. QueueTypes' /\ OnlyQueue(c) /\ vq'[c] = q
  BY ONLY QueueTypes, c \in Vctrl, q \in VqRec, h \in HwRec, <1>7, <1>8, QueueSet
<1> QED BY <1>6, <1>9 DEF SameEnds

\* Moving the tail or the event index.
LEMMA EndTypes ==
    ASSUME QueueTypes, NEW c \in Vctrl, NEW x \in Idx, hw' = hw
    PROVE  /\ vq' = [vq EXCEPT ![c].tail = x] =>
                QueueTypes' /\ OnlyQueue(c) /\ SameEnds(c) /\ SameCount(c) /\ vq'[c].tail = x
           /\ vq' = [vq EXCEPT ![c].eidx = x] =>
                /\ QueueTypes' /\ OnlyQueue(c) /\ SameCount(c)
                /\ vq'[c].tail = vq[c].tail /\ vq'[c].head = vq[c].head /\ vq'[c].eidx = x
<1>1. /\ vq[c] \in VqRec /\ hw[c] \in HwRec
      /\ hw[c].pending + hw[c].done + vq[c].unread + vq[c].consumed <= Size - 1
  BY QueueNats
<1>2. hw' = [hw EXCEPT ![c] = hw[c]]
  BY DEF QueueTypes
<1>3. ASSUME vq' = [vq EXCEPT ![c].tail = x]
      PROVE  QueueTypes' /\ OnlyQueue(c) /\ SameEnds(c) /\ SameCount(c) /\ vq'[c].tail = x
  <2>1. PICK q \in VqRec : q = [vq[c] EXCEPT !.tail = x]
    BY <1>1 DEF VqRec
  <2>2. /\ q.unread = vq[c].unread /\ q.consumed = vq[c].consumed /\ q.head = vq[c].head
        /\ q.eidx = vq[c].eidx /\ q.tail = x
    BY <1>1, <2>1 DEF VqRec
  <2>3. vq' = [vq EXCEPT ![c] = q]
    BY <1>3, <2>1 DEF QueueTypes
  <2>4. hw[c].pending + hw[c].done + q.unread + q.consumed <= Size - 1
    BY <1>1, <2>2
  <2>5. PICK h \in HwRec : h = hw[c]
    BY <1>1
  <2>6. QueueTypes' /\ OnlyQueue(c) /\ vq'[c] = q /\ hw'[c] = h
    BY <1>2, <2>3, <2>4, <2>5, QueueSet
  <2> QED BY <2>2, <2>5, <2>6 DEF SameEnds, SameCount
<1>4. ASSUME vq' = [vq EXCEPT ![c].eidx = x]
      PROVE  /\ QueueTypes' /\ OnlyQueue(c) /\ SameCount(c)
             /\ vq'[c].tail = vq[c].tail /\ vq'[c].head = vq[c].head /\ vq'[c].eidx = x
  <2>1. PICK q \in VqRec : q = [vq[c] EXCEPT !.eidx = x]
    BY <1>1 DEF VqRec
  <2>2. /\ q.unread = vq[c].unread /\ q.consumed = vq[c].consumed /\ q.head = vq[c].head
        /\ q.tail = vq[c].tail /\ q.eidx = x
    BY <1>1, <2>1 DEF VqRec
  <2>3. vq' = [vq EXCEPT ![c] = q]
    BY <1>4, <2>1 DEF QueueTypes
  <2>4. hw[c].pending + hw[c].done + q.unread + q.consumed <= Size - 1
    BY <1>1, <2>2
  <2>5. PICK h \in HwRec : h = hw[c]
    BY <1>1
  <2>6. QueueTypes' /\ OnlyQueue(c) /\ vq'[c] = q /\ hw'[c] = h
    BY <1>2, <2>3, <2>4, <2>5, QueueSet
  <2> QED BY <2>2, <2>5, <2>6 DEF SameCount
<1> QED BY <1>3, <1>4

\* The guest sees a completion.
LEMMA ConsumeTypes ==
    ASSUME QueueTypes, NEW c \in Vctrl, GuestConsume(c)
    PROVE  QueueTypes' /\ OnlyQueue(c) /\ SameEnds(c) /\ vq'[c].tail = vq[c].tail
<1>1. /\ vq[c] \in VqRec /\ hw[c] \in HwRec /\ vq[c].unread \in Nat /\ vq[c].consumed \in Nat
      /\ hw[c].pending \in Nat /\ hw[c].done \in Nat
      /\ hw[c].pending + hw[c].done + vq[c].unread + vq[c].consumed <= Size - 1
  BY QueueNats
<1>2. /\ vq[c].unread > 0 /\ hw' = hw
      /\ vq' = [vq EXCEPT ![c].unread = vq[c].unread - 1, ![c].consumed = vq[c].consumed + 1]
  BY DEF GuestConsume
<1>3. PICK u \in Nat : u = vq[c].unread - 1
  BY <1>1, <1>2
<1>4. PICK k \in Nat : k = vq[c].consumed + 1
  BY <1>1
<1>5. u \in Idx /\ k \in Idx
  BY <1>1, <1>2, <1>3, <1>4, Sizes DEF Idx
<1>6. PICK p \in VqRec : p = [vq[c] EXCEPT !.unread = u]
  BY <1>1, <1>5 DEF VqRec
<1>7. PICK q \in VqRec : q = [p EXCEPT !.consumed = k]
  BY <1>5 DEF VqRec
<1>8. /\ q.unread = u /\ q.consumed = k /\ q.head = vq[c].head /\ q.eidx = vq[c].eidx /\ q.tail = vq[c].tail
  BY <1>1, <1>6, <1>7 DEF VqRec
<1>9. vq' = [vq EXCEPT ![c] = q]
  BY <1>1, <1>2, <1>3, <1>4, <1>6, <1>7 DEF QueueTypes, VqRec
<1>10. PICK h \in HwRec : h = hw[c]
  BY <1>1
<1>11. hw' = [hw EXCEPT ![c] = h]
  BY <1>2, <1>10 DEF QueueTypes
<1>12. h.pending + h.done + q.unread + q.consumed <= Size - 1
  <2>1. hw[c].pending + hw[c].done + u + k <= Size - 1
    BY <1>1, <1>3, <1>4, Sizes
  <2> QED BY <1>8, <1>10, <2>1
<1>13. QueueTypes' /\ OnlyQueue(c) /\ vq'[c] = q
  BY <1>9, <1>11, <1>12, QueueSet
<1> QED BY <1>8, <1>13 DEF SameEnds

\* A device completes a command.
LEMMA DoneTypes ==
    ASSUME QueueTypes, NEW c \in Vctrl, HostDone(c)
    PROVE  QueueTypes' /\ OnlyQueue(c) /\ vq' = vq
<1>1. /\ vq[c] \in VqRec /\ hw[c] \in HwRec /\ vq[c].unread \in Nat /\ vq[c].consumed \in Nat
      /\ hw[c].pending \in Nat /\ hw[c].done \in Nat
      /\ hw[c].pending + hw[c].done + vq[c].unread + vq[c].consumed <= Size - 1
  BY QueueNats
<1>2. /\ hw[c].pending > 0 /\ vq' = vq
      /\ hw' = [hw EXCEPT ![c] = [pending |-> hw[c].pending - 1, done |-> hw[c].done + 1]]
  BY DEF HostDone
<1>3. PICK p \in Nat : p = hw[c].pending - 1
  BY <1>1, <1>2
<1>4. PICK d \in Nat : d = hw[c].done + 1
  BY <1>1
<1>5. p \in Idx /\ d \in Idx
  BY <1>1, <1>2, <1>3, <1>4, Sizes DEF Idx
<1>6. PICK h \in HwRec : h = [pending |-> p, done |-> d]
  BY <1>5 DEF HwRec
<1>7. hw' = [hw EXCEPT ![c] = h]
  BY <1>2, <1>3, <1>4, <1>6
<1>8. PICK q \in VqRec : q = vq[c]
  BY <1>1
<1>9. vq' = [vq EXCEPT ![c] = q]
  BY <1>2, <1>8 DEF QueueTypes
<1>10. h.pending + h.done + q.unread + q.consumed <= Size - 1
  BY <1>1, <1>3, <1>4, <1>6, <1>8
<1> QED BY <1>2, <1>7, <1>9, <1>10, QueueSet

\* Nothing of this changes.
LEMMA RestSame ==
    ASSUME Restful
    PROVE  /\ UNCHANGED <<vlock, quietVars, wr>> => Restful'
           /\ UNCHANGED <<vlock, io_idle, paused, guest, wr>> /\ QueueTypes' => Restful'
           /\ UNCHANGED <<io_idle, paused, guest, wr, vq, hw>> /\ LockTypes' => Restful'
<1>1. UNCHANGED <<vq, hw>> => QueueTypes'
  BY DEF Restful, QueueTypes, Reserved, InFlight
<1>2. UNCHANGED vlock => LockTypes'
  BY DEF Restful, LockTypes
<1>3. UNCHANGED <<io_idle, paused, guest, wr>> => JobTypes'
  BY DEF Restful, JobTypes
<1> QED BY <1>1, <1>2, <1>3 DEF Restful, quietVars

\* The threads' steps.
LEMMA ThreadRest == ASSUME PollInv, NEW t \in Thread, ThreadStep(t) PROVE Restful'
<1>1. Restful
  BY TypeParts DEF PollInv, Restful
<1>2. CASE \/ StartPass(t) \/ Skip(t) \/ nvme_mdev_io_begin_poll(t) \/ Reenter(t) \/ EndPass(t) \/ ParkSelf(t)
           \/ Unparked(t) \/ PollStop(t) \/ DrainTimeout(t) \/ Drained(t) \/ LockBusy(t)
  <2>1. UNCHANGED <<vlock, quietVars, wr>>
    BY <1>2 DEF StartPass, Skip, nvme_mdev_io_begin_poll, Reenter, EndPass, ParkSelf, Unparked, PollStop,
                DrainTimeout, Drained, LockBusy, ctrlVars, modes, quietVars
  <2> QED BY <1>1, <2>1, RestSame
<1>3. CASE PollOn(t) \/ PollIdle(t)
  <2>1. Serve(Ctl(t)) /\ UNCHANGED <<vlock, wr>> /\ at[t] \in Visiting
    BY <1>3 DEF PollOn, PollIdle, Visiting
  <2>2. QueueTypes'
    BY <1>1, <2>1, InVisit, ServeTypes DEF Restful
  <2>3. UNCHANGED <<io_idle, paused, guest>>
    BY <2>1 DEF Serve
  <2> QED BY <1>1, <2>1, <2>2, <2>3, RestSame
<1>4. CASE DrainOn(t)
  <2>1. at[t] \in Visiting /\ UNCHANGED <<vlock, io_idle, paused, guest, wr>>
    BY <1>4 DEF DrainOn, Visiting
  <2>2. PICK c \in Vctrl : c = Ctl(t)
    BY <2>1, InVisit
  <2>3. vq' = [vq EXCEPT ![c].unread = vq[c].unread + hw[c].done] /\ hw' = [hw EXCEPT ![c].done = 0]
    BY <1>4, <2>2 DEF DrainOn
  <2> QED BY <1>1, <2>1, <2>3, ReapTypes, RestSame DEF Restful
<1>5. CASE SuspendEvent(t)
  <2>1. at[t] \in Visiting /\ UNCHANGED <<vlock, io_idle, paused, guest, wr, hw>>
    BY <1>5 DEF SuspendEvent, Visiting
  <2>2. PICK c \in Vctrl : c = Ctl(t)
    BY <2>1, InVisit
  <2>3. PICK x \in Idx : x = vq[c].head
    BY <1>1, QueueNats DEF Restful
  <2>4. vq' = [vq EXCEPT ![c].eidx = x]
    BY <1>5, <2>2, <2>3 DEF SuspendEvent
  <2> QED BY <1>1, <2>1, <2>4, EndTypes, RestSame DEF Restful
<1>6. CASE SuspendBegin(t) \/ SuspendRefused(t)
  <2>1. UNCHANGED <<io_idle, paused, guest, wr, vq, hw>> /\ LockTypes'
    BY <1>1, <1>6 DEF SuspendBegin, SuspendRefused, Restful, LockTypes, ctrlVars
  <2> QED BY <1>1, <2>1, RestSame
<1>7. CASE SelfPark(t)
  <2>1. UNCHANGED <<paused, guest, wr, vq, hw>> /\ LockTypes' /\ io_idle' \in [Vctrl -> BOOLEAN]
    BY <1>1, <1>7 DEF SelfPark, Restful, LockTypes, JobTypes
  <2>2. QueueTypes'
    BY <1>1, <2>1 DEF Restful, QueueTypes, Reserved, InFlight
  <2>3. JobTypes'
    BY <1>1, <2>1 DEF Restful, JobTypes
  <2> QED BY <2>1, <2>2, <2>3 DEF Restful
<1> QED BY <1>2, <1>3, <1>4, <1>5, <1>6, <1>7 DEF ThreadStep

\* A tail that moves by one.
LEMMA NextTail ==
    ASSUME QueueTypes, NEW c \in Vctrl
    PROVE  (vq[c].tail + 1) % Size \in Idx
  BY QueueNats, Sizes DEF Idx

\* The host's, the guest's and the devices' steps.
LEMMA CtrlRest == ASSUME PollInv, NEW c \in Vctrl, HostStep(c) \/ GuestStep(c) \/ HostDone(c) PROVE Restful'
<1>1. Restful
  BY TypeParts DEF PollInv, Restful
<1>2. CASE PauseBegin(c)
  <2>1. UNCHANGED <<io_idle, paused, guest, wr, vq, hw>> /\ LockTypes'
    BY <1>1, <1>2 DEF PauseBegin, Restful, LockTypes, ctrlVars
  <2> QED BY <1>1, <2>1, RestSame
<1>3. CASE PauseEnd(c) \/ nvme_mdev_vctrl_pause(c)
  <2>1. UNCHANGED <<io_idle, guest, wr, vq, hw>> /\ LockTypes' /\ paused' \in [Vctrl -> BOOLEAN]
    BY <1>1, <1>3 DEF PauseEnd, nvme_mdev_vctrl_pause, Restful, LockTypes, JobTypes
  <2>2. QueueTypes'
    BY <1>1, <2>1 DEF Restful, QueueTypes, Reserved, InFlight
  <2>3. JobTypes'
    BY <1>1, <2>1 DEF Restful, JobTypes
  <2> QED BY <2>1, <2>2, <2>3 DEF Restful
<1>4. CASE DoorbellWrite(c) \/ GuestSubmit(c)
  <2>1. UNCHANGED <<paused, vlock, hw, wr>> /\ (vq' = vq \/ vq' = [vq EXCEPT ![c].tail = (vq[c].tail + 1) % Size])
    BY <1>4 DEF DoorbellWrite, GuestSubmit
  <2>2. QueueTypes'
    <3>1. CASE vq' = vq
      BY <1>1, <2>1, <3>1 DEF Restful, QueueTypes, Reserved, InFlight
    <3>2. CASE vq' = [vq EXCEPT ![c].tail = (vq[c].tail + 1) % Size]
      BY <1>1, <2>1, <3>2, NextTail, EndTypes DEF Restful
    <3> QED BY <2>1, <3>1, <3>2
  <2>3. io_idle' \in [Vctrl -> BOOLEAN] /\ guest' \in [Vctrl -> {"run", "wrote", "mmio"}]
    BY <1>1, <1>4 DEF DoorbellWrite, GuestSubmit, Restful, JobTypes
  <2>4. JobTypes' /\ LockTypes'
    BY <1>1, <2>1, <2>3 DEF Restful, JobTypes, LockTypes
  <2> QED BY <2>2, <2>4 DEF Restful
<1>5. CASE GuestCheck(c)
  <2>1. UNCHANGED <<io_idle, paused, vlock, vq, hw, wr>> /\ guest' \in [Vctrl -> {"run", "wrote", "mmio"}]
    BY <1>1, <1>5 DEF GuestCheck, Restful, JobTypes
  <2>2. QueueTypes'
    BY <1>1, <2>1 DEF Restful, QueueTypes, Reserved, InFlight
  <2>3. JobTypes' /\ LockTypes'
    BY <1>1, <2>1 DEF Restful, JobTypes, LockTypes
  <2> QED BY <2>2, <2>3 DEF Restful
<1>6. CASE GuestConsume(c)
  <2>1. UNCHANGED <<vlock, io_idle, paused, guest, wr>>
    BY <1>6 DEF GuestConsume
  <2> QED BY <1>1, <1>6, <2>1, ConsumeTypes, RestSame DEF Restful
<1>7. CASE HostDone(c)
  <2>1. UNCHANGED <<vlock, io_idle, paused, guest, wr>>
    BY <1>7 DEF HostDone
  <2> QED BY <1>1, <1>7, <2>1, DoneTypes, RestSame DEF Restful
<1> QED BY <1>2, <1>3, <1>4, <1>5, <1>6, <1>7 DEF HostStep, GuestStep

(***************************************************************************)
(* The initial states.                                                     *)
(***************************************************************************)

\* SetToSeq lists every element once.
LEMMA SetListed ==
    ASSUME NEW R, IsFiniteSet(R)
    PROVE  SetToSeq(R) \in Seq(R) /\ IsInjective(SetToSeq(R)) /\ Range(SetToSeq(R)) = R
<1>1. PICK n \in Nat : n = Cardinality(R) /\ ExistsBijection(1 .. n, R)
  BY FS_CardinalityType
<1>2. PICK f \in Bijection(1 .. n, R) : TRUE
  BY <1>1 DEF ExistsBijection
<1>3. f \in [1 .. n -> R] /\ IsInjective(f)
  BY <1>2 DEF Bijection, Injection
<1>4. PICK s : s = SetToSeq(R)
  OBVIOUS
<1>5. s \in [1 .. n -> R] /\ IsInjective(s)
  BY <1>1, <1>3, <1>4 DEF SetToSeq
<1>6. s \in Injection(1 .. n, R)
  BY <1>5 DEF Injection
<1>7. Cardinality(1 .. n) = n
  BY FS_Interval
<1>8. s \in Surjection(1 .. n, R)
  BY <1>1, <1>6, <1>7, FS_Injection
<1>9. Range(s) = R
  BY <1>5, <1>8 DEF Surjection, Range
<1>10. s \in Seq(R)
  BY <1>5
<1> QED BY <1>4, <1>5, <1>9, <1>10

\* Every controller has a binding of its own, on iothread 0's list.
LEMMA InitLists ==
    ASSUME IoInit
    PROVE  /\ binding \in [Vctrl -> Binding] /\ bs \in [Binding -> BsRec]
           /\ \A c, d \in Vctrl : binding[c] = binding[d] => c = d
           /\ \A c \in Vctrl : bs[binding[c]].vctrl = c /\ Listed(0, binding[c])
           /\ \A b \in Binding : bs[b].poll_enabled = FALSE
           /\ bindings \in [Thread -> Seq(Binding)] /\ \A t \in Thread : IsInjective(bindings[t])
           /\ \A t \in Thread : \A b \in Binding : Listed(t, b) => t = 0 /\ \E c \in Vctrl : binding[c] = b
<1>1. binding \in Injection(Vctrl, Binding)
  <2>1. Injection(Vctrl, Binding) # {}
    BY IoAssumption
  <2>2. binding = CHOOSE f \in Injection(Vctrl, Binding) : TRUE
    BY DEF IoInit
  <2> QED BY <2>1, <2>2
<1>2. binding \in [Vctrl -> Binding] /\ \A c, d \in Vctrl : binding[c] = binding[d] => c = d
  BY <1>1 DEF Injection, IsInjective
<1>3. PICK R : R = Range(binding)
  OBVIOUS
<1>4. R \subseteq Binding /\ R = {binding[c] : c \in Vctrl}
  BY <1>2, <1>3 DEF Range
<1>5. binding \in Surjection(Vctrl, R)
  BY <1>2, <1>4 DEF Surjection
<1>6. IsFiniteSet(R)
  BY <1>5, FS_Surjection, IoAssumption
<1>7. PICK s : s = SetToSeq(R)
  OBVIOUS
<1>8. s \in Seq(R) /\ IsInjective(s) /\ Range(s) = R
  BY <1>6, <1>7, SetListed
<1>9. s \in Seq(Binding)
  <2>1. PICK n \in Nat : n = Len(s)
    BY <1>8
  <2>2. s \in [1 .. n -> R]
    BY <1>8, <2>1
  <2>3. s \in [1 .. n -> Binding]
    BY <1>4, <2>2
  <2> QED BY <2>3
<1>10. bindings = [t \in Thread |-> IF t = 0 THEN s ELSE <<>>]
  BY <1>3, <1>7 DEF IoInit
<1>11. <<>> \in Seq(Binding) /\ IsInjective(<<>>) /\ Range(<<>>) = {}
  <2>1. <<>> \in Seq(Binding) /\ DOMAIN <<>> = {}
    OBVIOUS
  <2> QED BY <2>1 DEF IsInjective, Range
<1>12. bindings \in [Thread -> Seq(Binding)] /\ \A t \in Thread : IsInjective(bindings[t])
  BY <1>8, <1>9, <1>10, <1>11
<1>13. \A t \in Thread : \A b \in Binding : Listed(t, b) => t = 0 /\ b \in R
  BY <1>8, <1>10, <1>11 DEF Listed
<1>14. \A c \in Vctrl : Listed(0, binding[c])
  <2>1. bindings[0] = s
    BY <1>10, Sizes
  <2> QED BY <1>4, <1>8, <2>1 DEF Listed
<1>15. ASSUME NEW b \in Binding
       PROVE  /\ bs[b] \in BsRec /\ bs[b].poll_enabled = FALSE
              /\ \A c \in Vctrl : binding[c] = b => bs[b].vctrl = c
  <2>1. bs[b] = IF \E c \in Vctrl : binding[c] = b
                THEN [Unused EXCEPT !.vctrl = CHOOSE c \in Vctrl : binding[c] = b]
                ELSE Unused
    BY DEF IoInit
  <2>2. Unused \in BsRec /\ Unused.poll_enabled = FALSE
    BY Sizes DEF Unused, BsRec
  <2>3. CASE \E c \in Vctrl : binding[c] = b
    <3>1. PICK x : x = CHOOSE c \in Vctrl : binding[c] = b
      OBVIOUS
    <3>2. x \in Vctrl /\ binding[x] = b
      BY <2>3, <3>1
    <3>3. bs[b] = [Unused EXCEPT !.vctrl = x]
      BY <2>1, <2>3, <3>1
    <3>4. bs[b] \in BsRec /\ bs[b].vctrl = x /\ bs[b].poll_enabled = FALSE
      BY <2>2, <3>2, <3>3 DEF BsRec
    <3> QED BY <1>2, <3>2, <3>4
  <2>4. CASE ~\E c \in Vctrl : binding[c] = b
    BY <2>1, <2>2, <2>4
  <2> QED BY <2>3, <2>4
<1>16. bs \in [Binding -> BsRec]
  <2>1. bs = [b \in Binding |-> bs[b]]
    BY DEF IoInit
  <2> QED BY <1>15, <2>1
<1>17. \A c \in Vctrl : bs[binding[c]].vctrl = c
  BY <1>2, <1>15
<1>18. \A b \in R : \E c \in Vctrl : binding[c] = b
  BY <1>4
<1>19. \A b \in Binding : bs[b].poll_enabled = FALSE
  BY <1>15
<1> QED BY <1>2, <1>12, <1>13, <1>14, <1>16, <1>17, <1>18, <1>19

\* They satisfy the invariant.
LEMMA InitPoll == IoInit => PollInv
<1> SUFFICES ASSUME IoInit PROVE PollInv
  OBVIOUS
<1>1. /\ binding \in [Vctrl -> Binding] /\ bs \in [Binding -> BsRec]
      /\ \A c \in Vctrl : bs[binding[c]].vctrl = c /\ Listed(0, binding[c])
      /\ bindings \in [Thread -> Seq(Binding)] /\ \A t \in Thread : IsInjective(bindings[t])
      /\ \A t \in Thread : \A b \in Binding : Listed(t, b) => t = 0 /\ \E c \in Vctrl : binding[c] = b
  BY InitLists
<1>2. ThreadTypes
  <2>1. <<>> \in Seq(Binding)
    OBVIOUS
  <2> QED BY <1>1, <2>1 DEF IoInit, ThreadTypes, Place
<1>3. BindTypes
  BY <1>1 DEF BindTypes
<1>4. QueueTypes
  <2>1. /\ 0 \in Idx
        /\ vq = [c \in Vctrl |-> [tail |-> 0, head |-> 0, eidx |-> 0, unread |-> 0, consumed |-> 0]]
        /\ hw = [c \in Vctrl |-> [pending |-> 0, done |-> 0]]
    BY Sizes DEF IoInit, Idx
  <2>2. vq \in [Vctrl -> VqRec] /\ hw \in [Vctrl -> HwRec]
    BY <2>1 DEF VqRec, HwRec
  <2>3. \A c \in Vctrl : Reserved(c) = 0
    BY <2>1 DEF Reserved, InFlight
  <2> QED BY <2>2, <2>3, Sizes DEF QueueTypes
<1>5. LockTypes
  BY DEF IoInit, LockTypes
<1>6. NoJob \in Job /\ NoJob.pc = "off" /\ NoJob.b = None
  BY Sizes DEF NoJob, Job
<1>7. wr \in [Writers -> Job] /\ \A w \in Writers : wr[w] = NoJob
  BY <1>6 DEF IoInit
<1>8. JobTypes
  BY <1>6, <1>7 DEF IoInit, JobTypes
<1>9. \A w \in Writers : Moving(w)
  BY <1>6, <1>7 DEF Moving
<1>10. \A t \in Thread : Visit(t)
  BY DEF IoInit, Visit, InPass, Visiting
<1>11. Lists
  BY <1>1 DEF Lists, Homed
<1> QED BY <1>2, <1>3, <1>4, <1>5, <1>8, <1>9, <1>10, <1>11, TypeParts DEF PollInv

(***************************************************************************)
(* One poller.                                                             *)
(***************************************************************************)

\* Every step preserves the invariant.
LEMMA PollStep == ASSUME OneWriter PROVE PollInv /\ [IoNext]_ioVars => PollInv'
<1> SUFFICES ASSUME PollInv, [IoNext]_ioVars PROVE PollInv'
  OBVIOUS
<1>1. Restful
  BY TypeParts DEF PollInv, Restful
<1>2. ASSUME PollNext, Restful' PROVE PollInv'
  BY <1>2, TypeParts DEF PollInv, PollNext, Restful
<1>3. ASSUME NEW t \in Thread, ThreadStep(t) PROVE PollInv'
  BY <1>2, <1>3, ThreadPoll, ThreadRest
<1>4. ASSUME NEW c \in Vctrl, HostStep(c) \/ GuestStep(c) \/ HostDone(c) PROVE PollInv'
  BY <1>2, <1>4, CtrlPoll, CtrlRest
<1>5. ASSUME NEW w \in Writers, StoreStep(w) PROVE PollInv'
  <2>1. PollNext /\ JobTypes'
    BY <1>5, StorePoll DEF WriterNext
  <2>2. UNCHANGED <<vlock, vq, hw>>
    BY <1>5 DEF StoreStep, StoreBegin, UnbindPause, UnbindDel, UnbindNull, BindSet, BindAdd, ctrlVars
  <2>3. QueueTypes' /\ LockTypes'
    BY <1>1, <2>2 DEF Restful, QueueTypes, LockTypes, Reserved, InFlight
  <2> QED BY <1>2, <2>1, <2>3 DEF Restful
<1>6. CASE UNCHANGED ioVars
  <2>1. UNCHANGED <<at, park, bindings, todo, active, bs, binding, vlock, io_idle, paused, vq, hw, guest, wr>>
    BY <1>6 DEF ioVars, threadVars, ctrlVars
  <2>2. Restful'
    BY <1>1, <2>1 DEF Restful, QueueTypes, LockTypes, JobTypes, Reserved, InFlight
  <2>3. PICK b : b \notin Binding
    BY IoAssumption
  <2>4. BindTypes /\ ThreadTypes
    BY TypeParts DEF PollInv
  <2>5. PollNext
    BY <2>1, <2>3, <2>4, BsSame, CtrlMove DEF ThreadTypes
  <2> QED BY <1>2, <2>2, <2>5
<1> QED BY <1>3, <1>4, <1>5, <1>6 DEF IoNext

\* The types of the iothreads', bindings' and controllers' state, the room
\* in the completion queue included, when one process writes iothread_idx.
THEOREM TypeCorrect == OneWriter => (IoSpec => []IoTypeOK)
<1> SUFFICES ASSUME OneWriter PROVE IoSpec => []IoTypeOK
  OBVIOUS
<1>1. PollInv /\ [IoNext]_ioVars => PollInv'
  BY PollStep
<1>2. PollInv => IoTypeOK
  BY DEF PollInv
<1> QED BY <1>1, <1>2, InitPoll, PTL DEF IoSpec

\* What the invariant says of a thread in its loops and of the lists.
LEMMA PollMeans == PollInv => OnePoller
<1> SUFFICES ASSUME PollInv PROVE OnePoller
  OBVIOUS
<1>1. ThreadTypes /\ BindTypes /\ Lists
  BY TypeParts DEF PollInv
<1>2. ASSUME NEW t \in Thread, at[t] \in {"poll", "drain", "trylock", "event", "suspend"}
      PROVE  /\ \E c \in Vctrl : binding[c] = Cur(t) /\ Ctl(t) = c
             /\ at[t] = "poll" => bs[Cur(t)].state = "BEGUN"
             /\ at[t] = "drain" => bs[Cur(t)].state # "ZERO"
  <2>1. at[t] \in Visiting
    BY <1>2 DEF Visiting
  <2>2. Ctl(t) \in Vctrl /\ binding[Ctl(t)] = Cur(t) /\ Visit(t)
    BY <2>1, InVisit
  <2> QED BY <2>2 DEF Visit
<1>3. ASSUME NEW t \in Thread, NEW u \in Thread, NEW i \in DOMAIN bindings[t], NEW j \in DOMAIN bindings[u],
             bs[bindings[t][i]].vctrl = bs[bindings[u][j]].vctrl
      PROVE  t = u /\ i = j
  <2>1. bindings[t] \in Seq(Binding) /\ bindings[u] \in Seq(Binding)
    BY <1>1 DEF ThreadTypes
  <2>2. PICK x \in Binding : x = bindings[t][i]
    BY <2>1
  <2>3. PICK y \in Binding : y = bindings[u][j]
    BY <2>1
  <2>4. Listed(t, x) /\ Listed(u, y)
    BY <2>2, <2>3 DEF Listed, Range
  <2>5. binding[bs[x].vctrl] = x /\ binding[bs[y].vctrl] = y
    BY <1>1, <2>4 DEF Lists, Homed
  <2>6. x = y
    BY <1>3, <2>2, <2>3, <2>5
  <2>7. t = u
    BY <1>1, <2>4, <2>6 DEF Lists
  <2>8. IsInjective(bindings[t])
    BY <1>1 DEF Lists
  <2> QED BY <2>2, <2>3, <2>6, <2>7, <2>8 DEF IsInjective
<1> QED BY <1>2, <1>3 DEF OnePoller

\* A controller is polled by one iothread at a time, through the binding it
\* refers to, while a process moves it: for every number of iothreads,
\* controllers and queue entries.
THEOREM OnePollerHolds == OneWriter => (IoSpec => []OnePoller)
<1> SUFFICES ASSUME OneWriter PROVE IoSpec => []OnePoller
  OBVIOUS
<1>1. PollInv /\ [IoNext]_ioVars => PollInv'
  BY PollStep
<1> QED BY <1>1, InitPoll, PollMeans, PTL DEF IoSpec

(***************************************************************************)
(* Going to sleep: steps that leave the writers and the lists alone.       *)
(***************************************************************************)

\* Nothing the invariant says of controller d changes.
CtlKept(d) ==
    /\ vq'[d] = vq[d] /\ hw'[d] = hw[d] /\ vlock'[d] = vlock[d] /\ io_idle'[d] = io_idle[d]
    /\ paused'[d] = paused[d] /\ guest'[d] = guest[d] /\ irq'[d] = irq[d]
    /\ binding[d] # None => bs'[binding[d]].poll_enabled = bs[binding[d]].poll_enabled

\* A controller that is moved stays quiet, and is not to be polled anew.
StaysQuiet(d) ==
    Storing(d) =>
       /\ vlock'[d] \in {"free", "io"} /\ guest'[d] = "run" /\ vq'[d].tail = vq'[d].head
       /\ binding[d] # None =>
             \/ bs'[binding[d]].poll_enabled = bs[binding[d]].poll_enabled
             \/ bs'[binding[d]].poll_enabled = FALSE /\ Homed(binding[d])

SleepsWell(d) == Asleep(d) => Quiescent(d)

IdleNext ==
    /\ Home'
    /\ \A t \in Thread : Settled(t)'
    /\ \A w \in Writers : Found(w)'
    /\ \A c \in Vctrl : SleepsWell(c)'

\* A controller that is left alone.
LEMMA KeptSleeps ==
    ASSUME PollInv, UNCHANGED <<binding, wr>>, NEW d \in Vctrl, Home, CtlKept(d), SleepsWell(d)
    PROVE  SleepsWell(d)'
<1>1. Storing(d)' <=> Storing(d)
  BY DEF Storing
<1>2. ~Storing(d) => binding[d] # None
  BY NoneOut DEF Home
<1>3. Asleep(d)' => Asleep(d)
  BY <1>1, <1>2 DEF Asleep, CtlKept
<1>4. Quiescent(d) => Quiescent(d)'
  BY DEF Quiescent, CtlKept, InFlight, Seen
<1> QED BY <1>3, <1>4 DEF SleepsWell

\* A thread that stays where it is, at a controller that is left alone.
LEMMA KeptSettled ==
    ASSUME NEW t \in Thread, Settled(t), at'[t] = at[t], todo'[t] = todo[t],
           at[t] \in Visiting => bs'[Cur(t)].vctrl = bs[Cur(t)].vctrl /\ CtlKept(Ctl(t))
    PROVE  Settled(t)'
<1>1. CASE at[t] \notin Visiting
  BY <1>1 DEF Settled, Visiting
<1>2. CASE at[t] \in Visiting
  <2>1. Ctl(t)' = Ctl(t)
    BY <1>2 DEF Ctl, Cur
  <2>2. PICK c : c = Ctl(t)
    OBVIOUS
  <2>3. vq'[c] = vq[c] /\ hw'[c] = hw[c] /\ vlock'[c] = vlock[c] /\ irq'[c] = irq[c]
    BY <1>2, <2>2 DEF CtlKept
  <2> QED BY <2>1, <2>2, <2>3 DEF Settled, InFlight, Seen
<1> QED BY <1>1, <1>2

\* The controller of a writer.
LEMMA KeptFound ==
    ASSUME PollInv, UNCHANGED <<bindings, binding, wr>>, NEW w \in Writers, Found(w),
           \A d \in Vctrl : CtlKept(d) \/ StaysQuiet(d)
    PROVE  Found(w)'
<1>1. JobTypes /\ Moving(w) /\ BindTypes
  BY TypeParts DEF PollInv
<1>2. CASE wr[w].pc = "off"
  BY <1>2 DEF Found
<1>3. CASE wr[w].pc # "off"
  <2>1. PICK c \in Vctrl : c = wr[w].c
    BY <1>1, <1>3, JobFields
  <2>2. Storing(c)
    BY <1>3, <2>1 DEF Storing
  <2>3. \A t \in Thread : \A b : Listed(t, b)' <=> Listed(t, b)
    BY DEF Listed
  <2>4. /\ vlock[c] \in {"free", "io"} /\ guest[c] = "run" /\ vq[c].tail = vq[c].head
        /\ ~wr[w].old /\ binding[c] # None => ~bs[binding[c]].poll_enabled
    BY <1>3, <2>1 DEF Found
  <2>5. vlock'[c] \in {"free", "io"} /\ guest'[c] = "run" /\ vq'[c].tail = vq'[c].head
    BY <2>2, <2>4 DEF CtlKept, StaysQuiet
  <2>6. ~wr[w].old /\ binding[c] # None => ~bs'[binding[c]].poll_enabled
    BY <2>2, <2>4 DEF CtlKept, StaysQuiet
  <2>7. ASSUME wr[w].pc = "add" PROVE bs'[binding[c]].poll_enabled = wr[w].old
    <3>1. binding[c] \in Binding /\ ~Homed(binding[c])
      BY <1>1, <2>1, <2>7 DEF Moving
    <3>2. bs'[binding[c]].poll_enabled = bs[binding[c]].poll_enabled
      BY <2>2, <3>1, NoneOut DEF CtlKept, StaysQuiet
    <3> QED BY <2>1, <2>7, <3>2 DEF Found
  <2>8. wr[w].i .. NThreads - 1 \subseteq Thread
    BY <1>1, JobFields, Sizes DEF Thread
  <2>9. wr[w].pc \in {"pause", "del"} =>
          IF wr[w].n = 0 THEN \E t \in wr[w].i .. NThreads - 1 : Listed(t, binding[c])'
                         ELSE binding[c] = None
    BY <2>1, <2>3, <2>8 DEF Found
  <2>10. wr[w].pc = "bind" => binding[c] = None
    BY <2>1 DEF Found
  <2> QED BY <1>3, <2>1, <2>5, <2>6, <2>7, <2>9, <2>10 DEF Found
<1> QED BY <1>2, <1>3

\* Controllers and threads that change are looked at one by one.
LEMMA IdleFrame ==
    ASSUME IdleInv, UNCHANGED <<bindings, binding, wr>>, \A x \in Binding : bs'[x].vctrl = bs[x].vctrl,
           \A d \in Vctrl : CtlKept(d) \/ (StaysQuiet(d) /\ SleepsWell(d)'),
           \A t \in Thread :
              Settled(t)' \/ (at'[t] = at[t] /\ todo'[t] = todo[t] /\ (at[t] \in Visiting => CtlKept(Ctl(t))))
    PROVE  IdleNext
<1>1. /\ PollInv /\ Home /\ (\A t \in Thread : Settled(t)) /\ (\A w \in Writers : Found(w))
      /\ \A c \in Vctrl : SleepsWell(c)
  BY DEF IdleInv, SleepsWell
<1>2. Home'
  BY <1>1 DEF Home, Storing, Homed, Listed
<1>3. ASSUME NEW t \in Thread PROVE Settled(t)'
  <2>1. at[t] \in Visiting => Cur(t) \in Binding
    BY <1>1, InVisit
  <2> QED BY <1>1, <2>1, KeptSettled
<1>4. ASSUME NEW w \in Writers PROVE Found(w)'
  BY <1>1, KeptFound
<1>5. ASSUME NEW c \in Vctrl PROVE SleepsWell(c)'
  BY <1>1, KeptSleeps
<1> QED BY <1>2, <1>3, <1>4, <1>5 DEF IdleNext

Resting == {"trylock", "event", "suspend"}

\* A thread that is not about to sleep.
LEMMA Awake == ASSUME NEW t \in Thread, at'[t] \notin Resting PROVE Settled(t)'
  BY DEF Settled, Resting

\* What holds of the controller a thread visits.
LEMMA IdleVisit ==
    ASSUME IdleInv, NEW t \in Thread, at[t] \in Visiting
    PROVE  /\ PollInv /\ Ctl(t) \in Vctrl /\ Cur(t) \in Binding /\ binding[Ctl(t)] = Cur(t) /\ Cur(t) # None
           /\ bs[Cur(t)].vctrl = Ctl(t) /\ Homed(Cur(t)) /\ Settled(t) /\ SleepsWell(Ctl(t))
           /\ BindTypes /\ ThreadTypes /\ QueueTypes /\ LockTypes /\ JobTypes
<1>1. PollInv /\ Settled(t)
  BY DEF IdleInv
<1>2. InPass(t) /\ todo[t] # <<>>
  BY <1>1, InVisit
<1>3. /\ Cur(t) \in Binding /\ Listed(t, Cur(t)) /\ Ctl(t) \in Vctrl
      /\ binding[Ctl(t)] = Cur(t) /\ bs[Cur(t)].vctrl = Ctl(t)
  BY <1>1, <1>2, Visited
<1>4. SleepsWell(Ctl(t))
  BY <1>3 DEF IdleInv, SleepsWell
<1>5. BindTypes /\ ThreadTypes /\ QueueTypes /\ LockTypes /\ JobTypes
  BY <1>1, TypeParts DEF PollInv
<1> QED BY <1>1, <1>3, <1>4, <1>5, NoneOut DEF Homed

\* Only the thread moves.
LEMMA QuietIdle ==
    ASSUME IdleInv, NEW t \in Thread, UNCHANGED <<bindings, binding, wr, vlock, quietVars>>,
           \A x \in Binding : bs'[x].vctrl = bs[x].vctrl /\ bs'[x].poll_enabled = bs[x].poll_enabled,
           Settled(t)', \A u \in Thread : u # t => at'[u] = at[u] /\ todo'[u] = todo[u]
    PROVE  IdleNext
<1>1. PollInv /\ BindTypes
  BY TypeParts DEF IdleInv, PollInv
<1>2. ASSUME NEW d \in Vctrl PROVE CtlKept(d)
  <2>1. binding[d] # None => binding[d] \in Binding
    BY <1>1 DEF BindTypes
  <2> QED BY <2>1 DEF CtlKept, quietVars
<1>3. ASSUME NEW u \in Thread, u # t, at[u] \in Visiting PROVE CtlKept(Ctl(u))
  BY <1>2, <1>3, IdleVisit
<1> QED BY <1>2, <1>3, IdleFrame

\* Only the thread and the controller it visits change.
LEMMA VisitIdle ==
    ASSUME IdleInv, NEW t \in Thread, at[t] \in Visiting, UNCHANGED <<bindings, binding, wr>>, OnlyBs(Cur(t)),
           \A u \in Thread : u # t => at'[u] = at[u] /\ todo'[u] = todo[u],
           NEW c, c = Ctl(t),
           \A d \in Vctrl : d # c =>
              /\ vq'[d] = vq[d] /\ hw'[d] = hw[d] /\ vlock'[d] = vlock[d] /\ io_idle'[d] = io_idle[d]
              /\ paused'[d] = paused[d] /\ guest'[d] = guest[d] /\ irq'[d] = irq[d],
           Settled(t)', StaysQuiet(c), SleepsWell(c)'
    PROVE  IdleNext
<1>1. PollInv /\ BindTypes /\ Lists
  BY TypeParts DEF IdleInv, PollInv
<1>2. bs[Cur(t)].vctrl = c /\ InPass(t) /\ todo[t] # <<>>
  BY <1>1, InVisit, IdleVisit
<1>3. ASSUME NEW d \in Vctrl, d # c PROVE CtlKept(d)
  <2>1. ASSUME binding[d] # None PROVE bs'[binding[d]] = bs[binding[d]]
    <3>1. binding[d] \in Binding /\ bs[binding[d]].vctrl = d
      BY <1>1, <2>1 DEF BindTypes, Lists
    <3>2. binding[d] # Cur(t)
      BY <1>2, <1>3, <3>1
    <3> QED BY <3>1, <3>2 DEF OnlyBs
  <2> QED BY <1>3, <2>1 DEF CtlKept
<1>4. ASSUME NEW u \in Thread, u # t, at[u] \in Visiting PROVE CtlKept(Ctl(u))
  <2>1. InPass(u) /\ todo[u] # <<>> /\ Ctl(u) \in Vctrl
    BY <1>1, <1>4, InVisit
  <2>2. Ctl(u) # c
    BY <1>1, <1>2, <1>4, <2>1, Apart
  <2> QED BY <1>3, <2>1, <2>2
<1>5. \A x \in Binding : bs'[x].vctrl = bs[x].vctrl
  BY DEF OnlyBs
<1> QED BY <1>3, <1>4, <1>5, IdleFrame

\* How the threads move.
LEMMA Moves ==
    ASSUME ThreadTypes, NEW t \in Thread
    PROVE  /\ \A ret \in BOOLEAN : Leave(t, ret) =>
                at'[t] = "scan" /\ bindings' = bindings /\ \A u \in Thread : u # t => at'[u] = at[u] /\ todo'[u] = todo[u]
           /\ \A p \in Place : Enter(t, p) =>
                at'[t] = p /\ todo' = todo /\ bindings' = bindings /\ \A u \in Thread : u # t => at'[u] = at[u] /\ todo'[u] = todo[u]
  BY DEF Leave, Enter, ThreadTypes

\* Steps that change no controller.
LEMMA PlainIdle ==
    ASSUME IdleInv, NEW t \in Thread,
           \/ StartPass(t) \/ Skip(t) \/ nvme_mdev_io_begin_poll(t) \/ Reenter(t) \/ EndPass(t) \/ ParkSelf(t)
           \/ Unparked(t) \/ PollStop(t) \/ DrainTimeout(t) \/ LockBusy(t)
    PROVE  IdleNext
<1>1. PollInv /\ BindTypes /\ ThreadTypes
  BY TypeParts DEF IdleInv, PollInv
<1>2. UNCHANGED <<binding, wr, vlock, quietVars>>
  BY DEF StartPass, Skip, nvme_mdev_io_begin_poll, Reenter, EndPass, ParkSelf, Unparked, PollStop, DrainTimeout, LockBusy,
         ctrlVars, modes, quietVars
<1>3. /\ at'[t] \notin Resting /\ UNCHANGED bindings
      /\ \A u \in Thread : u # t => at'[u] = at[u] /\ todo'[u] = todo[u]
  <2>1. CASE StartPass(t) \/ EndPass(t) \/ ParkSelf(t)
    BY <1>1, <2>1 DEF StartPass, EndPass, ParkSelf, ThreadTypes, Resting
  <2>2. CASE Skip(t) \/ DrainTimeout(t) \/ LockBusy(t)
    <3>1. \E ret \in BOOLEAN : Leave(t, ret)
      BY <2>2 DEF Skip, DrainTimeout, LockBusy
    <3> QED BY <1>1, <3>1, Moves DEF Resting
  <2>3. CASE nvme_mdev_io_begin_poll(t) \/ Reenter(t) \/ Unparked(t) \/ PollStop(t)
    <3>1. \E p \in {"poll", "drain", "top"} : Enter(t, p)
      BY <2>3 DEF nvme_mdev_io_begin_poll, Reenter, Unparked, PollStop
    <3>2. \A p \in {"poll", "drain", "top"} : p \in Place /\ p \notin Resting
      BY DEF Place, Resting
    <3> QED BY <1>1, <3>1, <3>2, Moves
  <2> QED BY <2>1, <2>2, <2>3
<1>4. \A x \in Binding : bs'[x].vctrl = bs[x].vctrl /\ bs'[x].poll_enabled = bs[x].poll_enabled
  <2>1. CASE bs' = bs
    BY <2>1
  <2>2. CASE DrainTimeout(t)
    <3>1. at[t] \in Visiting /\ ~SelfPark(t)
      BY <2>2 DEF DrainTimeout, SelfPark, Visiting
    <3>2. OnlyBs(Cur(t)) /\ bs'[Cur(t)].poll_enabled = bs[Cur(t)].poll_enabled
      BY <1>1, <2>2, <3>1, LoopBs
    <3> QED BY <3>2 DEF OnlyBs
  <2>3. CASE nvme_mdev_io_begin_poll(t)
    <3>1. at[t] = "scan" /\ todo[t] # <<>> /\ bs' = [bs EXCEPT ![Cur(t)].idle = FALSE, ![Cur(t)].state = "BEGUN"]
      BY <2>3 DEF nvme_mdev_io_begin_poll
    <3>2. PICK x \in Binding : x = Cur(t)
      BY <1>1, <3>1, InVisit
    <3>3. bs[x].poll_enabled \in BOOLEAN
      BY <1>1, BsFields
    <3>4. bs' = [bs EXCEPT ![x] = Filled(x, bs[x].poll_enabled, "BEGUN", FALSE)]
      BY <1>1, <3>1, <3>2, <3>3, Fill
    <3>5. OnlyBs(x) /\ bs'[x].poll_enabled = bs[x].poll_enabled
      BY <1>1, <3>3, <3>4, BsFilled
    <3> QED BY <3>5 DEF OnlyBs
  <2> QED BY <2>1, <2>2, <2>3 DEF StartPass, Skip, Reenter, EndPass, ParkSelf, Unparked, PollStop, LockBusy
<1> QED BY <1>2, <1>3, <1>4, Awake, QuietIdle

\* A controller that is moved.
LEMMA MovedQuiet ==
    ASSUME IdleInv, NEW c \in Vctrl, Storing(c)
    PROVE  vlock[c] \in {"free", "io"} /\ guest[c] = "run" /\ vq[c].tail = vq[c].head
<1>1. PICK w \in Writers : wr[w].pc # "off" /\ wr[w].c = c
  BY DEF Storing
<1>2. Found(w)
  BY DEF IdleInv
<1> QED BY <1>1, <1>2 DEF Found

\* A controller that is to be polled does not sleep.
LEMMA PolledAwake ==
    ASSUME IdleInv, NEW c \in Vctrl, binding[c] # None, bs[binding[c]].poll_enabled
    PROVE  ~Asleep(c)
<1>1. CASE Storing(c)
  <2>1. PICK w \in Writers : wr[w].pc # "off" /\ wr[w].c = c
    BY <1>1 DEF Storing
  <2>2. Found(w)
    BY DEF IdleInv
  <2>3. wr[w].old
    BY <2>1, <2>2 DEF Found
  <2> QED BY <2>1, <2>3 DEF Asleep
<1>2. CASE ~Storing(c)
  BY <1>2 DEF Asleep
<1> QED BY <1>1, <1>2

\* A controller that sleeps after a step did so before.
LEMMA SleptBefore ==
    ASSUME IdleInv, UNCHANGED <<binding, wr>>, NEW c \in Vctrl, io_idle'[c] = io_idle[c], paused'[c] = paused[c],
           vlock'[c] \in {"free", "io"} => vlock[c] \in {"free", "io"},
           binding[c] # None => bs'[binding[c]].poll_enabled = bs[binding[c]].poll_enabled
    PROVE  Asleep(c)' => Asleep(c)
<1>1. Storing(c)' <=> Storing(c)
  BY DEF Storing
<1>2. ~Storing(c) => binding[c] # None
  BY NoneOut DEF IdleInv, Home
<1> QED BY <1>1, <1>2 DEF Asleep

\* An empty queue stays so.
LEMMA ServeEmpty ==
    ASSUME QueueTypes, NEW c \in Vctrl, Serve(c), vq[c].tail = vq[c].head
    PROVE  vq'[c].tail = vq'[c].head
<1>1. vq[c].head \in Nat /\ vq[c].head \in Idx /\ vq \in [Vctrl -> VqRec]
  BY QueueNats DEF QueueTypes
<1>2. Queued(c) = 0
  <2>1. vq[c].tail - vq[c].head = 0
    BY <1>1
  <2> QED BY <2>1, Sizes DEF Queued
<1>3. PICK n \in Nat : n = Taken(c) /\ n = 0
  BY <1>2, TakenFits
<1>4. (vq[c].head + n) % Size = vq[c].head
  BY <1>1, <1>3, Sizes DEF Idx
<1>5. vq'[c].tail = vq[c].tail /\ vq'[c].head = (vq[c].head + n) % Size
  BY <1>1, <1>3 DEF Serve
<1> QED BY <1>4, <1>5

\* Serving the queues.
LEMMA ServeIdle ==
    ASSUME IdleInv, NEW t \in Thread, PollOn(t) \/ PollIdle(t)
    PROVE  IdleNext
<1>0. /\ at[t] \in Visiting /\ bs[binding[Ctl(t)]].poll_enabled /\ Serve(Ctl(t))
      /\ UNCHANGED <<binding, vlock, wr>>
  BY DEF PollOn, PollIdle, Visiting
<1>1. PICK c \in Vctrl : c = Ctl(t)
  BY <1>0, IdleVisit
<1>2. /\ PollInv /\ binding[c] = Cur(t) /\ Cur(t) \in Binding /\ binding[c] # None
      /\ BindTypes /\ ThreadTypes /\ QueueTypes
  BY <1>0, <1>1, IdleVisit
<1>3. OnlyQueue(c) /\ UNCHANGED <<io_idle, paused, guest, irq>>
  BY <1>0, <1>1, <1>2, ServeTypes DEF Serve, modes
<1>4. OnlyBs(Cur(t)) /\ bs'[Cur(t)].poll_enabled = bs[Cur(t)].poll_enabled
  <2>1. CASE PollOn(t)
    <3>1. bs' = bs
      BY <2>1 DEF PollOn
    <3> QED BY <1>2, <3>1, BsSame
  <2>2. CASE PollIdle(t)
    BY <1>0, <1>2, <2>2, LoopBs
  <2> QED BY <2>1, <2>2
<1>5. /\ at'[t] \notin Resting /\ UNCHANGED bindings
      /\ \A u \in Thread : u # t => at'[u] = at[u] /\ todo'[u] = todo[u]
  <2>1. Leave(t, TRUE) \/ Enter(t, "drain")
    BY DEF PollOn, PollIdle
  <2> QED BY <1>2, <2>1, Moves DEF Resting, Place
<1>6. StaysQuiet(c)
  <2>1. ASSUME Storing(c) PROVE vlock'[c] \in {"free", "io"} /\ guest'[c] = "run" /\ vq'[c].tail = vq'[c].head
    BY <1>0, <1>1, <1>2, <1>3, <2>1, MovedQuiet, ServeEmpty
  <2> QED BY <1>2, <1>4, <2>1 DEF StaysQuiet
<1>7. SleepsWell(c)'
  <2>1. ~Asleep(c)
    BY <1>0, <1>1, <1>2, PolledAwake
  <2>2. Asleep(c)' => Asleep(c)
    BY <1>0, <1>2, <1>3, <1>4, SleptBefore
  <2> QED BY <2>1, <2>2 DEF SleepsWell
<1>8. Settled(t)'
  BY <1>5, Awake
<1> QED BY <1>0, <1>1, <1>3, <1>4, <1>5, <1>6, <1>7, <1>8, VisitIdle DEF OnlyQueue

\* Draining.
LEMMA DrainIdle ==
    ASSUME IdleInv, NEW t \in Thread, DrainOn(t) \/ Drained(t)
    PROVE  IdleNext
<1>0. at[t] \in Visiting /\ UNCHANGED <<binding, vlock, io_idle, paused, irq, guest, wr>>
  BY DEF DrainOn, Drained, Visiting, ctrlVars, modes
<1>1. PICK c \in Vctrl : c = Ctl(t)
  BY <1>0, IdleVisit
<1>2. /\ PollInv /\ binding[c] = Cur(t) /\ Cur(t) \in Binding /\ binding[c] # None
      /\ BindTypes /\ ThreadTypes /\ QueueTypes /\ SleepsWell(c) /\ bs[Cur(t)].vctrl = c
  BY <1>0, <1>1, IdleVisit
<1>3. OnlyBs(Cur(t)) /\ bs'[Cur(t)].poll_enabled = bs[Cur(t)].poll_enabled
  <2>1. ~SelfPark(t)
    BY DEF DrainOn, Drained, SelfPark
  <2> QED BY <1>0, <1>2, <2>1, LoopBs
<1>4. CASE DrainOn(t)
  <2>1. /\ vq' = [vq EXCEPT ![c].unread = vq[c].unread + hw[c].done] /\ hw' = [hw EXCEPT ![c].done = 0]
        /\ InFlight(c) > 0 /\ Leave(t, TRUE)
    BY <1>1, <1>4 DEF DrainOn
  <2>2. OnlyQueue(c) /\ SameEnds(c) /\ vq'[c].tail = vq[c].tail
    BY <1>2, <2>1, ReapTypes
  <2>3. /\ at'[t] \notin Resting /\ UNCHANGED bindings
        /\ \A u \in Thread : u # t => at'[u] = at[u] /\ todo'[u] = todo[u]
    BY <1>2, <2>1, Moves DEF Resting
  <2>4. StaysQuiet(c)
    <3>1. ASSUME Storing(c) PROVE vlock'[c] \in {"free", "io"} /\ guest'[c] = "run" /\ vq'[c].tail = vq'[c].head
      BY <1>0, <2>2, <3>1, MovedQuiet DEF SameEnds
    <3> QED BY <1>2, <1>3, <3>1 DEF StaysQuiet
  <2>5. SleepsWell(c)'
    <3>1. ~Asleep(c)
      BY <1>2, <2>1 DEF SleepsWell, Quiescent
    <3>2. Asleep(c)' => Asleep(c)
      BY <1>0, <1>2, <1>3, SleptBefore
    <3> QED BY <3>1, <3>2 DEF SleepsWell
  <2>6. Settled(t)'
    BY <2>3, Awake
  <2> QED BY <1>0, <1>1, <1>3, <2>2, <2>3, <2>4, <2>5, <2>6, VisitIdle DEF OnlyQueue
<1>5. CASE Drained(t)
  <2>1. InFlight(c) = 0 /\ UNCHANGED <<vlock, quietVars>>
    BY <1>1, <1>5 DEF Drained, ctrlVars, modes, quietVars
  <2>2. Leave(t, TRUE) \/ (Enter(t, "trylock") /\ Seen(c))
    BY <1>1, <1>5 DEF Drained, Seen
  <2>3. /\ UNCHANGED bindings /\ \A u \in Thread : u # t => at'[u] = at[u] /\ todo'[u] = todo[u]
        /\ at'[t] = "scan" \/ (at'[t] = "trylock" /\ todo'[t] = todo[t] /\ Seen(c))
    BY <1>2, <2>2, Moves DEF Place
  <2>4. Settled(t)'
    <3>1. CASE at'[t] = "scan"
      BY <3>1, Awake DEF Resting
    <3>2. CASE at'[t] = "trylock" /\ todo'[t] = todo[t] /\ Seen(c)
      <4>1. Ctl(t)' = c
        BY <1>2, <1>3, <3>2 DEF Ctl, Cur, OnlyBs
      <4>2. Seen(c)' /\ InFlight(c)' = 0
        BY <2>1, <3>2 DEF Seen, InFlight, quietVars
      <4> QED BY <3>2, <4>1, <4>2 DEF Settled, InFlight, Seen
    <3> QED BY <2>3, <3>1, <3>2
  <2>5. \A x \in Binding : bs'[x].vctrl = bs[x].vctrl /\ bs'[x].poll_enabled = bs[x].poll_enabled
    BY <1>2, <1>3 DEF OnlyBs
  <2> QED BY <1>0, <2>1, <2>3, <2>4, <2>5, QuietIdle
<1> QED BY <1>4, <1>5

\* The visited controller is locked or unlocked.
LEMMA LockIdle ==
    ASSUME IdleInv, NEW t \in Thread, at[t] \in Visiting, NEW c \in Vctrl, c = Ctl(t), NEW v \in {"free", "io"},
           vlock' = [vlock EXCEPT ![c] = v], vlock[c] \in {"free", "io"},
           UNCHANGED <<bindings, binding, wr, quietVars>>, OnlyBs(Cur(t)),
           bs'[Cur(t)].poll_enabled = bs[Cur(t)].poll_enabled,
           \A u \in Thread : u # t => at'[u] = at[u] /\ todo'[u] = todo[u], Settled(t)'
    PROVE  IdleNext
<1>1. /\ binding[c] = Cur(t) /\ Cur(t) \in Binding /\ binding[c] # None /\ LockTypes /\ SleepsWell(c)
  BY IdleVisit
<1>2. vlock'[c] = v /\ \A d \in Vctrl : d # c => vlock'[d] = vlock[d]
  BY <1>1 DEF LockTypes
<1>3. UNCHANGED <<vq, hw, io_idle, paused, guest, irq>>
  BY DEF quietVars
<1>4. StaysQuiet(c)
  BY <1>1, <1>2, <1>3, MovedQuiet DEF StaysQuiet
<1>5. Asleep(c)' => Asleep(c)
  BY <1>1, <1>2, <1>3, SleptBefore
<1>6. Quiescent(c)' <=> Quiescent(c)
  BY <1>3 DEF Quiescent, InFlight, Seen
<1>7. SleepsWell(c)'
  BY <1>1, <1>5, <1>6 DEF SleepsWell
<1> QED BY <1>2, <1>3, <1>4, <1>7, VisitIdle

\* Taking and giving back the lock.
LEMMA SuspendIdle ==
    ASSUME IdleInv, NEW t \in Thread, SuspendBegin(t) \/ SuspendRefused(t)
    PROVE  IdleNext
<1>0. at[t] \in Visiting /\ UNCHANGED <<binding, wr, quietVars>>
  BY DEF SuspendBegin, SuspendRefused, Visiting, ctrlVars, modes, quietVars
<1>1. PICK c \in Vctrl : c = Ctl(t)
  BY <1>0, IdleVisit
<1>2. /\ PollInv /\ binding[c] = Cur(t) /\ Cur(t) \in Binding /\ bs[Cur(t)].vctrl = c
      /\ BindTypes /\ ThreadTypes /\ LockTypes /\ JobTypes /\ Settled(t)
  BY <1>0, <1>1, IdleVisit
<1>3. CASE SuspendBegin(t)
  <2>1. /\ at[t] = "trylock" /\ vlock[c] = "free" /\ vlock' = [vlock EXCEPT ![c] = "io"] /\ Enter(t, "event")
        /\ bs' = bs
    BY <1>1, <1>3 DEF SuspendBegin, Unlocked
  <2>2. /\ UNCHANGED bindings /\ (\A u \in Thread : u # t => at'[u] = at[u] /\ todo'[u] = todo[u])
        /\ at'[t] = "event" /\ todo'[t] = todo[t]
    BY <1>2, <2>1, Moves DEF Place
  <2>3. Settled(t)'
    <3>1. Ctl(t)' = c
      BY <1>1, <2>1, <2>2 DEF Ctl, Cur
    <3>2. vlock'[c] = "io"
      BY <1>2, <2>1 DEF LockTypes
    <3>3. InFlight(c) = 0 /\ Seen(c)
      BY <1>1, <1>2, <2>1 DEF Settled
    <3>4. InFlight(c)' = 0 /\ Seen(c)'
      BY <1>0, <3>3 DEF InFlight, Seen, quietVars
    <3> QED BY <2>2, <3>1, <3>2, <3>4 DEF Settled, InFlight, Seen
  <2>4. OnlyBs(Cur(t)) /\ bs'[Cur(t)].poll_enabled = bs[Cur(t)].poll_enabled
    BY <1>2, <2>1, BsSame
  <2> QED BY <1>0, <1>1, <2>1, <2>2, <2>3, <2>4, LockIdle
<1>4. CASE SuspendRefused(t)
  <2>1. /\ vlock' = [vlock EXCEPT ![c] = "free"] /\ Leave(t, ~io_idle[c]) /\ ~SelfPark(t)
    BY <1>1, <1>4 DEF SuspendRefused, SelfPark
  <2>2. vlock[c] \in {"free", "io"}
    BY <1>1, <1>2, <1>4 DEF SuspendRefused, Unlocked, Settled
  <2>3. /\ UNCHANGED bindings /\ (\A u \in Thread : u # t => at'[u] = at[u] /\ todo'[u] = todo[u])
        /\ at'[t] = "scan"
    <3>1. PICK r \in BOOLEAN : r = ~io_idle[c]
      OBVIOUS
    <3>2. Leave(t, r)
      BY <2>1, <3>1
    <3> QED BY <1>2, <3>2, Moves
  <2>4. OnlyBs(Cur(t)) /\ bs'[Cur(t)].poll_enabled = bs[Cur(t)].poll_enabled
    BY <1>0, <1>2, <1>4, <2>1, LoopBs
  <2>5. Settled(t)'
    BY <2>3, Awake DEF Resting
  <2> QED BY <1>0, <1>1, <2>1, <2>2, <2>3, <2>4, <2>5, LockIdle
<1> QED BY <1>3, <1>4

\* Asking for a doorbell at the next command.
LEMMA EventIdle ==
    ASSUME IdleInv, NEW t \in Thread, SuspendEvent(t)
    PROVE  IdleNext
<1>0. at[t] = "event" /\ at[t] \in Visiting /\ UNCHANGED <<bs, binding, vlock, io_idle, paused, irq, hw, guest, wr>> /\ Enter(t, "suspend")
  BY DEF SuspendEvent, Visiting, modes
<1>1. PICK c \in Vctrl : c = Ctl(t)
  BY <1>0, IdleVisit
<1>2. /\ PollInv /\ binding[c] = Cur(t) /\ Cur(t) \in Binding /\ bs[Cur(t)].vctrl = c /\ binding[c] # None
      /\ BindTypes /\ ThreadTypes /\ QueueTypes /\ Settled(t) /\ SleepsWell(c)
  BY <1>0, <1>1, IdleVisit
<1>3. PICK x \in Idx : x = vq[c].head
  BY <1>2, QueueNats
<1>4. vq' = [vq EXCEPT ![c].eidx = x]
  BY <1>1, <1>3 DEF SuspendEvent
<1>5. /\ OnlyQueue(c) /\ SameCount(c) /\ vq'[c].tail = vq[c].tail
      /\ vq'[c].head = vq[c].head /\ vq'[c].eidx = vq'[c].head
  BY <1>0, <1>2, <1>3, <1>4, EndTypes
<1>6. /\ UNCHANGED bindings /\ (\A u \in Thread : u # t => at'[u] = at[u] /\ todo'[u] = todo[u])
      /\ at'[t] = "suspend" /\ todo'[t] = todo[t]
  BY <1>0, <1>2, Moves DEF Place
<1>7. Settled(t)'
  <2>1. Ctl(t)' = c
    BY <1>0, <1>1, <1>6 DEF Ctl, Cur
  <2>2. InFlight(c) = 0 /\ Seen(c) /\ vlock[c] = "io"
    BY <1>0, <1>1, <1>2 DEF Settled
  <2>3. InFlight(c)' = 0 /\ Seen(c)' /\ vlock'[c] = "io"
    BY <1>0, <1>5, <2>2 DEF InFlight, Seen, SameCount
  <2> QED BY <1>5, <1>6, <2>1, <2>3 DEF Settled, InFlight, Seen
<1>8. OnlyBs(Cur(t)) /\ bs'[Cur(t)].poll_enabled = bs[Cur(t)].poll_enabled
  BY <1>0, <1>2, BsSame
<1>9. StaysQuiet(c)
  BY <1>0, <1>2, <1>5, <1>8, MovedQuiet DEF StaysQuiet
<1>10. Asleep(c)' => Asleep(c)
  BY <1>0, <1>2, <1>8, SleptBefore
<1>11. Quiescent(c) => Quiescent(c)'
  BY <1>0, <1>5 DEF Quiescent, InFlight, Seen, SameCount
<1>12. SleepsWell(c)'
  BY <1>2, <1>10, <1>11 DEF SleepsWell
<1> QED BY <1>0, <1>1, <1>5, <1>6, <1>7, <1>8, <1>9, <1>12, VisitIdle DEF OnlyQueue

\* Going to sleep.
LEMMA ParkIdle ==
    ASSUME IdleInv, NEW t \in Thread, SelfPark(t)
    PROVE  IdleNext
<1>0. at[t] = "suspend" /\ at[t] \in Visiting /\ UNCHANGED <<binding, paused, irq, vq, hw, guest, wr>> /\ Leave(t, FALSE)
  BY DEF SelfPark, Visiting, modes
<1>1. PICK c \in Vctrl : c = Ctl(t)
  BY <1>0, IdleVisit
<1>2. /\ PollInv /\ binding[c] = Cur(t) /\ Cur(t) \in Binding /\ Homed(Cur(t))
      /\ ThreadTypes /\ LockTypes /\ JobTypes /\ Settled(t)
  BY <1>0, <1>1, IdleVisit
<1>3. /\ vq[c].tail = vq[c].head /\ vlock' = [vlock EXCEPT ![c] = "free"]
      /\ io_idle' = [io_idle EXCEPT ![c] = TRUE]
  BY <1>1 DEF SelfPark
<1>4. vlock'[c] = "free" /\ \A d \in Vctrl : d # c => vlock'[d] = vlock[d] /\ io_idle'[d] = io_idle[d]
  BY <1>2, <1>3 DEF LockTypes, JobTypes
<1>5. /\ UNCHANGED bindings /\ (\A u \in Thread : u # t => at'[u] = at[u] /\ todo'[u] = todo[u])
      /\ at'[t] = "scan"
  BY <1>0, <1>2, Moves
<1>6. OnlyBs(Cur(t)) /\ bs'[Cur(t)].poll_enabled = FALSE
  BY <1>0, <1>2, LoopBs
<1>7. StaysQuiet(c)
  BY <1>0, <1>2, <1>3, <1>4, <1>6, MovedQuiet DEF StaysQuiet
<1>8. Quiescent(c)
  BY <1>0, <1>1, <1>2, <1>3 DEF Settled, Quiescent
<1>9. Quiescent(c)'
  BY <1>0, <1>8 DEF Quiescent, InFlight, Seen
<1>10. SleepsWell(c)' /\ Settled(t)'
  BY <1>5, <1>9, Awake DEF SleepsWell, Resting
<1> QED BY <1>0, <1>1, <1>4, <1>5, <1>6, <1>7, <1>10, VisitIdle

\* Every step of a thread.
LEMMA ThreadIdle == ASSUME IdleInv, NEW t \in Thread, ThreadStep(t) PROVE IdleNext
  BY PlainIdle, ServeIdle, DrainIdle, SuspendIdle, EventIdle, ParkIdle DEF ThreadStep

\* Only the binding of c changes.
BsAt(c) == /\ \A x \in Binding : bs'[x].vctrl = bs[x].vctrl
           /\ \A x \in Binding : x # binding[c] => bs'[x] = bs[x]

\* What is in flight or unseen stays so.
LEMMA CountSeen ==
    ASSUME NEW c \in Vctrl, SameCount(c), irq' = irq
    PROVE  InFlight(c) = 0 /\ Seen(c) => (InFlight(c) = 0 /\ Seen(c))'
  BY DEF SameCount, InFlight, Seen

\* Steps at a controller, with a thread that may be about to let it sleep.
LEMMA CtrlFrame ==
    ASSUME IdleInv, NEW c \in Vctrl, UNCHANGED <<at, todo, bindings, binding, wr>>, BsAt(c),
           \A d \in Vctrl : d # c =>
              /\ vq'[d] = vq[d] /\ hw'[d] = hw[d] /\ vlock'[d] = vlock[d] /\ io_idle'[d] = io_idle[d]
              /\ paused'[d] = paused[d] /\ guest'[d] = guest[d] /\ irq'[d] = irq[d],
           SameEnds(c), InFlight(c) = 0 /\ Seen(c) => (InFlight(c) = 0 /\ Seen(c))',
           vlock'[c] = vlock[c] \/ vlock[c] # "io",
           StaysQuiet(c), SleepsWell(c)'
    PROVE  IdleNext
<1>1. PollInv /\ BindTypes /\ Lists
  BY TypeParts DEF IdleInv, PollInv
<1>2. ASSUME NEW d \in Vctrl, d # c PROVE CtlKept(d)
  <2>1. ASSUME binding[d] # None PROVE bs'[binding[d]] = bs[binding[d]]
    <3>1. binding[d] \in Binding /\ bs[binding[d]].vctrl = d
      BY <1>1, <2>1 DEF BindTypes, Lists
    <3>2. binding[d] # binding[c]
      BY <1>1, <1>2, <2>1, <3>1 DEF Lists
    <3> QED BY <3>1, <3>2 DEF BsAt
  <2> QED BY <1>2, <2>1 DEF CtlKept
<1>3. ASSUME NEW t \in Thread, at[t] \in Visiting PROVE CtlKept(Ctl(t)) \/ Settled(t)'
  <2>1. Ctl(t) \in Vctrl /\ Settled(t) /\ Cur(t) \in Binding
    BY <1>3, IdleVisit
  <2>2. CASE Ctl(t) # c
    BY <1>2, <2>1, <2>2
  <2>3. CASE Ctl(t) = c /\ at[t] \in Resting
    <3>1. Ctl(t)' = c
      BY <2>1, <2>3 DEF Ctl, Cur, BsAt
    <3>2. InFlight(c) = 0 /\ Seen(c)
      BY <2>1, <2>3 DEF Settled, Resting
    <3>3. InFlight(c)' = 0 /\ Seen(c)'
      BY <3>2 DEF InFlight, Seen
    <3>4. at[t] \in {"event", "suspend"} => vlock'[c] = "io"
      BY <2>1, <2>3 DEF Settled
    <3>5. at[t] = "suspend" => vq'[c].eidx = vq'[c].head
      BY <2>1, <2>3 DEF Settled, SameEnds
    <3> QED BY <3>1, <3>3, <3>4, <3>5 DEF Settled, InFlight, Seen
  <2>4. CASE at[t] \notin Resting
    BY <2>4, Awake
  <2> QED BY <2>2, <2>3, <2>4
<1> QED BY <1>2, <1>3, IdleFrame DEF BsAt

\* Pausing and resuming change the controller's binding.
LEMMA ToggledAt ==
    ASSUME NEW c \in Vctrl, NEW on, Toggled(c, on)
    PROVE  BsAt(c) /\ (binding[c] # None => bs'[binding[c]].poll_enabled = on)
<1>1. CASE binding[c] = None
  BY <1>1 DEF Toggled, BsAt
<1>2. CASE binding[c] # None
  BY <1>2 DEF Toggled, BsAt, OnlyBs
<1> QED BY <1>1, <1>2

\* Pausing and resuming.
LEMMA HostIdle ==
    ASSUME IdleInv, QuietRebind, NEW c \in Vctrl, HostStep(c)
    PROVE  IdleNext
<1>0. PollInv /\ LockTypes /\ JobTypes /\ Home
  BY TypeParts DEF IdleInv, PollInv
<1>1. /\ UNCHANGED <<at, todo, bindings, binding, wr, vq, hw, guest, io_idle, irq>>
      /\ vlock' \in [Vctrl -> {"free", "io", "pause", "resume"}] /\ \A d \in Vctrl : d # c => vlock'[d] = vlock[d]
      /\ \A d \in Vctrl : d # c => paused'[d] = paused[d]
  BY <1>0 DEF HostStep, PauseBegin, PauseEnd, nvme_mdev_vctrl_pause, LockTypes, JobTypes, modes
<1>2. vlock'[c] = vlock[c] \/ vlock[c] # "io"
  BY DEF HostStep, PauseBegin, PauseEnd, nvme_mdev_vctrl_pause, Unlocked
<1>3. ~Storing(c)
  <2>1. CASE PauseBegin(c) \/ nvme_mdev_vctrl_pause(c)
    BY <2>1 DEF PauseBegin, nvme_mdev_vctrl_pause, Quiet
  <2>2. CASE PauseEnd(c)
    BY <2>2, MovedQuiet DEF PauseEnd
  <2> QED BY <2>1, <2>2 DEF HostStep
<1>4. StaysQuiet(c) /\ SameEnds(c) /\ SameCount(c)
  BY <1>1, <1>3 DEF StaysQuiet, SameEnds, SameCount
<1>5. CASE PauseBegin(c)
  <2>1. BsAt(c)
    BY <1>0, <1>5, Toggles, ToggledAt DEF PauseBegin
  <2>2. vlock'[c] \in {"pause", "resume"}
    BY <1>0, <1>5 DEF PauseBegin, LockTypes
  <2>3. SleepsWell(c)'
    BY <2>2 DEF SleepsWell, Asleep
  <2> QED BY <1>1, <1>2, <1>4, <2>1, <2>3, CountSeen, CtrlFrame
<1>6. CASE nvme_mdev_vctrl_pause(c)
  <2>1. BsAt(c)
    BY <1>0, <1>6, Toggles, ToggledAt DEF nvme_mdev_vctrl_pause
  <2>2. paused'[c] = TRUE
    BY <1>0, <1>6 DEF nvme_mdev_vctrl_pause, JobTypes
  <2>3. SleepsWell(c)'
    BY <2>2 DEF SleepsWell, Asleep
  <2> QED BY <1>1, <1>2, <1>4, <2>1, <2>3, CountSeen, CtrlFrame
<1>7. CASE PauseEnd(c)
  <2>1. BsAt(c) /\ binding[c] # None /\ bs'[binding[c]].poll_enabled = TRUE
    <3>1. io_resume(c)
      BY <1>7 DEF PauseEnd, IdleInv, Resumed
    <3> QED BY <1>0, <3>1, Toggles, ToggledAt DEF io_resume
  <2>2. ~(Storing(c)')
    BY <1>1, <1>3 DEF Storing
  <2>3. SleepsWell(c)'
    BY <1>1, <2>1, <2>2 DEF SleepsWell, Asleep
  <2> QED BY <1>1, <1>2, <1>4, <2>1, <2>3, CountSeen, CtrlFrame
<1> QED BY <1>5, <1>6, <1>7 DEF HostStep

\* When an event is needed.
LEMMA EventNeeded ==
    ASSUME NEW x \in Int, NEW h \in Int, NEW a \in Int, NEW b \in Int, (x - 1) % Size = h,
           (x - h - 1) % 65536 = a, (x - h) % 65536 = b, a < b
    PROVE  NeedEvent(x, h)
  BY SMT DEF NeedEvent

\* The guest's driver writes the doorbell register for the first command
\* past the event index, for every queue size of at most 2^16.
LEMMA FirstRings ==
    ASSUME NEW h \in Idx
    PROVE  NeedEvent((h + 1) % Size, h)
<1>1. h \in Nat /\ h <= Size - 1 /\ Size \in Nat /\ Size >= 2 /\ Size <= 65536
  BY Sizes, SMT DEF Idx
<1>2. PICK x \in Nat : x = (h + 1) % Size
  BY <1>1, SMT
<1>3. CASE h + 1 < Size
  <2>1. x = h + 1
    BY <1>1, <1>2, <1>3, SMT
  <2>2. x - 1 = h /\ x - h - 1 = 0 /\ x - h = 1 /\ h % Size = h
    BY <1>1, <2>1, SMT
  <2>3. (x - 1) % Size = h /\ (x - h - 1) % 65536 = 0 /\ (x - h) % 65536 = 1
    BY <2>2, SMT
  <2>4. NeedEvent(x, h)
    BY <1>1, <2>3, EventNeeded, SMT
  <2> QED BY <1>2, <2>4, SMT
<1>4. CASE h + 1 = Size
  <2>1. x = 0
    BY <1>1, <1>2, <1>4, SMT
  <2>2. (x - 1) % Size = h
    BY <1>1, <1>4, <2>1, SMT
  <2>3. (x - h - 1) % 65536 = 65536 - h - 1 /\ (x - h) % 65536 = 65536 - h
    BY <1>1, <1>4, <2>1, SMT
  <2>4. 65536 - h - 1 < 65536 - h
    BY <1>1, SMT
  <2>5. NeedEvent(x, h)
    BY <1>1, <2>2, <2>3, <2>4, EventNeeded, SMT
  <2> QED BY <1>2, <2>5, SMT
<1> QED BY <1>1, <1>3, <1>4, SMT

\* The queue keeps its pair or moves its tail by one.
LEMMA TailMoves ==
    ASSUME QueueTypes, NEW c \in Vctrl, hw' = hw, vq' = vq \/ vq' = [vq EXCEPT ![c].tail = (vq[c].tail + 1) % Size]
    PROVE  /\ OnlyQueue(c) /\ SameEnds(c) /\ SameCount(c)
           /\ vq' # vq => vq'[c].tail = (vq[c].tail + 1) % Size
<1>1. CASE vq' = vq
  BY <1>1 DEF OnlyQueue, SameEnds, SameCount
<1>2. CASE vq' = [vq EXCEPT ![c].tail = (vq[c].tail + 1) % Size]
  <2>1. PICK x \in Idx : x = (vq[c].tail + 1) % Size
    BY NextTail
  <2>2. vq' = [vq EXCEPT ![c].tail = x]
    BY <1>2, <2>1
  <2> QED BY <2>1, <2>2, EndTypes
<1> QED BY <1>1, <1>2

\* The doorbell register is written.
LEMMA DoorbellIdle ==
    ASSUME IdleInv, NEW c \in Vctrl, DoorbellWrite(c)
    PROVE  IdleNext
<1>0. PollInv /\ QueueTypes /\ JobTypes
  BY TypeParts DEF IdleInv, PollInv
<1>1. /\ UNCHANGED <<at, todo, bindings, binding, vlock, paused, irq, hw, wr>> /\ guest[c] = "mmio"
      /\ (\A d \in Vctrl : d # c => io_idle'[d] = io_idle[d] /\ guest'[d] = guest[d]) /\ io_idle'[c] = FALSE
      /\ vq' = vq \/ vq' = [vq EXCEPT ![c].tail = (vq[c].tail + 1) % Size]
  BY <1>0 DEF DoorbellWrite, JobTypes, modes
<1>2. StaysQuiet(c)
  BY <1>1, MovedQuiet DEF StaysQuiet
<1>3. BsAt(c)
  <2>1. CASE UNCHANGED bs
    BY <2>1 DEF BsAt
  <2>2. CASE io_resume(c)
    BY <1>0, <2>2, Toggles, ToggledAt
  <2> QED BY <2>1, <2>2 DEF DoorbellWrite
<1>4. OnlyQueue(c) /\ SameEnds(c) /\ SameCount(c)
  BY <1>0, <1>1, TailMoves
<1>5. SleepsWell(c)'
  BY <1>1 DEF SleepsWell, Asleep
<1> QED BY <1>1, <1>2, <1>3, <1>4, <1>5, CountSeen, CtrlFrame DEF OnlyQueue

\* The guest submits a command.
LEMMA SubmitIdle ==
    ASSUME IdleInv, QuietRebind, NEW c \in Vctrl, GuestSubmit(c)
    PROVE  IdleNext
<1>0. PollInv /\ QueueTypes /\ JobTypes /\ SleepsWell(c)
  BY TypeParts DEF IdleInv, PollInv, SleepsWell
<1>1. /\ UNCHANGED <<at, todo, bindings, bs, binding, vlock, paused, io_idle, irq, hw, wr>> /\ guest[c] = "run"
      /\ (\A d \in Vctrl : d # c => guest'[d] = guest[d])
      /\ guest'[c] = IF shadow[c] THEN "wrote" ELSE "mmio"
      /\ vq' = IF shadow[c] THEN [vq EXCEPT ![c].tail = (vq[c].tail + 1) % Size] ELSE vq
  BY <1>0 DEF GuestSubmit, JobTypes, threadVars, modes
<1>2. ~Storing(c)
  BY DEF GuestSubmit, Quiet
<1>3. StaysQuiet(c) /\ BsAt(c)
  BY <1>1, <1>2 DEF StaysQuiet, BsAt
<1>4. /\ OnlyQueue(c) /\ SameEnds(c) /\ SameCount(c)
      /\ vq' # vq => vq'[c].tail = (vq[c].tail + 1) % Size
  BY <1>0, <1>1, TailMoves
<1>5. Asleep(c)' => Asleep(c)
  BY <1>1, SleptBefore
<1>6. ASSUME Quiescent(c) PROVE Quiescent(c)'
  <2>1. vq[c].tail = vq[c].head
    BY <1>1, <1>6 DEF Quiescent
  <2>2. InFlight(c)' = 0 /\ Seen(c)' /\ vq'[c].eidx = vq'[c].head
    BY <1>1, <1>4, <1>6 DEF Quiescent, SameEnds, SameCount, InFlight, Seen
  <2>3. vq'[c].tail = vq'[c].head \/ (vq'[c].tail = (vq'[c].head + 1) % Size /\ guest'[c] \in {"wrote", "mmio"})
    BY <1>1, <1>4, <2>1 DEF SameEnds
  <2> QED BY <2>2, <2>3 DEF Quiescent, InFlight, Seen
<1>7. SleepsWell(c)'
  BY <1>0, <1>5, <1>6 DEF SleepsWell
<1> QED BY <1>1, <1>3, <1>4, <1>7, CountSeen, CtrlFrame DEF OnlyQueue

\* The guest looks at the event index.
LEMMA CheckIdle ==
    ASSUME IdleInv, NEW c \in Vctrl, GuestCheck(c)
    PROVE  IdleNext
<1>0. PollInv /\ QueueTypes /\ JobTypes /\ SleepsWell(c)
  BY TypeParts DEF IdleInv, PollInv, SleepsWell
<1>1. /\ UNCHANGED <<at, todo, bindings, bs, binding, vlock, paused, io_idle, irq, vq, hw, wr>> /\ guest[c] = "wrote"
      /\ (\A d \in Vctrl : d # c => guest'[d] = guest[d])
      /\ NeedEvent(vq[c].tail, vq[c].eidx) => guest'[c] = "mmio"
  BY <1>0 DEF GuestCheck, JobTypes, threadVars, modes
<1>2. StaysQuiet(c) /\ BsAt(c)
  BY <1>1, MovedQuiet DEF StaysQuiet, BsAt
<1>3. SameEnds(c) /\ SameCount(c)
  BY <1>1 DEF SameEnds, SameCount
<1>4. Asleep(c)' => Asleep(c)
  BY <1>1, SleptBefore
<1>5. ASSUME Quiescent(c) PROVE Quiescent(c)'
  <2>1. vq[c].head \in Idx
    BY <1>0, QueueNats
  <2>2. vq[c].tail = (vq[c].head + 1) % Size => guest'[c] = "mmio"
    BY <1>1, <1>5, <2>1, FirstRings DEF Quiescent
  <2> QED BY <1>1, <1>5, <2>2 DEF Quiescent, InFlight, Seen
<1>6. SleepsWell(c)'
  BY <1>0, <1>4, <1>5 DEF SleepsWell
<1> QED BY <1>1, <1>2, <1>3, <1>6, CountSeen, CtrlFrame

\* Completions come, and are seen.
LEMMA CompletionIdle ==
    ASSUME IdleInv, NEW c \in Vctrl, GuestConsume(c) \/ HostDone(c)
    PROVE  IdleNext
<1>0. PollInv /\ QueueTypes /\ SleepsWell(c)
  BY TypeParts DEF IdleInv, PollInv, SleepsWell
<1>1. UNCHANGED <<at, todo, bindings, bs, binding, vlock, paused, io_idle, irq, guest, wr>>
  BY DEF GuestConsume, HostDone, threadVars, modes
<1>2. OnlyQueue(c) /\ SameEnds(c) /\ vq'[c].tail = vq[c].tail
  BY <1>0, ConsumeTypes, DoneTypes DEF SameEnds
<1>3. ASSUME InFlight(c) = 0, Seen(c) PROVE InFlight(c)' = 0 /\ Seen(c)'
  <2>1. vq[c].unread \in Nat /\ hw[c].pending \in Nat /\ hw[c].done \in Nat
    BY <1>0, QueueNats
  <2>2. ~HostDone(c)
    BY <1>3, <2>1 DEF HostDone, InFlight
  <2>3. vq[c].unread # 0 /\ hw' = hw
    BY <2>1, <2>2 DEF GuestConsume
  <2> QED BY <1>1, <1>3, <2>3 DEF Seen, InFlight
<1>4. StaysQuiet(c) /\ BsAt(c)
  BY <1>1, <1>2, MovedQuiet DEF StaysQuiet, BsAt, SameEnds
<1>5. Asleep(c)' => Asleep(c)
  BY <1>1, SleptBefore
<1>6. Quiescent(c) => Quiescent(c)'
  BY <1>1, <1>2, <1>3 DEF Quiescent, SameEnds, InFlight, Seen
<1>7. SleepsWell(c)'
  BY <1>0, <1>5, <1>6 DEF SleepsWell
<1> QED BY <1>1, <1>2, <1>3, <1>4, <1>7, CtrlFrame DEF OnlyQueue

\* Every step of the host, the guest and the devices.
LEMMA CtrlIdle ==
    ASSUME IdleInv, QuietRebind, NEW c \in Vctrl, HostStep(c) \/ GuestStep(c) \/ HostDone(c)
    PROVE  IdleNext
  BY HostIdle, DoorbellIdle, SubmitIdle, CheckIdle, CompletionIdle DEF GuestStep

(***************************************************************************)
(* Going to sleep: the writers of iothread_idx.                            *)
(***************************************************************************)

\* With one writer, a controller is moved by it.
LEMMA StoringOf ==
    ASSUME OneWriter, NEW w \in Writers, NEW d
    PROVE  /\ Storing(d) <=> wr[w].pc # "off" /\ wr[w].c = d
           /\ Storing(d)' <=> wr'[w].pc # "off" /\ wr'[w].c = d
  BY DEF OneWriter, Storing

\* The other controllers are at home.
LEMMA Others ==
    ASSUME IdleInv, NEW d \in Vctrl, ~Storing(d)
    PROVE  binding[d] \in Binding /\ binding[d] # None /\ Homed(binding[d]) /\ bs[binding[d]].vctrl = d /\ SleepsWell(d)
<1>1. Home /\ Lists /\ SleepsWell(d)
  BY DEF IdleInv, PollInv, SleepsWell
<1>2. binding[d] \in Binding /\ Homed(binding[d])
  BY <1>1 DEF Home
<1> QED BY <1>1, <1>2, NoneOut DEF Lists

\* The threads do not notice.
LEMMA WriterSettled ==
    ASSUME IdleInv, UNCHANGED <<at, todo, vlock, quietVars>>,
           \A x \in Binding : Homed(x) => bs'[x].vctrl = bs[x].vctrl, NEW t \in Thread
    PROVE  Settled(t)'
<1>1. Settled(t)
  BY DEF IdleInv
<1>2. CASE at[t] \notin Resting
  BY <1>2, Awake
<1>3. CASE at[t] \in Resting
  <2>1. Cur(t) \in Binding /\ Homed(Cur(t))
    BY <1>3, IdleVisit DEF Resting, Visiting
  <2>2. Ctl(t)' = Ctl(t)
    BY <2>1 DEF Ctl, Cur
  <2> QED BY <1>1, <2>2 DEF Settled, InFlight, Seen, quietVars
<1> QED BY <1>2, <1>3

\* Controllers that are not moved, before and after.
LEMMA OtherSleeps ==
    ASSUME IdleInv, NEW d \in Vctrl, ~Storing(d), ~(Storing(d)'), UNCHANGED <<vlock, quietVars>>,
           binding'[d] = binding[d], bs'[binding[d]].poll_enabled = bs[binding[d]].poll_enabled
    PROVE  SleepsWell(d)'
<1>1. SleepsWell(d)
  BY Others
<1>2. Asleep(d)' => Asleep(d)
  BY DEF Asleep, Storing, quietVars
<1>3. Quiescent(d) => Quiescent(d)'
  BY DEF Quiescent, InFlight, Seen, quietVars
<1> QED BY <1>1, <1>2, <1>3 DEF SleepsWell

\* What the writer knows of its controller, at any step but the first.
LEMMA FoundBase ==
    ASSUME IdleInv, NEW w \in Writers, wr[w].pc # "off", NEW c \in Vctrl, c = wr[w].c,
           UNCHANGED <<vlock, quietVars>>
    PROVE  /\ vlock'[c] \in {"free", "io"} /\ guest'[c] = "run" /\ vq'[c].tail = vq'[c].head
           /\ ~wr[w].old /\ binding[c] # None => ~bs[binding[c]].poll_enabled
<1>1. Found(w)
  BY DEF IdleInv
<1> QED BY <1>1 DEF Found, quietVars

\* A step in the middle of moving c.
LEMMA StoreFrame ==
    ASSUME IdleInv, OneWriter, NEW w \in Writers, NEW c \in Vctrl, c = wr[w].c, wr[w].pc # "off",
           wr'[w].pc # "off", wr'[w].c = c, wr'[w].old = wr[w].old, UNCHANGED <<at, todo, vlock, quietVars>>,
           \A x \in Binding : Homed(x) => bs'[x].vctrl = bs[x].vctrl,
           \A d \in Vctrl : d # c =>
              /\ binding'[d] = binding[d] /\ bs'[binding[d]].poll_enabled = bs[binding[d]].poll_enabled
              /\ Homed(binding[d])',
           Found(w)'
    PROVE  IdleNext
<1>1. \A d \in Vctrl : (Storing(d) <=> d = c) /\ (Storing(d)' <=> d = c)
  BY StoringOf
<1>2. Home'
  <2>1. ASSUME NEW d \in Vctrl, d # c PROVE binding'[d] \in Binding /\ Homed(binding[d])'
    BY <1>1, <2>1, Others
  <2> QED BY <1>1, <2>1 DEF Home
<1>3. \A t \in Thread : Settled(t)'
  BY WriterSettled
<1>4. \A v \in Writers : Found(v)'
  BY DEF OneWriter
<1>5. ASSUME NEW d \in Vctrl PROVE SleepsWell(d)'
  <2>1. CASE d # c
    BY <1>1, <2>1, OtherSleeps
  <2>2. CASE d = c
    <3>1. SleepsWell(c)
      BY DEF IdleInv, SleepsWell
    <3>2. \A v \in Writers : v = w
      BY DEF OneWriter
    <3>3. Asleep(c)' => Asleep(c)
      BY <1>1, <3>2 DEF Asleep, quietVars
    <3>4. Quiescent(c) => Quiescent(c)'
      BY DEF Quiescent, InFlight, Seen, quietVars
    <3> QED BY <2>2, <3>1, <3>3, <3>4 DEF SleepsWell
  <2> QED BY <2>1, <2>2
<1> QED BY <1>2, <1>3, <1>4, <1>5 DEF IdleNext

\* A queue without commands.
LEMMA NoneQueued ==
    ASSUME QueueTypes, NEW c \in Vctrl, Queued(c) = 0
    PROVE  vq[c].tail = vq[c].head
<1>1. vq[c].tail \in Idx /\ vq[c].head \in Idx
  BY QueueNats
<1>2. PICK x \in Idx : x = vq[c].tail
  BY <1>1
<1>3. PICK y \in Idx : y = vq[c].head
  BY <1>1
<1>4. (x - y) % Size = 0
  BY <1>2, <1>3 DEF Queued
<1>5. x \in Nat /\ y \in Nat /\ x < Size /\ y < Size /\ Size \in Nat
  BY Sizes, SMT DEF Idx
<1>6. CASE x > y
  <2>1. (x - y) % Size = x - y
    BY <1>5, <1>6
  <2> QED BY <1>4, <1>5, <1>6, <2>1
<1>7. CASE x < y
  <2>1. (x - y) % Size = x - y + Size
    BY <1>5, <1>7
  <2> QED BY <1>4, <1>5, <1>7, <2>1
<1> QED BY <1>2, <1>3, <1>5, <1>6, <1>7

\* Beginning.
LEMMA StoreBeginIdle ==
    ASSUME IdleInv, OneWriter, QuietRebind, NEW w \in Writers, NEW c \in Vctrl, NEW to \in Thread, StoreBegin(w, c, to)
    PROVE  IdleNext
<1>0. JobTypes /\ QueueTypes
  BY TypeParts DEF IdleInv, PollInv
<1>1. /\ wr[w].pc = "off" /\ vlock[c] = "free" /\ guest[c] = "run" /\ Queued(c) = 0
      /\ UNCHANGED <<at, todo, bindings, bs, binding, vlock, quietVars>>
  BY DEF StoreBegin, Unlocked, threadVars, ctrlVars, modes, quietVars
<1>2. \A d \in Vctrl : ~Storing(d)
  BY <1>1, StoringOf
<1>3. binding[c] \in Binding /\ binding[c] # None /\ Homed(binding[c])
  BY <1>2, Others
<1>4. /\ wr'[w].pc = "pause" /\ wr'[w].c = c /\ wr'[w].i = 0 /\ wr'[w].n = 0
      /\ wr'[w].old <=> bs[binding[c]].poll_enabled
  <2>1. PICK o \in BOOLEAN : o = (binding[c] # None /\ bs[binding[c]].poll_enabled)
    OBVIOUS
  <2>2. wr' = [wr EXCEPT ![w] = [pc |-> "pause", c |-> c, to |-> to, i |-> 0, n |-> 0, b |-> None, old |-> o]]
    BY <2>1 DEF StoreBegin
  <2>3. wr'[w] = [pc |-> "pause", c |-> c, to |-> to, i |-> 0, n |-> 0, b |-> None, old |-> o]
    BY <1>0, <2>2 DEF JobTypes
  <2>4. wr'[w].pc = "pause" /\ wr'[w].c = c /\ wr'[w].i = 0 /\ wr'[w].n = 0 /\ wr'[w].old = o
    BY <2>3
  <2>5. o <=> bs[binding[c]].poll_enabled
    BY <1>3, <2>1
  <2> QED BY <2>4, <2>5
<1>5. \A d \in Vctrl : Storing(d)' <=> d = c
  BY <1>4, StoringOf
<1>6. \A x : Homed(x)' <=> Homed(x)
  BY <1>1 DEF Homed, Listed
<1>7. Home'
  BY <1>1, <1>2, <1>5, <1>6, Others DEF Home
<1>8. \A t \in Thread : Settled(t)'
  BY <1>1, WriterSettled
<1>9. Found(w)'
  <2>1. PICK t \in Thread : Listed(t, binding[c])
    BY <1>3 DEF Homed
  <2>2. t \in 0 .. NThreads - 1 /\ Listed(t, binding[c])'
    BY <1>1, <2>1 DEF Thread, Listed
  <2>3. vq[c].tail = vq[c].head
    BY <1>0, <1>1, NoneQueued
  <2> QED BY <1>1, <1>4, <2>2, <2>3 DEF Found, quietVars
<1>10. \A v \in Writers : Found(v)'
  BY <1>9 DEF OneWriter
<1>11. ASSUME NEW d \in Vctrl PROVE SleepsWell(d)'
  <2>1. CASE d # c
    BY <1>1, <1>2, <1>5, <2>1, OtherSleeps
  <2>2. CASE d = c
    <3>1. SleepsWell(c)
      BY DEF IdleInv, SleepsWell
    <3>2. Asleep(c)' => Asleep(c)
      BY <1>1, <1>2, <1>4, <1>5 DEF Asleep, quietVars, Storing
    <3>3. Quiescent(c) => Quiescent(c)'
      BY <1>1 DEF Quiescent, InFlight, Seen, quietVars
    <3> QED BY <2>2, <3>1, <3>2, <3>3 DEF SleepsWell
  <2> QED BY <2>1, <2>2
<1> QED BY <1>7, <1>8, <1>10, <1>11 DEF IdleNext

\* Pausing the controller that is moved.
LEMMA UnbindPauseIdle ==
    ASSUME IdleInv, OneWriter, NEW w \in Writers, UnbindPause(w)
    PROVE  IdleNext
<1>0. PollInv /\ JobTypes /\ Found(w) /\ Moving(w) /\ BindTypes /\ Lists
  BY TypeParts DEF IdleInv, PollInv
<1>1. /\ wr[w].pc = "pause" /\ io_pause(wr[w].c) /\ wr' = [wr EXCEPT ![w].pc = "del"]
      /\ UNCHANGED <<at, bindings, todo, binding, vlock, quietVars>>
  BY DEF UnbindPause, modes, quietVars
<1>2. PICK c \in Vctrl : c = wr[w].c
  BY <1>0, <1>1, JobFields
<1>3. JobSet(w, "del", wr[w].i, wr[w].n, wr[w].b)
  BY <1>0, <1>1, JobPc DEF Pcs
<1>4. BsAt(c) /\ (binding[c] # None => bs'[binding[c]].poll_enabled = FALSE)
  BY <1>0, <1>1, <1>2, Toggles, ToggledAt
<1>5. \A x : Homed(x)' <=> Homed(x)
  BY <1>1 DEF Homed, Listed
<1>6. ASSUME NEW d \in Vctrl, d # c
      PROVE  /\ binding'[d] = binding[d] /\ bs'[binding[d]].poll_enabled = bs[binding[d]].poll_enabled
             /\ Homed(binding[d])'
  <2>1. binding[d] \in Binding /\ Homed(binding[d]) /\ bs[binding[d]].vctrl = d /\ binding[d] # None
    BY <1>2, <1>6, StoringOf, Others
  <2>2. binding[d] # binding[c]
    BY <1>0, <1>6, <2>1 DEF Lists
  <2> QED BY <1>1, <1>4, <1>5, <2>1, <2>2 DEF BsAt
<1>7. Found(w)'
  <2>1. vlock'[c] \in {"free", "io"} /\ guest'[c] = "run" /\ vq'[c].tail = vq'[c].head
    BY <1>1, <1>2, FoundBase
  <2>2. IF wr[w].n = 0 THEN \E t \in wr[w].i .. NThreads - 1 : Listed(t, binding[c]) ELSE binding[c] = None
    BY <1>0, <1>1, <1>2 DEF Found
  <2>3. \A t : Listed(t, binding[c])' <=> Listed(t, binding[c])
    BY <1>1 DEF Listed
  <2>4. IF wr[w].n = 0 THEN \E t \in wr[w].i .. NThreads - 1 : Listed(t, binding[c])' ELSE binding'[c] = None
    BY <1>1, <2>2, <2>3
  <2>5. /\ wr'[w].pc = "del" /\ wr'[w].c = c /\ wr'[w].i = wr[w].i /\ wr'[w].n = wr[w].n
        /\ binding' = binding
    BY <1>1, <1>2, <1>3 DEF JobSet
  <2> QED BY <1>4, <2>1, <2>4, <2>5 DEF Found
<1>8. wr'[w].pc # "off" /\ wr'[w].c = c /\ wr'[w].old = wr[w].old
  BY <1>2, <1>3 DEF JobSet
<1> QED BY <1>1, <1>2, <1>4, <1>6, <1>7, <1>8, StoreFrame DEF BsAt

\* Removing its binding from a list: the binding is found.
LEMMA UnbindDelIdle ==
    ASSUME IdleInv, OneWriter, NEW w \in Writers, UnbindDel(w)
    PROVE  IdleNext
<1>0. PollInv /\ JobTypes /\ Found(w) /\ BindTypes /\ Lists /\ ThreadTypes
  BY TypeParts DEF IdleInv, PollInv
<1>1. wr[w].pc = "del" /\ UNCHANGED <<at, todo, bs, binding, vlock, quietVars>>
  BY DEF UnbindDel, ctrlVars, modes, quietVars
<1>2. PICK i \in Thread : i = wr[w].i
  BY <1>0, JobFields
<1>3. PICK c \in Vctrl : c = wr[w].c
  BY <1>0, <1>1, JobFields
<1>4. PICK n \in Nat : Removed(w, i, c, n)
  BY <1>0, <1>2, <1>3, DelEffect
<1>5. \A t \in Thread : \A b \in Binding : Listed(t, b)' <=> Listed(t, b) /\ ~(t = i /\ bs[b].vctrl = c)
  BY <1>4 DEF Removed
<1>6. ASSUME NEW d \in Vctrl, d # c
      PROVE  /\ binding'[d] = binding[d] /\ bs'[binding[d]].poll_enabled = bs[binding[d]].poll_enabled
             /\ Homed(binding[d])'
  <2>1. binding[d] \in Binding /\ Homed(binding[d]) /\ bs[binding[d]].vctrl = d
    BY <1>3, <1>6, StoringOf, Others
  <2>2. PICK t \in Thread : Listed(t, binding[d])
    BY <2>1 DEF Homed
  <2>3. PICK b \in Binding : b = binding[d]
    BY <2>1
  <2>4. Listed(t, b)'
    BY <1>5, <1>6, <2>1, <2>2, <2>3
  <2>5. Homed(b)'
    BY <2>4 DEF Homed
  <2> QED BY <1>1, <2>3, <2>5
<1>7. /\ vlock'[c] \in {"free", "io"} /\ guest'[c] = "run" /\ vq'[c].tail = vq'[c].head
      /\ ~wr[w].old /\ binding'[c] # None => ~bs'[binding'[c]].poll_enabled
  BY <1>1, <1>3, FoundBase
<1>8. CASE n > 0
  <2>1. JobSet(w, "null", i, n, wr[w].b)
    BY <1>4, <1>8 DEF Removed
  <2>2. wr'[w].pc = "null" /\ wr'[w].c = c /\ wr'[w].old = wr[w].old
    BY <1>3, <2>1 DEF JobSet
  <2>3. Found(w)'
    BY <1>7, <2>2 DEF Found
  <2> QED BY <1>1, <1>3, <1>6, <2>2, <2>3, StoreFrame
<1>9. CASE n = 0
  <2>1. NextThread(w, 0) /\ wr[w].n = 0 /\ \A b \in Binding : ~(Listed(i, b) /\ bs[b].vctrl = c)
    BY <1>4, <1>9 DEF Removed
  <2>2. PICK t \in i .. NThreads - 1 : Listed(t, binding[c])
    BY <1>0, <1>1, <1>2, <1>3, <2>1 DEF Found
  <2>3. t \in Thread
    BY <1>2, Sizes, SMT DEF Thread
  <2>4. PICK b \in Binding : b = binding[c]
    <3>1. bindings[t] \in Seq(Binding)
      BY <1>0, <2>3 DEF ThreadTypes
    <3>2. \A x \in Range(bindings[t]) : x \in Binding
      BY <3>1 DEF Range
    <3> QED BY <2>2, <3>2 DEF Listed
  <2>5. bs[b].vctrl = c
    BY <1>0, <2>4, NoneOut DEF Lists
  <2>6. t # i
    BY <2>1, <2>2, <2>4, <2>5
  <2>7. Listed(t, binding[c])'
    <3>1. Listed(t, b)'
      BY <1>5, <2>2, <2>3, <2>4, <2>6
    <3> QED BY <1>1, <2>4, <3>1
  <2>8. t \in i + 1 .. NThreads - 1 /\ i # NThreads - 1
    BY <1>2, <2>2, <2>6, Sizes, SMT DEF Thread
  <2>9. JobSet(w, "pause", i + 1, 0, wr[w].b)
    BY <1>0, <1>2, <2>1, <2>8, NextJob
  <2>10. wr'[w].pc = "pause" /\ wr'[w].c = c /\ wr'[w].old = wr[w].old /\ wr'[w].n = 0 /\ wr'[w].i = i + 1
    BY <1>3, <2>9 DEF JobSet
  <2>11. Found(w)'
    BY <1>7, <2>7, <2>8, <2>10 DEF Found
  <2> QED BY <1>1, <1>3, <1>6, <2>10, <2>11, StoreFrame
<1> QED BY <1>8, <1>9

\* Clearing its binding.
LEMMA UnbindNullIdle ==
    ASSUME IdleInv, OneWriter, NEW w \in Writers, UnbindNull(w)
    PROVE  IdleNext
<1>0. PollInv /\ JobTypes /\ Moving(w) /\ BindTypes /\ Lists
  BY TypeParts DEF IdleInv, PollInv
<1>1. /\ wr[w].pc = "null" /\ NextThread(w, wr[w].n)
      /\ UNCHANGED <<at, bindings, todo, vlock, quietVars>>
  BY DEF UnbindNull, threadVars, ctrlVars, modes, quietVars
<1>2. PICK c \in Vctrl : c = wr[w].c
  BY <1>0, <1>1, JobFields
<1>3. PICK n \in Nat : n = wr[w].n /\ n > 0
  BY <1>0, <1>1, JobFields DEF Moving
<1>4. /\ binding' = [binding EXCEPT ![c] = None]
      /\ bs' = [b \in Binding |-> IF b = binding[c] /\ Unlisted(b) THEN Unused ELSE bs[b]]
  BY <1>2 DEF UnbindNull
<1>5. binding'[c] = None /\ \A d \in Vctrl : d # c => binding'[d] = binding[d]
  BY <1>0, <1>4 DEF BindTypes
<1>6. \A x \in Binding : Homed(x) => bs'[x] = bs[x]
  BY <1>4 DEF Unlisted, Homed, Listed
<1>7. \A x : Homed(x)' <=> Homed(x)
  BY <1>1 DEF Homed, Listed
<1>8. ASSUME NEW d \in Vctrl, d # c
      PROVE  /\ binding'[d] = binding[d] /\ bs'[binding[d]].poll_enabled = bs[binding[d]].poll_enabled
             /\ Homed(binding[d])'
  <2>1. binding[d] \in Binding /\ Homed(binding[d])
    BY <1>2, <1>8, StoringOf, Others
  <2> QED BY <1>5, <1>6, <1>7, <1>8, <2>1
<1>9. \E p \in {"pause", "bind"}, j \in Thread : JobSet(w, p, j, n, wr[w].b)
  BY <1>0, <1>1, <1>3, NextJob, JobFields
<1>10. wr'[w].pc \in {"pause", "bind"} /\ wr'[w].c = c /\ wr'[w].old = wr[w].old /\ wr'[w].n # 0
  BY <1>2, <1>3, <1>9 DEF JobSet
<1>11. Found(w)'
  <2>1. vlock'[c] \in {"free", "io"} /\ guest'[c] = "run" /\ vq'[c].tail = vq'[c].head
    BY <1>1, <1>2, FoundBase
  <2> QED BY <1>5, <1>10, <2>1 DEF Found
<1> QED BY <1>1, <1>2, <1>6, <1>8, <1>10, <1>11, StoreFrame

\* A new binding structure, as disabled as the old one was.
LEMMA BindSetIdle ==
    ASSUME IdleInv, OneWriter, NEW w \in Writers, BindSet(w)
    PROVE  IdleNext
<1>0. PollInv /\ JobTypes /\ Found(w)
  BY TypeParts DEF IdleInv, PollInv
<1>1. wr[w].pc = "bind" /\ UNCHANGED <<at, bindings, todo, vlock, quietVars>>
  BY DEF BindSet, threadVars, ctrlVars, modes, quietVars
<1>2. PICK c \in Vctrl : c = wr[w].c
  BY <1>0, <1>1, JobFields
<1>3. binding[c] = None
  BY <1>0, <1>1, <1>2 DEF Found
<1>4. PICK b \in Binding : Bound(w, c, b)
  BY <1>0, <1>2, <1>3, SetEffect
<1>5. /\ ~Homed(b) /\ (\A d \in Vctrl : binding[d] # b) /\ bs'[b].poll_enabled = wr[w].old
      /\ (\A x \in Binding : x # b => bs'[x] = bs[x]) /\ binding'[c] = b
      /\ (\A d \in Vctrl : d # c => binding'[d] = binding[d]) /\ JobSet(w, "add", wr[w].i, wr[w].n, b)
  BY <1>4 DEF Bound
<1>6. \A x : Homed(x)' <=> Homed(x)
  BY <1>1 DEF Homed, Listed
<1>7. ASSUME NEW d \in Vctrl, d # c
      PROVE  /\ binding'[d] = binding[d] /\ bs'[binding[d]].poll_enabled = bs[binding[d]].poll_enabled
             /\ Homed(binding[d])'
  <2>1. binding[d] \in Binding /\ Homed(binding[d])
    BY <1>2, <1>7, StoringOf, Others
  <2> QED BY <1>5, <1>6, <1>7, <2>1
<1>8. wr'[w].pc = "add" /\ wr'[w].c = c /\ wr'[w].old = wr[w].old
  BY <1>2, <1>5 DEF JobSet
<1>9. Found(w)'
  <2>1. vlock'[c] \in {"free", "io"} /\ guest'[c] = "run" /\ vq'[c].tail = vq'[c].head
    BY <1>1, <1>2, FoundBase
  <2> QED BY <1>5, <1>8, <2>1 DEF Found
<1>10. \A x \in Binding : Homed(x) => bs'[x].vctrl = bs[x].vctrl
  BY <1>5
<1> QED BY <1>1, <1>2, <1>7, <1>8, <1>9, <1>10, StoreFrame

\* The new binding on its list.
LEMMA BindAddIdle ==
    ASSUME IdleInv, OneWriter, NEW w \in Writers, BindAdd(w)
    PROVE  IdleNext
<1>0. PollInv /\ JobTypes /\ Found(w) /\ Moving(w) /\ ThreadTypes
  BY TypeParts DEF IdleInv, PollInv
<1>1. /\ wr[w].pc = "add" /\ wr' = [wr EXCEPT ![w] = NoJob]
      /\ UNCHANGED <<at, todo, bs, binding, vlock, quietVars>>
  BY DEF BindAdd, modes, quietVars
<1>2. PICK c \in Vctrl : c = wr[w].c
  BY <1>0, <1>1, JobFields
<1>3. PICK k \in Thread : k = wr[w].to
  BY <1>0, JobFields
<1>4. PICK b \in Binding : b = wr[w].b
  BY <1>0, <1>1 DEF Moving
<1>5. binding[c] = b /\ (bs[b].poll_enabled = wr[w].old)
  BY <1>0, <1>1, <1>2, <1>4 DEF Moving, Found
<1>6. PICK s \in Seq(Binding) : s = bindings[k]
  BY <1>0 DEF ThreadTypes
<1>7. Range(Append(s, b)) = Range(s) \union {b}
  BY AddedLast
<1>8. bindings' = [bindings EXCEPT ![k] = Append(s, b)]
  BY <1>3, <1>4, <1>6 DEF BindAdd
<1>9. bindings'[k] = Append(s, b) /\ \A t \in Thread : t # k => bindings'[t] = bindings[t]
  BY <1>0, <1>8 DEF ThreadTypes
<1>10. \A t \in Thread : \A x : Listed(t, x) => Listed(t, x)'
  BY <1>6, <1>7, <1>9 DEF Listed
<1>11. Listed(k, b)'
  BY <1>7, <1>9 DEF Listed
<1>12. \A x : Homed(x) => Homed(x)'
  BY <1>10 DEF Homed
<1>13. Homed(b)'
  BY <1>11 DEF Homed
<1>14. wr'[w] = NoJob /\ NoJob.pc = "off"
  BY <1>0, <1>1 DEF JobTypes, NoJob
<1>15. \A d \in Vctrl : (Storing(d) <=> d = c) /\ ~(Storing(d)')
  BY <1>1, <1>2, <1>14, StoringOf
<1>16. Home'
  <2>1. ASSUME NEW d \in Vctrl PROVE \E x \in Binding : x = binding[d] /\ Homed(x)'
    <3>1. CASE d = c
      BY <1>5, <1>13, <3>1
    <3>2. CASE d # c
      BY <1>12, <1>15, <3>2, Others
    <3> QED BY <3>1, <3>2
  <2>2. ASSUME NEW d \in Vctrl PROVE (binding[d] \in Binding /\ Homed(binding[d]))'
    <3>1. PICK x \in Binding : x = binding[d] /\ Homed(x)'
      BY <2>1
    <3>2. x = binding'[d]
      BY <1>1, <3>1
    <3> QED BY <3>1, <3>2
  <2> QED BY <2>2 DEF Home
<1>17. \A t \in Thread : Settled(t)'
  BY <1>1, WriterSettled
<1>18. \A v \in Writers : Found(v)'
  BY <1>14 DEF Found, OneWriter
<1>19. ASSUME NEW d \in Vctrl PROVE SleepsWell(d)'
  <2>1. CASE d # c
    BY <1>1, <1>15, <2>1, OtherSleeps
  <2>2. CASE d = c
    <3>1. SleepsWell(c)
      BY DEF IdleInv, SleepsWell
    <3>2. \A v \in Writers : v = w
      BY DEF OneWriter
    <3>3. Asleep(c)' => Asleep(c)
      BY <1>1, <1>5, <1>15, <3>2 DEF Asleep, quietVars
    <3>4. Quiescent(c) => Quiescent(c)'
      BY <1>1 DEF Quiescent, InFlight, Seen, quietVars
    <3> QED BY <2>2, <3>1, <3>3, <3>4 DEF SleepsWell
  <2> QED BY <2>1, <2>2
<1> QED BY <1>16, <1>17, <1>18, <1>19 DEF IdleNext

\* Every step of a writer.
LEMMA StoreIdle == ASSUME IdleInv, OneWriter, QuietRebind, NEW w \in Writers, StoreStep(w) PROVE IdleNext
  BY StoreBeginIdle, UnbindPauseIdle, UnbindDelIdle, UnbindNullIdle, BindSetIdle, BindAddIdle DEF StoreStep

(***************************************************************************)
(* A controller that went to sleep.                                        *)
(***************************************************************************)

\* In the initial states every controller sleeps.
LEMMA InitIdle == IoInit => IdleInv
<1> SUFFICES ASSUME IoInit PROVE IdleInv
  OBVIOUS
<1>1. PollInv
  BY InitPoll
<1>2. Home
  <2>1. \A c \in Vctrl : binding[c] \in Binding /\ Listed(0, binding[c])
    BY InitLists
  <2> QED BY <2>1, Sizes DEF Home, Homed
<1>3. \A t \in Thread : Settled(t)
  BY DEF IoInit, Settled
<1>4. \A w \in Writers : Found(w)
  BY DEF IoInit, Found, NoJob
<1>5. \A c \in Vctrl : Quiescent(c)
  BY DEF IoInit, Quiescent, InFlight, Seen
<1>6. Resumed
  BY DEF IoInit, Resumed
<1> QED BY <1>1, <1>2, <1>3, <1>4, <1>5, <1>6 DEF IdleInv

\* A controller is resumed after it was paused.
LEMMA ResumedStep ==
    ASSUME IdleInv, ~SpuriousLive, [IoNext]_ioVars
    PROVE  Resumed'
<1>0. LockTypes /\ JobTypes /\ Resumed
  BY TypeParts DEF IdleInv, PollInv
<1>1. ASSUME NEW t \in Thread, ThreadStep(t) PROVE Resumed'
  <2>1. UNCHANGED paused
    BY <1>1 DEF ThreadStep, StartPass, Skip, nvme_mdev_io_begin_poll, Reenter, EndPass, ParkSelf, Unparked, PollStop,
       PollOn, PollIdle, Serve, DrainOn, DrainTimeout, Drained, LockBusy, SuspendBegin, SuspendEvent, SuspendRefused,
       SelfPark, ctrlVars
  <2>2. vlock' = vlock \/ \E c, v : v \in {"free", "io"} /\ vlock' = [vlock EXCEPT ![c] = v]
    BY <1>1 DEF ThreadStep, StartPass, Skip, nvme_mdev_io_begin_poll, Reenter, EndPass, ParkSelf, Unparked, PollStop,
       PollOn, PollIdle, DrainOn, DrainTimeout, Drained, LockBusy, SuspendBegin, SuspendEvent, SuspendRefused, SelfPark
  <2> QED BY <1>0, <2>1, <2>2 DEF Resumed, LockTypes
<1>2. ASSUME NEW c \in Vctrl, HostStep(c) PROVE Resumed'
  <2>1. CASE PauseBegin(c)
    BY <1>0, <2>1 DEF PauseBegin, Resumed, LockTypes
  <2>2. CASE PauseEnd(c)
    BY <1>0, <2>2 DEF PauseEnd, Resumed, LockTypes, JobTypes
  <2>3. CASE nvme_mdev_vctrl_pause(c)
    BY <1>0, <2>3 DEF nvme_mdev_vctrl_pause, Resumed, JobTypes
  <2> QED BY <1>2, <2>1, <2>2, <2>3 DEF HostStep
<1>3. ASSUME NEW c \in Vctrl, GuestStep(c) \/ HostDone(c) PROVE Resumed'
  BY <1>0, <1>3 DEF GuestStep, GuestSubmit, GuestCheck, DoorbellWrite, GuestConsume, HostDone, Resumed
<1>4. ASSUME NEW w \in Writers, StoreStep(w) PROVE Resumed'
  BY <1>0, <1>4 DEF StoreStep, StoreBegin, UnbindPause, UnbindDel, UnbindNull, BindSet, BindAdd, ctrlVars, Resumed
<1>5. CASE UNCHANGED ioVars
  BY <1>0, <1>5 DEF ioVars, ctrlVars, Resumed
<1> QED BY <1>1, <1>2, <1>3, <1>4, <1>5 DEF IoNext

\* Every step preserves the invariant.
LEMMA IdleStep == ASSUME OneWriter, QuietRebind, ~SpuriousLive PROVE IdleInv /\ [IoNext]_ioVars => IdleInv'
<1> SUFFICES ASSUME IdleInv, [IoNext]_ioVars PROVE IdleInv'
  OBVIOUS
<1>1. PollInv' /\ Resumed'
  BY PollStep, ResumedStep DEF IdleInv
<1>2. ASSUME IdleNext PROVE IdleInv'
  BY <1>1, <1>2 DEF IdleInv, IdleNext, SleepsWell
<1>3. ASSUME NEW t \in Thread, ThreadStep(t) PROVE IdleInv'
  BY <1>2, <1>3, ThreadIdle
<1>4. ASSUME NEW c \in Vctrl, HostStep(c) \/ GuestStep(c) \/ HostDone(c) PROVE IdleInv'
  BY <1>2, <1>4, CtrlIdle
<1>5. ASSUME NEW w \in Writers, StoreStep(w) PROVE IdleInv'
  BY <1>2, <1>5, StoreIdle
<1>6. CASE UNCHANGED ioVars
  <2>1. UNCHANGED <<at, park, bindings, todo, active, bs, binding, vlock, io_idle, paused, irq, vq, hw, guest, wr>>
    BY <1>6 DEF ioVars, threadVars, ctrlVars, modes
  <2>2. \A d \in Vctrl : CtlKept(d)
    BY <2>1 DEF CtlKept
  <2>3. \A t \in Thread : at[t] \in Visiting => CtlKept(Ctl(t))
    BY <2>2, IdleVisit
  <2>4. IdleNext
    BY <2>1, <2>2, <2>3, IdleFrame
  <2> QED BY <1>2, <2>4
<1> QED BY <1>3, <1>4, <1>5, <1>6 DEF IoNext

\* What the invariant says of a sleeping controller.
LEMMA IdleMeans == IdleInv => IdleQuiescent
<1> SUFFICES ASSUME IdleInv, NEW c \in Vctrl, io_idle[c], binding[c] # None, ~bs[binding[c]].poll_enabled,
                    Unlocked(c), ~paused[c], ~Storing(c)
             PROVE  /\ InFlight(c) = 0 /\ (irq[c] => vq[c].unread = 0)
                    /\ vq[c].tail # vq[c].head =>
                          \/ guest[c] = "mmio"
                          \/ guest[c] = "wrote" /\ NeedEvent(vq[c].tail, vq[c].eidx)
  BY DEF IdleQuiescent
<1>1. Asleep(c)
  BY DEF Asleep, Storing, Unlocked
<1>2. Quiescent(c)
  BY <1>1 DEF IdleInv
<1>3. vq[c].head \in Idx
  BY QueueNats, TypeParts DEF IdleInv, PollInv
<1>4. NeedEvent((vq[c].head + 1) % Size, vq[c].head)
  BY <1>3, FirstRings
<1> QED BY <1>2, <1>4 DEF Quiescent, Seen

\* A controller that went idle has nothing in flight and no completion the
\* guest is to be interrupted for, and the guest writes the doorbell register
\* for every command it queued since; when one process writes iothread_idx,
\* the guest and the emulator are quiet while it does, and the host's driver
\* reports LIVE only to controllers it paused.
THEOREM SleepSafe == OneWriter /\ QuietRebind /\ ~SpuriousLive => (IoSpec => []IdleQuiescent)
<1> SUFFICES ASSUME OneWriter, QuietRebind, ~SpuriousLive PROVE IoSpec => []IdleQuiescent
  OBVIOUS
<1>1. IdleInv /\ [IoNext]_ioVars => IdleInv'
  BY IdleStep
<1> QED BY <1>1, InitIdle, IdleMeans, PTL DEF IoSpec
=============================================================================
