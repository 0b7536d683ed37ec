------------------------------ MODULE UifProofs ------------------------------
(***************************************************************************)
(* Proofs about the replicators and encryptors, for every number of        *)
(* queues, threads, devices and commands: every answer goes to the queue   *)
(* its command came from, what is acknowledged is on the device in the     *)
(* form in which it is read back, and reads return it.                     *)
(***************************************************************************)
EXTENDS Uif, FiniteSetTheorems, WellFoundedInduction, TLAPS

(***************************************************************************)
(* Recursion over an interval.                                             *)
(***************************************************************************)

\* A nonempty set of natural numbers has a least element.
LEMMA LeastNat == ASSUME NEW T, T \subseteq Nat, T # {} PROVE \E x \in T : \A y \in T : x <= y
<1>1. PICK R : R = {p \in Nat \X Nat : p[1] < p[2]}
  OBVIOUS
<1>2. IsWellFoundedOn(R, Nat)
  BY <1>1, NatLessThanWellFounded DEF OpToRel
<1>3. PICK x \in T : \A y \in T : ~(<<y, x>> \in R)
  BY <1>2, WFMin
<1>4. \A y \in T : ~(y < x)
  BY <1>1, <1>3
<1> QED BY <1>4

\* Induction, over a set.
LEMMA NatSteps ==
    ASSUME NEW S, 0 \in S, \A n \in Nat : n \in S => n + 1 \in S
    PROVE  \A n \in Nat : n \in S
<1> SUFFICES ASSUME NEW m \in Nat, m \notin S PROVE FALSE
  OBVIOUS
<1>1. PICK x \in Nat \ S : \A y \in Nat \ S : x <= y
  BY LeastNat
<1>2. x # 0 /\ x - 1 \in Nat
  BY <1>1
<1>3. x - 1 \in S
  BY <1>1, <1>2
<1> QED BY <1>1, <1>2, <1>3

\* g is the sequence of the states of a loop with body F from b on.
Runs(g, b, F, m) == g[0] = b /\ \A k \in 1 .. m : g[k] = F[k][g[k - 1]]

\* A loop can be run one step further.
LEMMA RunExtends ==
    ASSUME NEW X, NEW L \in Nat, NEW b \in X, NEW F \in [1 .. L -> [X -> X]], NEW m \in Nat, m + 1 <= L,
           NEW g \in [0 .. m -> X], Runs(g, b, F, m)
    PROVE  \E h \in [0 .. m + 1 -> X] : Runs(h, b, F, m + 1)
<1>1. g[m] \in X /\ m + 1 \in 1 .. L
  OBVIOUS
<1>2. PICK v \in X : v = F[m + 1][g[m]]
  BY <1>1
<1> DEFINE h == [k \in 0 .. m + 1 |-> IF k <= m THEN g[k] ELSE v]
<1>4. h \in [0 .. m + 1 -> X] /\ (\A k \in 0 .. m : h[k] = g[k]) /\ h[m + 1] = v
  BY <1>2
<1> HIDE DEF h
<1>6. ASSUME NEW k \in 1 .. m PROVE h[k] = F[k][h[k - 1]]
  <2>1. k \in 0 .. m /\ k - 1 \in 0 .. m
    OBVIOUS
  <2>2. h[k] = g[k] /\ h[k - 1] = g[k - 1]
    BY <1>4, <2>1
  <2> QED BY <2>2 DEF Runs
<1>7. h[m + 1] = F[m + 1][h[m + 1 - 1]]
  <2>1. m + 1 - 1 = m /\ h[m] = g[m]
    BY <1>4
  <2> QED BY <1>2, <1>4, <2>1
<1>8. \A k \in 1 .. m + 1 : k \in 1 .. m \/ k = m + 1
  OBVIOUS
<1>9. h[0] = b
  BY <1>4 DEF Runs
<1>10. Runs(h, b, F, m + 1)
  BY <1>6, <1>7, <1>8, <1>9 DEF Runs
<1> QED BY <1>4, <1>10

\* A loop has a run.
LEMMA RunExists ==
    ASSUME NEW X, NEW L \in Nat, NEW b \in X, NEW F \in [1 .. L -> [X -> X]]
    PROVE  \E g \in [0 .. L -> X] : Runs(g, b, F, L)
<1> DEFINE P == {m \in Nat : m <= L => \E g \in [0 .. m -> X] : Runs(g, b, F, m)}
<1>2. 0 \in P
  <2>2. [k \in 0 .. 0 |-> b] \in [0 .. 0 -> X]
    OBVIOUS
  <2>3. Runs([k \in 0 .. 0 |-> b], b, F, 0)
    BY DEF Runs
  <2> QED BY <2>2, <2>3
<1>3. ASSUME NEW m \in Nat, m \in P PROVE m + 1 \in P
  <2> SUFFICES ASSUME m + 1 <= L PROVE \E g \in [0 .. m + 1 -> X] : Runs(g, b, F, m + 1)
    OBVIOUS
  <2>1. PICK g \in [0 .. m -> X] : Runs(g, b, F, m)
    BY <1>3
  <2> QED BY <2>1, RunExtends
<1>4. L \in P
  <2> HIDE DEF P
  <2> QED BY <1>2, <1>3, NatSteps
<1> QED BY <1>4

\* Appending to a sequence.
LEMMA AppendIs ==
    ASSUME NEW B, NEW r \in Seq(B), NEW x \in B
    PROVE  /\ Append(r, x) \in Seq(B) /\ Len(Append(r, x)) = Len(r) + 1
           /\ DOMAIN Append(r, x) = 1 .. Len(r) + 1 /\ DOMAIN r = 1 .. Len(r)
           /\ Append(r, x)[Len(r) + 1] = x
           /\ \A k \in 1 .. Len(r) : Append(r, x)[k] = r[k]
           /\ \A k \in 1 .. Len(r) + 1 : k \in 1 .. Len(r) \/ k = Len(r) + 1
  OBVIOUS

\* A sequence of elements of S.
LEMMA SeqOf ==
    ASSUME NEW B, NEW r \in Seq(B), NEW S
    PROVE  r \in Seq(S) <=> \A i \in DOMAIN r : r[i] \in S
<1>1. Len(r) \in Nat /\ DOMAIN r = 1 .. Len(r) /\ r = [i \in 1 .. Len(r) |-> r[i]]
  OBVIOUS
<1>2. ASSUME \A i \in DOMAIN r : r[i] \in S PROVE r \in Seq(S)
  BY <1>1, <1>2
<1>3. ASSUME r \in Seq(S), NEW i \in DOMAIN r PROVE r[i] \in S
  BY <1>3
<1> QED BY <1>2, <1>3

\* The parts of a sequence before and after its n-th element.
LEMMA CutIs ==
    ASSUME NEW B, NEW s \in Seq(B), NEW n \in 0 .. Len(s)
    PROVE  /\ SubSeq(s, 1, n) \in Seq(B) /\ Len(SubSeq(s, 1, n)) = n
           /\ SubSeq(s, n + 1, Len(s)) \in Seq(B) /\ Len(SubSeq(s, n + 1, Len(s))) = Len(s) - n
<1>1. PICK L \in Nat : L = Len(s) /\ n \in Nat /\ n <= L
  OBVIOUS
<1>2. SubSeq(s, 1, n) \in Seq(B) /\ Len(SubSeq(s, 1, n)) = n
  BY <1>1
<1>3. SubSeq(s, n + 1, L) \in Seq(B) /\ Len(SubSeq(s, n + 1, L)) = L - n
  BY <1>1
<1> QED BY <1>1, <1>2, <1>3

\* The loop that shares out the queues.
Dealt(g, n, t, L) ==
    g[0] = <<>> /\ \A i \in 1 .. L : g[i] = IF (i - 1) % n = t THEN Append(g[i - 1], i) ELSE g[i - 1]

\* The queues can be dealt out: the function that defines sqids exists.
LEMMA DealtExists ==
    ASSUME NEW L \in Nat, NEW n \in Nat \ {0}, NEW t \in Nat
    PROVE  \E g \in [0 .. L -> Seq(1 .. L)] : Dealt(g, n, t, L)
<1> DEFINE X == Seq(1 .. L)
           F == [k \in 1 .. L |-> [s \in X |-> IF (k - 1) % n = t THEN Append(s, k) ELSE s]]
<1>1. ASSUME NEW k \in 1 .. L, NEW s \in X PROVE Append(s, k) \in X
  OBVIOUS
<1> HIDE DEF X
<1>2. F \in [1 .. L -> [X -> X]] /\ \A k \in 1 .. L, s \in X : F[k][s] = IF (k - 1) % n = t THEN Append(s, k) ELSE s
  BY <1>1
<1> HIDE DEF F
<1>3. <<>> \in X
  BY DEF X
<1>4. PICK g \in [0 .. L -> X] : Runs(g, <<>>, F, L)
  BY <1>2, <1>3, RunExists
<1>5. \A i \in 1 .. L : i - 1 \in 0 .. L
  OBVIOUS
<1>6. Dealt(g, n, t, L)
  BY <1>2, <1>4, <1>5 DEF Runs, Dealt
<1> QED BY <1>4, <1>6 DEF X

\* What the loop has dealt after m queues.
LEMMA DealtSpec ==
    ASSUME NEW L \in Nat, NEW n \in Nat \ {0}, NEW t \in Nat, NEW g, Dealt(g, n, t, L)
    PROVE  /\ g[L] \in Seq(1 .. L) /\ Len(g[L]) <= L
           /\ \A i \in DOMAIN g[L] : (g[L][i] - 1) % n = t
<1> DEFINE Good(s, m) == /\ s \in Seq(1 .. L) /\ Len(s) <= m
                         /\ \A i \in DOMAIN s : (s[i] - 1) % n = t
           Q == {m \in Nat : m <= L => Good(g[m], m)}
<1>1. 0 \in Q
  <2>1. <<>> \in Seq(1 .. L) /\ Len(<<>>) = 0 /\ DOMAIN <<>> = {} /\ g[0] = <<>>
    BY DEF Dealt
  <2>2. Good(g[0], 0)
    BY <2>1
  <2> HIDE DEF Good
  <2> QED BY <2>2
<1>2. ASSUME NEW m \in Nat, m \in Q PROVE m + 1 \in Q
  <2> SUFFICES ASSUME m + 1 <= L PROVE Good(g[m + 1], m + 1)
    OBVIOUS
  <2>1. PICK z \in 1 .. L : z = m + 1
    OBVIOUS
  <2>2. PICK r \in Seq(1 .. L) : r = g[m] /\ Good(r, m)
    BY <1>2
  <2>3. g[z] = IF m % n = t THEN Append(r, z) ELSE r
    <3>1. z - 1 = m
      BY <2>1
    <3> QED BY <2>2, <3>1 DEF Dealt
  <2>4. ASSUME m % n = t PROVE Good(Append(r, z), z)
    <3>1. (z - 1) % n = t
      BY <2>1, <2>4
    <3>2. PICK l \in Nat : l = Len(r) /\ l <= m
      BY <2>2
    <3>3. PICK a \in Seq(1 .. L) :
              /\ a = Append(r, z) /\ Len(a) = l + 1 /\ DOMAIN a = 1 .. l + 1 /\ DOMAIN r = 1 .. l
              /\ a[l + 1] = z /\ \A k \in 1 .. l : a[k] = r[k]
      <4>1. /\ Append(r, z) \in Seq(1 .. L) /\ Len(Append(r, z)) = Len(r) + 1
            /\ DOMAIN Append(r, z) = 1 .. Len(r) + 1 /\ DOMAIN r = 1 .. Len(r)
            /\ Append(r, z)[Len(r) + 1] = z
            /\ \A k \in 1 .. Len(r) : Append(r, z)[k] = r[k]
        <5>1. PICK B : B = 1 .. L
          OBVIOUS
        <5>2. r \in Seq(B) /\ z \in B
          BY <5>1
        <5> HIDE DEF Good, Q
        <5>3. /\ Append(r, z) \in Seq(B) /\ Len(Append(r, z)) = Len(r) + 1
              /\ DOMAIN Append(r, z) = 1 .. Len(r) + 1 /\ DOMAIN r = 1 .. Len(r)
              /\ Append(r, z)[Len(r) + 1] = z
              /\ \A k \in 1 .. Len(r) : Append(r, z)[k] = r[k]
          BY ONLY <5>2, AppendIs
        <5> QED BY <5>1, <5>3, Zenon
      <4> QED BY <3>2, <4>1, Zenon
    <3>4. ASSUME NEW i \in DOMAIN a PROVE (a[i] - 1) % n = t
      <4>1. i = l + 1 \/ i \in 1 .. l
        BY <3>2, <3>3
      <4>2. ASSUME i \in 1 .. l PROVE (r[i] - 1) % n = t
        BY <2>2, <3>3, <4>2
      <4> QED BY <3>1, <3>3, <4>1, <4>2
    <3>5. Len(a) <= z
      BY <2>1, <3>2, <3>3
    <3> QED BY <3>3, <3>4, <3>5
  <2>5. Good(r, z)
    BY <2>1, <2>2
  <2> HIDE DEF Good
  <2> QED BY <2>1, <2>3, <2>4, <2>5
<1>3. L \in Q
  <2> HIDE DEF Q
  <2> QED BY <1>1, <1>2, NatSteps
<1> QED BY <1>3

\* The queues of a worker are among its own.
LEMMA SqidsSpec ==
    ASSUME NEW t \in Nat, dep.nthreads \in Nat \ {0}
    PROVE  /\ sqids(t) \in Seq(Queues) /\ Len(sqids(t)) <= Cardinality(Queues)
           /\ \A i \in DOMAIN sqids(t) : (sqids(t)[i] - 1) % dep.nthreads = t
<1>1. PICK L \in Nat : L = Cardinality(Queues) /\ Queues = 1 .. L
  BY UifAssumption, FS_CardinalityType
<1>2. PICK n \in Nat \ {0} : n = dep.nthreads
  OBVIOUS
<1> DEFINE R(f) == [i \in 0 .. L |-> IF i = 0 THEN <<>>
                                     ELSE IF (i - 1) % n = t THEN Append(f[i - 1], i)
                                     ELSE f[i - 1]]
<1>5. PICK g0 \in [0 .. L -> Seq(1 .. L)] : Dealt(g0, n, t, L)
  BY DealtExists
<1>6. g0 = R(g0)
  <2>1. \A i \in 0 .. L : i = 0 \/ (i \in 1 .. L /\ i # 0)
    OBVIOUS
  <2>2. \A i \in 0 .. L : g0[i] = IF i = 0 THEN <<>>
                                     ELSE IF (i - 1) % n = t THEN Append(g0[i - 1], i)
                                     ELSE g0[i - 1]
    BY <1>5, <2>1 DEF Dealt
  <2> QED BY <2>2
<1>7. PICK g : g = R(g) /\ sqids(t) = g[L]
  <2>1. PICK g : g = CHOOSE f : f = R(f)
    OBVIOUS
  <2>2. g = R(g)
    BY <1>6, <2>1
  <2>3. sqids(t) = g[L]
    BY <1>1, <1>2, <2>1 DEF sqids
  <2> QED BY <2>2, <2>3
<1>8. Dealt(g, n, t, L)
  <2>1. 0 \in 0 .. L /\ \A i \in 1 .. L : i \in 0 .. L /\ i # 0
    OBVIOUS
  <2> QED BY <1>7, <2>1 DEF Dealt
<1> HIDE DEF R
<1>9. /\ g[L] \in Seq(1 .. L) /\ Len(g[L]) <= L
      /\ \A i \in DOMAIN g[L] : (g[L][i] - 1) % n = t
  BY <1>8, DealtSpec
<1> QED BY <1>1, <1>2, <1>7, <1>9

\* The loop that posts responses.
Answer(x)  == [q |-> x.q, st |-> x.st]
Posted(g, a, rs, L) ==
    g[0] = a /\ \A i \in 1 .. L : g[i] = [g[i - 1] EXCEPT ![rs[i].c.id] = Append(@, Answer(rs[i]))]

\* The answers can be entered: the function that defines Answered exists.
LEMMA PostedExists ==
    ASSUME NEW I, NEW A, NEW a \in [I -> Seq(A)], NEW L \in Nat, NEW rs,
           \A i \in 1 .. L : rs[i].c.id \in I /\ Answer(rs[i]) \in A
    PROVE  \E g \in [0 .. L -> [I -> Seq(A)]] : Posted(g, a, rs, L)
<1> DEFINE X == [I -> Seq(A)]
           F == [k \in 1 .. L |-> [s \in X |-> [s EXCEPT ![rs[k].c.id] = Append(@, Answer(rs[k]))]]]
<1>1. ASSUME NEW k \in 1 .. L, NEW s \in X PROVE [s EXCEPT ![rs[k].c.id] = Append(@, Answer(rs[k]))] \in X
  <2>1. PICK j \in I, e \in A : j = rs[k].c.id /\ e = Answer(rs[k])
    OBVIOUS
  <2>2. Append(s[j], e) \in Seq(A)
    OBVIOUS
  <2> QED BY <2>1, <2>2
<1>0. a \in X
  OBVIOUS
<1> HIDE DEF X
<1>2. F \in [1 .. L -> [X -> X]]
  BY <1>1
<1>3. \A k \in 1 .. L, s \in X : F[k][s] = [s EXCEPT ![rs[k].c.id] = Append(@, Answer(rs[k]))]
  OBVIOUS
<1> HIDE DEF F
<1>4. PICK g \in [0 .. L -> X] : Runs(g, a, F, L)
  BY <1>0, <1>2, RunExists
<1>5. \A i \in 1 .. L : i - 1 \in 0 .. L
  OBVIOUS
<1>6. Posted(g, a, rs, L)
  BY <1>3, <1>4, <1>5 DEF Runs, Posted
<1> QED BY <1>4, <1>6 DEF X

\* Responses to different commands.
Distinct(I, A, rs, L) ==
    /\ \A i \in 1 .. L : rs[i].c.id \in I /\ Answer(rs[i]) \in A
    /\ \A i, j \in 1 .. L : rs[i].c.id = rs[j].c.id => i = j

\* Who has no response is as before, who has one has it.
Followed(h, I, A, a, rs, m) ==
    /\ h \in [I -> Seq(A)]
    /\ \A x \in I : (\A j \in 1 .. m : rs[j].c.id # x) => h[x] = a[x]
    /\ \A j \in 1 .. m : h[rs[j].c.id] = Append(a[rs[j].c.id], Answer(rs[j]))

\* What the loop leaves.
LEMMA PostedSpec ==
    ASSUME NEW I, NEW A, NEW a \in [I -> Seq(A)], NEW L \in Nat, NEW rs, NEW g, Distinct(I, A, rs, L),
           Posted(g, a, rs, L)
    PROVE  Followed(g[L], I, A, a, rs, L)
<1>0. /\ \A i \in 1 .. L : rs[i].c.id \in I /\ Answer(rs[i]) \in A
      /\ \A i, j \in 1 .. L : rs[i].c.id = rs[j].c.id => i = j
  BY DEF Distinct
<1> DEFINE Q == {m \in Nat : m <= L => Followed(g[m], I, A, a, rs, m)}
<1>1. 0 \in Q
  <2>1. g[0] = a /\ \A j \in 1 .. 0 : FALSE
    BY DEF Posted
  <2>2. Followed(g[0], I, A, a, rs, 0)
    BY <2>1 DEF Followed
  <2> QED BY <2>2
<1>2. ASSUME NEW m \in Nat, m \in Q PROVE m + 1 \in Q
  <2> SUFFICES ASSUME m + 1 <= L PROVE Followed(g[m + 1], I, A, a, rs, m + 1)
    OBVIOUS
  <2>1. PICK z \in 1 .. L : z = m + 1
    OBVIOUS
  <2>0. Followed(g[m], I, A, a, rs, m)
    BY <1>2
  <2>2. PICK h \in [I -> Seq(A)] : h = g[m] /\ Followed(h, I, A, a, rs, m)
    BY <2>0 DEF Followed
  <2>3. PICK k \in I, e \in A : k = rs[z].c.id /\ e = Answer(rs[z])
    BY <1>0
  <2>4. g[z] = [h EXCEPT ![k] = Append(@, e)]
    <3>1. z - 1 = m
      BY <2>1
    <3> QED BY <2>2, <2>3, <3>1 DEF Posted
  <2>5. PICK f \in [I -> Seq(A)] : f = g[z] /\ f[k] = Append(h[k], e) /\ \A x \in I : x # k => f[x] = h[x]
    <3>1. Append(h[k], e) \in Seq(A)
      OBVIOUS
    <3> QED BY <2>4, <3>1
  <2>6. (\A j \in 1 .. m : j \in 1 .. L /\ j \in 1 .. z /\ j # z) /\ z \in 1 .. z
        /\ \A j \in 1 .. z : j \in 1 .. m \/ j = z
    BY <2>1
  <2>7. \A j \in 1 .. m : rs[j].c.id # k /\ rs[j].c.id \in I
    BY <1>0, <2>3, <2>6
  <2>8. h[k] = a[k]
    BY <2>2, <2>7 DEF Followed
  <2>9. \A x \in I : (\A j \in 1 .. z : rs[j].c.id # x) => f[x] = a[x]
    BY <2>2, <2>3, <2>5, <2>6 DEF Followed
  <2>10. \A j \in 1 .. z : f[rs[j].c.id] = Append(a[rs[j].c.id], Answer(rs[j]))
    <3>1. f[rs[z].c.id] = Append(a[rs[z].c.id], Answer(rs[z]))
      BY <2>3, <2>5, <2>8
    <3>2. \A j \in 1 .. m : f[rs[j].c.id] = Append(a[rs[j].c.id], Answer(rs[j]))
      BY <2>2, <2>5, <2>7 DEF Followed
    <3> QED BY <2>6, <3>1, <3>2
  <2> QED BY <2>1, <2>5, <2>9, <2>10 DEF Followed
<1>3. L \in Q
  <2> HIDE DEF Q
  <2> QED BY <1>1, <1>2, NatSteps
<1> QED BY <1>3

\* Post, for responses to different commands.
LEMMA AnsweredSpec ==
    ASSUME NEW I, NEW A, ans \in [I -> Seq(A)], NEW B, NEW rs \in Seq(B), Distinct(I, A, rs, Len(rs))
    PROVE  Followed(Answered(rs), I, A, ans, rs, Len(rs))
<1>1. PICK L \in Nat : L = Len(rs)
  OBVIOUS
<1>2. PICK a \in [I -> Seq(A)] : a = ans
  OBVIOUS
<1> DEFINE R(f) == [i \in 0 .. L |-> IF i = 0 THEN a
                       ELSE [f[i - 1] EXCEPT ![rs[i].c.id] = Append(@, Answer(rs[i]))]]
<1>5. PICK g0 \in [0 .. L -> [I -> Seq(A)]] : Posted(g0, a, rs, L)
  BY <1>1, PostedExists DEF Distinct
<1>6. g0 = R(g0)
  <2>1. \A i \in 0 .. L : i = 0 \/ (i \in 1 .. L /\ i # 0)
    OBVIOUS
  <2>2. \A i \in 0 .. L : g0[i] = IF i = 0 THEN a
                       ELSE [g0[i - 1] EXCEPT ![rs[i].c.id] = Append(@, Answer(rs[i]))]
    BY <1>5, <2>1 DEF Posted
  <2> QED BY <2>2
<1>7. PICK g : g = R(g) /\ Answered(rs) = g[L]
  <2>1. PICK g : g = CHOOSE f : f = R(f)
    OBVIOUS
  <2>2. g = R(g)
    BY <1>6, <2>1
  <2>3. Answered(rs) = g[L]
    BY <1>1, <1>2, <2>1, Zenon DEF Answered, Answer
  <2> QED BY <2>2, <2>3
<1>8. Posted(g, a, rs, L)
  <2>1. 0 \in 0 .. L /\ \A i \in 1 .. L : i \in 0 .. L /\ i # 0
    OBVIOUS
  <2> QED BY <1>7, <2>1 DEF Posted
<1> HIDE DEF R
<1>9. Followed(g[L], I, A, a, rs, L)
  <2>1. Distinct(I, A, rs, L)
    BY <1>1
  <2> QED BY <1>8, <2>1, PostedSpec
<1> QED BY <1>1, <1>2, <1>7, <1>9

(***************************************************************************)
(* Families of queues: what they hold, by a key of the elements.           *)
(***************************************************************************)
KeyIn(s, K, c) == \E i \in DOMAIN s : K[s[i]] = c
InjK(s, K)     == \A i, j \in DOMAIN s : K[s[i]] = K[s[j]] => i = j

Has(f, K, c) == \E x \in DOMAIN f : KeyIn(f[x], K, c)
Uniq(f, K)   == \A x, y \in DOMAIN f : \A i \in DOMAIN f[x], j \in DOMAIN f[y] :
                   K[f[x][i]] = K[f[y][j]] => x = y /\ i = j

\* One queue is exchanged.
CanSwap(f, K, x, s) ==
    /\ Uniq(f, K) /\ InjK(s, K)
    /\ \A c : KeyIn(s, K, c) => KeyIn(f[x], K, c) \/ ~Has(f, K, c)
Swapped(g, f, K, x, s) ==
    /\ Uniq(g, K)
    /\ \A c : Has(g, K, c) <=> (KeyIn(s, K, c) \/ (Has(f, K, c) /\ ~KeyIn(f[x], K, c)))

\* What exchanging one sequence for s does to the commands found.
LEMMA Exchanged ==
    ASSUME NEW I, NEW X, NEW C, NEW K \in [X -> C], NEW f \in [I -> Seq(X)], NEW x \in I, NEW s \in Seq(X),
           CanSwap(f, K, x, s), NEW g, g = [f EXCEPT ![x] = s]
    PROVE  Swapped(g, f, K, x, s)
<1>0. Uniq(f, K) /\ InjK(s, K) /\ \A i \in DOMAIN s : KeyIn(f[x], K, K[s[i]]) \/ ~Has(f, K, K[s[i]])
  BY DEF CanSwap, KeyIn
<1>1. g \in [I -> Seq(X)] /\ g[x] = s /\ \A y \in I : y # x => g[y] = f[y]
  OBVIOUS
<1>2. ASSUME NEW y \in I, y # x, NEW i \in DOMAIN f[y] PROVE ~KeyIn(f[x], K, K[f[y][i]]) /\ Has(f, K, K[f[y][i]])
  BY <1>0, <1>2 DEF Uniq, KeyIn, Has
<1>3. Uniq(g, K)
  <2> SUFFICES ASSUME NEW y \in I, NEW z \in I, NEW i \in DOMAIN g[y], NEW j \in DOMAIN g[z],
                      K[g[y][i]] = K[g[z][j]]
               PROVE  y = z /\ i = j
    BY <1>1 DEF Uniq
  <2>1. CASE y = x /\ z = x
    BY <1>0, <1>1, <2>1 DEF InjK
  <2>2. CASE y # x /\ z # x
    BY <1>0, <1>1, <2>2 DEF Uniq
  <2>3. CASE y = x /\ z # x
    BY <1>0, <1>1, <1>2, <2>3
  <2>4. CASE y # x /\ z = x
    BY <1>0, <1>1, <1>2, <2>4
  <2> QED BY <2>1, <2>2, <2>3, <2>4
<1>4. ASSUME NEW c PROVE Has(g, K, c) <=> (KeyIn(s, K, c) \/ (Has(f, K, c) /\ ~KeyIn(f[x], K, c)))
  <2>1. ASSUME Has(g, K, c) PROVE KeyIn(s, K, c) \/ (Has(f, K, c) /\ ~KeyIn(f[x], K, c))
    <3>1. PICK y \in I : KeyIn(g[y], K, c)
      BY <1>1, <2>1 DEF Has
    <3>2. CASE y = x
      BY <1>1, <3>1, <3>2
    <3>3. CASE y # x
      BY <1>1, <1>2, <3>1, <3>3 DEF KeyIn
    <3> QED BY <3>2, <3>3
  <2>2. ASSUME KeyIn(s, K, c) PROVE Has(g, K, c)
    BY <1>1, <2>2 DEF Has
  <2>3. ASSUME Has(f, K, c), ~KeyIn(f[x], K, c) PROVE Has(g, K, c)
    BY <1>1, <2>3 DEF Has
  <2> QED BY <2>1, <2>2, <2>3
<1> QED BY <1>3, <1>4 DEF Swapped

\* Elements with a key of their own.
LEMMA KeyAppend ==
    ASSUME NEW X, NEW K, NEW s \in Seq(X), NEW e \in X
    PROVE  /\ Append(s, e) \in Seq(X)
           /\ \A c : KeyIn(Append(s, e), K, c) <=> (KeyIn(s, K, c) \/ c = K[e])
           /\ InjK(s, K) /\ ~KeyIn(s, K, K[e]) => InjK(Append(s, e), K)
<1>1. PICK n \in Nat : n = Len(s)
  OBVIOUS
<1>2. PICK r : /\ r \in Seq(X) /\ r = Append(s, e) /\ DOMAIN r = 1 .. n + 1 /\ DOMAIN s = 1 .. n
               /\ r[n + 1] = e /\ \A k \in 1 .. n : r[k] = s[k]
  <2>1. /\ Append(s, e) \in Seq(X) /\ DOMAIN Append(s, e) = 1 .. n + 1 /\ DOMAIN s = 1 .. n
        /\ Append(s, e)[n + 1] = e /\ \A k \in 1 .. n : Append(s, e)[k] = s[k]
    BY <1>1, AppendIs
  <2> QED BY <2>1, Zenon
<1>3. /\ \A k \in 1 .. n + 1 : k \in 1 .. n \/ k = n + 1
      /\ \A k \in 1 .. n : k \in 1 .. n + 1 /\ k # n + 1
      /\ n + 1 \in 1 .. n + 1
  OBVIOUS
<1>4. \A c : KeyIn(r, K, c) <=> (KeyIn(s, K, c) \/ c = K[e])
  BY <1>2, <1>3 DEF KeyIn
<1>5. InjK(s, K) /\ ~KeyIn(s, K, K[e]) => InjK(r, K)
  BY <1>2, <1>3 DEF KeyIn, InjK
<1> QED BY <1>2, <1>4, <1>5

\* A queue is cut after n elements.
LEMMA KeyCut ==
    ASSUME NEW X, NEW K, NEW s \in Seq(X), NEW n \in 0 .. Len(s), InjK(s, K)
    PROVE  /\ SubSeq(s, 1, n) \in Seq(X) /\ Len(SubSeq(s, 1, n)) = n
           /\ DOMAIN SubSeq(s, 1, n) = 1 .. n
           /\ \A i \in 1 .. n : SubSeq(s, 1, n)[i] = s[i]
           /\ SubSeq(s, n + 1, Len(s)) \in Seq(X) /\ Len(SubSeq(s, n + 1, Len(s))) = Len(s) - n
           /\ \A i \in DOMAIN SubSeq(s, n + 1, Len(s)) : SubSeq(s, n + 1, Len(s))[i] = s[i + n] /\ i + n \in DOMAIN s
           /\ InjK(SubSeq(s, 1, n), K) /\ InjK(SubSeq(s, n + 1, Len(s)), K)
           /\ \A c : KeyIn(SubSeq(s, 1, n), K, c) => KeyIn(s, K, c) /\ ~KeyIn(SubSeq(s, n + 1, Len(s)), K, c)
           /\ \A c : KeyIn(SubSeq(s, n + 1, Len(s)), K, c) => KeyIn(s, K, c)
           /\ \A c : KeyIn(s, K, c) => KeyIn(SubSeq(s, 1, n), K, c) \/ KeyIn(SubSeq(s, n + 1, Len(s)), K, c)
<1>1. PICK L \in Nat : L = Len(s) /\ DOMAIN s = 1 .. L /\ n \in Nat /\ n <= L
  OBVIOUS
<1>2. PICK h : /\ h \in Seq(X) /\ h = SubSeq(s, 1, n) /\ Len(h) = n /\ DOMAIN h = 1 .. n
               /\ \A i \in 1 .. n : h[i] = s[i] /\ i \in 1 .. L
  <2>1. /\ SubSeq(s, 1, n) \in Seq(X) /\ Len(SubSeq(s, 1, n)) = n /\ DOMAIN SubSeq(s, 1, n) = 1 .. n
        /\ \A i \in 1 .. n : SubSeq(s, 1, n)[i] = s[i] /\ i \in 1 .. L
    BY <1>1
  <2> QED BY <2>1, Zenon
<1>3. PICK t : /\ t \in Seq(X) /\ t = SubSeq(s, n + 1, L) /\ Len(t) = L - n /\ DOMAIN t = 1 .. L - n
               /\ \A i \in 1 .. L - n : t[i] = s[i + n] /\ i + n \in 1 .. L
  <2>1. /\ SubSeq(s, n + 1, L) \in Seq(X) /\ Len(SubSeq(s, n + 1, L)) = L - n
    BY <1>1
  <2>2. DOMAIN SubSeq(s, n + 1, L) = 1 .. L - n
    BY <1>1, <2>1
  <2>3. ASSUME NEW i \in 1 .. L - n PROVE SubSeq(s, n + 1, L)[i] = s[i + n] /\ i + n \in 1 .. L
    BY <1>1
  <2> QED BY <2>1, <2>2, <2>3, Zenon
<1>4. InjK(h, K)
  BY <1>1, <1>2 DEF InjK
<1>5. InjK(t, K)
  <2> SUFFICES ASSUME NEW i \in 1 .. L - n, NEW j \in 1 .. L - n, K[t[i]] = K[t[j]] PROVE i = j
    BY <1>3 DEF InjK
  <2>0. t[i] = s[i + n] /\ t[j] = s[j + n] /\ i + n \in 1 .. L /\ j + n \in 1 .. L
    BY <1>3
  <2>1. i + n = j + n
    BY <1>1, <2>0 DEF InjK
  <2> QED BY <2>1
<1>6. ASSUME NEW c, KeyIn(h, K, c) PROVE KeyIn(s, K, c) /\ ~KeyIn(t, K, c)
  <2>1. PICK i \in 1 .. n : K[s[i]] = c /\ i \in 1 .. L
    BY <1>2, <1>6 DEF KeyIn
  <2>2. ASSUME NEW j \in 1 .. L - n, K[t[j]] = c PROVE FALSE
    <3>1. K[s[j + n]] = c /\ j + n \in 1 .. L
      BY <1>3, <2>2
    <3>2. i = j + n
      BY <1>1, <2>1, <3>1 DEF InjK
    <3> QED BY <3>2
  <2> QED BY <1>1, <1>3, <2>1, <2>2 DEF KeyIn
<1>7. ASSUME NEW c, KeyIn(t, K, c) PROVE KeyIn(s, K, c)
  BY <1>1, <1>3, <1>7, SMTT(30) DEF KeyIn
<1>8. ASSUME NEW c, KeyIn(s, K, c) PROVE KeyIn(h, K, c) \/ KeyIn(t, K, c)
  <2>1. PICK i \in 1 .. L : K[s[i]] = c
    BY <1>1, <1>8 DEF KeyIn
  <2>2. CASE i <= n
    <3>1. i \in 1 .. n
      BY <1>1, <2>2
    <3> QED BY <1>2, <2>1, <3>1 DEF KeyIn
  <2>3. CASE i > n
    <3>1. i - n \in 1 .. L - n /\ (i - n) + n = i
      BY <2>3
    <3>2. t[i - n] = s[i]
      BY <1>3, <3>1
    <3> QED BY <1>3, <2>1, <3>1, <3>2 DEF KeyIn
  <2> QED BY <2>2, <2>3
<1> QED BY <1>1, <1>2, <1>3, <1>4, <1>5, <1>6, <1>7, <1>8

\* The same, of the keys alone.
Cuts(h, z, s, K) ==
    /\ InjK(h, K) /\ InjK(z, K)
    /\ \A c : KeyIn(h, K, c) => KeyIn(s, K, c) /\ ~KeyIn(z, K, c)
    /\ \A c : KeyIn(z, K, c) => KeyIn(s, K, c)
    /\ \A c : KeyIn(s, K, c) => KeyIn(h, K, c) \/ KeyIn(z, K, c)

\* KeyCut, for a sequence cut in two.
LEMMA KeyCuts ==
    ASSUME NEW X, NEW K, NEW s \in Seq(X), NEW n \in 0 .. Len(s), InjK(s, K)
    PROVE  Cuts(SubSeq(s, 1, n), SubSeq(s, n + 1, Len(s)), s, K)
  BY KeyCut DEF Cuts

\* The first element is removed.
LEMMA KeyTail ==
    ASSUME NEW X, NEW K, NEW s \in Seq(X), s # <<>>, InjK(s, K)
    PROVE  /\ Tail(s) \in Seq(X) /\ Head(s) \in X /\ Head(s) = s[1] /\ 1 \in DOMAIN s
           /\ Len(s) \in Nat \ {0} /\ Len(Tail(s)) = Len(s) - 1
           /\ \A i \in DOMAIN Tail(s) : Tail(s)[i] = s[i + 1] /\ i + 1 \in DOMAIN s
           /\ InjK(Tail(s), K)
           /\ KeyIn(s, K, K[Head(s)])
           /\ \A c : KeyIn(Tail(s), K, c) <=> (KeyIn(s, K, c) /\ c # K[Head(s)])
<1>1. PICK L \in Nat \ {0} : L = Len(s) /\ DOMAIN s = 1 .. L /\ 1 \in 1 .. L /\ s[1] = Head(s) /\ s[1] \in X
  OBVIOUS
<1>2. PICK t : /\ t \in Seq(X) /\ t = Tail(s) /\ Len(t) = L - 1 /\ DOMAIN t = 1 .. L - 1
               /\ \A i \in 1 .. L - 1 : t[i] = s[i + 1] /\ i + 1 \in 1 .. L
  <2>1. /\ Tail(s) \in Seq(X) /\ Len(Tail(s)) = L - 1 /\ DOMAIN Tail(s) = 1 .. L - 1
        /\ \A i \in 1 .. L - 1 : Tail(s)[i] = s[i + 1] /\ i + 1 \in 1 .. L
    BY <1>1
  <2> QED BY <2>1, Zenon
<1>3. InjK(t, K)
  <2> SUFFICES ASSUME NEW i \in 1 .. L - 1, NEW j \in 1 .. L - 1, K[t[i]] = K[t[j]] PROVE i = j
    BY <1>2 DEF InjK
  <2>1. i + 1 = j + 1
    BY <1>1, <1>2 DEF InjK
  <2> QED BY <2>1
<1>4. ASSUME NEW c, KeyIn(t, K, c) PROVE KeyIn(s, K, c) /\ c # K[s[1]]
  <2>1. PICK i \in 1 .. L - 1 : K[s[i + 1]] = c /\ i + 1 \in 1 .. L
    BY <1>2, <1>4 DEF KeyIn
  <2>2. i + 1 # 1
    OBVIOUS
  <2> QED BY <1>1, <2>1, <2>2 DEF KeyIn, InjK
<1>5. ASSUME NEW c, KeyIn(s, K, c), c # K[s[1]] PROVE KeyIn(t, K, c)
  <2>1. PICK i \in 1 .. L : K[s[i]] = c /\ i # 1
    BY <1>1, <1>5 DEF KeyIn
  <2>2. i - 1 \in 1 .. L - 1 /\ (i - 1) + 1 = i
    BY <2>1
  <2>3. t[i - 1] = s[i]
    BY <1>2, <2>2
  <2> QED BY <1>2, <2>1, <2>2, <2>3 DEF KeyIn
<1>6. KeyIn(s, K, K[s[1]])
  BY <1>1 DEF KeyIn
<1> QED BY <1>1, <1>2, <1>3, <1>4, <1>5, <1>6

Drops(z, x, s, K) ==
    /\ InjK(z, K) /\ KeyIn(s, K, K[x])
    /\ \A c : KeyIn(z, K, c) <=> (KeyIn(s, K, c) /\ c # K[x])

\* KeyTail, for a sequence without its first element.
LEMMA KeyDrops ==
    ASSUME NEW X, NEW K, NEW s \in Seq(X), s # <<>>, InjK(s, K)
    PROVE  Drops(Tail(s), Head(s), s, K)
  BY KeyTail DEF Drops

(***************************************************************************)
(* What is started, and the data.                                          *)
(***************************************************************************)
NQ     == Cardinality(Queues)
Status == {"ok", "internal", "refused", "invalid_opcode", "lba_range"}
Mutates(c) == c.op \in {"write", "zeroes"}

\* A length is a natural number.
LEMMA LenNat ==
    ASSUME NEW S, NEW s \in Seq(S)
    PROVE  Len(s) \in Nat
  OBVIOUS

\* The bounds are numbers, and there is a queue.
LEMMA Counts ==
    /\ NQ \in Nat \ {0} /\ Queues = 1 .. NQ /\ AllRings = 0 .. NQ
    /\ Cardinality(Lbas) \in Nat /\ Lbas = 0 .. Cardinality(Lbas) - 1
    /\ Burst \in Nat \ {0} /\ CqBurst \in Nat \ {0} /\ BusyLoops \in Nat \ {0} /\ WzBlocks \in Nat \ {0}
<1>1. NQ \in Nat /\ Cardinality(Lbas) \in Nat
  BY UifAssumption, FS_CardinalityType DEF NQ
<1>0. NQ # 0
  <2>1. 1 .. 0 = {}
    OBVIOUS
  <2> QED BY <2>1, UifAssumption DEF NQ
<1>2. Queues = 1 .. NQ /\ AllRings = 0 .. NQ /\ Lbas = 0 .. Cardinality(Lbas) - 1
  BY UifAssumption DEF NQ, AllRings
<1>3. Burst \in Nat \ {0} /\ CqBurst \in Nat \ {0} /\ BusyLoops \in Nat \ {0} /\ WzBlocks \in Nat \ {0}
  BY UifAssumption
<1> QED BY <1>0, <1>1, <1>2, <1>3

\* The deployment that runs.
LEMMA Deployed ==
    ASSUME dep \in Deployments
    PROVE  /\ dep.prog \in {"replicator", "replicator_aio", "encryptor_mt", "encryptor_aio", "encryptor_multi",
                            "encryptor_sgx", "encryptor_sgx_aio"}
           /\ dep.nthreads \in Nat \ {0} /\ dep.dev \in [Queues -> AllRings]
           /\ dep.cmds \subseteq Command
           /\ loop.multi \/ dep.nthreads <= NQ + 1
           /\ \A c, e \in dep.cmds : c.id = e.id => c = e
           /\ \A c \in dep.cmds : c.slba + c.n <= Cardinality(Lbas) /\ (c.op \in {"flush", "other"} => c.n = 0)
<1>1. /\ dep \in [prog : Programs, nthreads : Nat \ {0}, dev : [Queues -> AllRings],
                  faults : SUBSET Faults, cmds : SUBSET Command]
      /\ Loop[dep.prog].multi \/ dep.nthreads <= Cardinality(Queues) + 1
      /\ \A c, e \in dep.cmds : c.id = e.id => c = e
      /\ \A c \in dep.cmds : c.slba + c.n <= Cardinality(Lbas) /\ (c.op \in {"flush", "other"} => c.n = 0)
  BY UifAssumption
<1>2. Programs = {"replicator", "replicator_aio", "encryptor_mt", "encryptor_aio", "encryptor_multi",
                  "encryptor_sgx", "encryptor_sgx_aio"}
  BY DEF Programs, Loop
<1> QED BY <1>1, <1>2 DEF loop, NQ

\* The loops of the programs.
LEMMA Loops ==
    /\ dep.prog = "replicator" => ~loop.async /\ ~loop.multi
    /\ dep.prog = "replicator_aio" => loop.async /\ ~loop.multi
    /\ dep.prog = "encryptor_mt" => ~loop.async /\ ~loop.multi
    /\ dep.prog = "encryptor_aio" => loop.async /\ ~loop.multi
    /\ dep.prog = "encryptor_multi" => loop.async /\ loop.multi
    /\ dep.prog = "encryptor_sgx" => ~loop.async /\ ~loop.multi
    /\ dep.prog = "encryptor_sgx_aio" => loop.async /\ ~loop.multi
  BY DEF loop, Loop, replicator, replicator_aio, encryptor_mt, encryptor_aio, encryptor_multi,
         encryptor_sgx, encryptor_sgx_aio

\* A command is a record of its fields, and its blocks are the device's.
LEMMA CommandIs ==
    ASSUME dep \in Deployments, NEW c \in dep.cmds
    PROVE  /\ c.id \in Nat /\ c.q \in Queues /\ c.slba \in Nat /\ c.n \in Nat /\ c.n <= Cardinality(Lbas)
           /\ c.op \in {"read", "write", "zeroes", "flush", "other"}
           /\ Blocks(c) \subseteq Addrs
           /\ \A a \in Blocks(c) : a[2] \in Lbas /\ a[2] \in c.slba .. c.slba + c.n - 1
           /\ c.op \in {"flush", "other"} => Blocks(c) = {}
<1>1. c \in Command /\ c.slba + c.n <= Cardinality(Lbas) /\ (c.op \in {"flush", "other"} => c.n = 0)
  BY Deployed
<1>2. /\ c.id \in Nat /\ c.q \in Queues /\ c.slba \in Nat /\ c.n \in Nat
      /\ c.op \in {"read", "write", "zeroes", "flush", "other"}
  BY <1>1 DEF Command
<1>3. c.n <= Cardinality(Lbas) /\ \A l \in c.slba .. c.slba + c.n - 1 : l \in Lbas
  BY <1>1, <1>2, Counts, SMTT(30)
<1>4. \A a \in Blocks(c) : a \in Addrs /\ a[2] \in Lbas /\ a[2] \in c.slba .. c.slba + c.n - 1
  BY <1>2, <1>3 DEF Blocks, Addrs
<1>5. c.op \in {"flush", "other"} => Blocks(c) = {}
  BY <1>1, <1>2 DEF Blocks
<1> QED BY <1>2, <1>3, <1>4, <1>5

\* What a command writes is a text.
LEMMA TextIs ==
    ASSUME dep \in Deployments, NEW c \in dep.cmds, NEW a \in Blocks(c)
    PROVE  Text(c, a) \in Texts /\ Text(c, a) # Junk
<1>1. c.id \in Nat /\ a[2] \in Lbas
  BY CommandIs
<1>2. CASE c.op = "write"
  BY <1>1, <1>2 DEF Text, Texts, Junk
<1>3. CASE c.op # "write"
  BY <1>3 DEF Text, Texts, Zero, Junk
<1> QED BY <1>2, <1>3

\* Sectors.
LEMMA SectorIs ==
    /\ \A p \in Texts, k \in Lbas \union {Clear} : encrypt(p, k) \in Sectors
    /\ \A p, k : decrypt(encrypt(p, k), k) = p
    /\ {Zero, Junk, Unknown} \subseteq Texts
  BY DEF encrypt, decrypt, Sectors, Texts

\* What may be written.
Writes == {Nothing} \union UNION {[S -> Sectors] : S \in SUBSET Addrs}

\* w writes all of c, in the form in which it is read back.
Right(c, w) == DOMAIN w = Blocks(c) /\ \A a \in Blocks(c) : View(w[a], a) = Text(c, a)

\* A write puts sectors to addresses of the devices.
LEMMA WriteIs ==
    ASSUME NEW w \in Writes
    PROVE  DOMAIN w \subseteq Addrs /\ \A a \in DOMAIN w : w[a] \in Sectors
<1>1. CASE w = Nothing
  BY <1>1 DEF Nothing
<1>2. CASE w # Nothing
  <2>1. PICK S \in SUBSET Addrs : w \in [S -> Sectors]
    BY <1>2 DEF Writes
  <2> QED BY <2>1
<1> QED BY <1>1, <1>2

\* A write of all blocks of a command, or of the first of them, is a write
\* within the device.
LEMMA WholeIs ==
    ASSUME dep \in Deployments, NEW c \in dep.cmds, NEW w \in [Blocks(c) -> Sectors]
    PROVE  /\ w \in Writes /\ DOMAIN w = Blocks(c)
           /\ \A k : First(c, w, k) \in Writes /\ DOMAIN First(c, w, k) \subseteq Blocks(c)
<1>1. Blocks(c) \subseteq Addrs
  BY CommandIs
<1>2. w \in Writes
  BY <1>1 DEF Writes
<1>3. ASSUME NEW k PROVE First(c, w, k) \in Writes /\ DOMAIN First(c, w, k) \subseteq Blocks(c)
  <2>1. PICK S : S = {b \in Blocks(c) : b[2] < c.slba + k}
    OBVIOUS
  <2>2. First(c, w, k) = [a \in S |-> w[a]] /\ S \subseteq Blocks(c)
    BY <2>1 DEF First
  <2>3. First(c, w, k) \in [S -> Sectors] /\ S \in SUBSET Addrs
    BY <1>1, <2>2
  <2> QED BY <2>2, <2>3 DEF Writes
<1> QED BY <1>2, <1>3

\* The writes that are right.
LEMMA CipheredIs ==
    ASSUME dep \in Deployments, NEW c \in dep.cmds
    PROVE  /\ Ciphered(c) \in [Blocks(c) -> Sectors] /\ (~Sending => Right(c, Ciphered(c)))
           /\ Sent(c) \in [Blocks(c) -> Sectors] /\ (Sending => Right(c, Sent(c)))
<1>1. \A a \in Blocks(c) : Text(c, a) \in Texts /\ a[2] \in Lbas
  BY CommandIs, TextIs
<1>2. Ciphered(c) \in [Blocks(c) -> Sectors] /\ Sent(c) \in [Blocks(c) -> Sectors]
  BY <1>1, SectorIs DEF Ciphered, Sent
<1>3. \A a \in Blocks(c) : Ciphered(c)[a] = encrypt(Text(c, a), a[2]) /\ Sent(c)[a] = encrypt(Text(c, a), Clear)
  BY DEF Ciphered, Sent
<1> QED BY <1>2, <1>3, SectorIs DEF Right, View

(***************************************************************************)
(* The handlers.                                                           *)
(***************************************************************************)
Decrypted(c) == [a \in Blocks(c) |-> encrypt(decrypt(buf[c.id][a], a[2]), Clear)]

\* What every outcome of a handler is.
Typed(c, o) ==
    /\ o.how \in {"reply", "queue", "throw"} /\ o.st \in Status
    /\ ~loop.async => o.how = "reply"
    /\ o.how = "queue" => o.st = "ok" /\ c.op # "read" /\ DOMAIN o.w = Blocks(c)
    /\ c.op # "read" => o.w \in Writes /\ DOMAIN o.w \subseteq Blocks(c)
    /\ c.op # "read" /\ ~Mutates(c) => o.w = Nothing
    /\ c.op = "read" /\ o.how = "reply" /\ o.st = "ok" => ~Sending /\ o.w = Decrypted(c)
    /\ loop.async /\ o.how = "reply" /\ Mutates(c) => o.st # "ok"

\* What is acknowledged, or will be, is right.
Acks(c, o) == Mutates(c) /\ o.how # "throw" /\ o.st = "ok" => Right(c, o.w)

\* The buffer of encryptor-sgx is clean when zeroes are written with it.
CleanFor(t, c) == dep.prog = "encryptor_sgx" /\ c.op = "zeroes" => encdirty[t] = 0

\* A refusal acknowledges nothing.
LEMMA PlainOutcome ==
    ASSUME dep \in Deployments, NEW c \in dep.cmds, NEW st \in Status \ {"ok"}
    PROVE  Typed(c, Reply(st, Nothing)) /\ Acks(c, Reply(st, Nothing))
<1>1. Nothing \in Writes /\ DOMAIN Nothing = {}
  BY DEF Writes, Nothing
<1> QED BY <1>1 DEF Typed, Acks, Reply

\* A failed write may have written part and acknowledges nothing.
LEMMA PartOutcome ==
    ASSUME dep \in Deployments, NEW c \in dep.cmds, NEW st \in Status, ~loop.async,
           NEW w \in [Blocks(c) -> Sectors], NEW k, Mutates(c)
    PROVE  Typed(c, Reply(st, First(c, w, k))) /\ (st # "ok" => Acks(c, Reply(st, First(c, w, k))))
<1>1. First(c, w, k) \in Writes /\ DOMAIN First(c, w, k) \subseteq Blocks(c)
  BY WholeIs
<1>2. PICK f : f = First(c, w, k)
  OBVIOUS
<1> QED BY <1>1, <1>2 DEF Typed, Acks, Reply, Mutates

\* A synchronous write of the right text may be acknowledged.
LEMMA WholeOutcome ==
    ASSUME dep \in Deployments, NEW c \in dep.cmds, ~loop.async,
           NEW w \in [Blocks(c) -> Sectors], Mutates(c)
    PROVE  Typed(c, Reply("ok", w)) /\ (Right(c, w) => Acks(c, Reply("ok", w)))
  BY WholeIs DEF Typed, Acks, Reply, Mutates, Status

\* An asynchronous write leaves the acknowledgement to its completion.
LEMMA QueueOutcome ==
    ASSUME dep \in Deployments, NEW c \in dep.cmds, loop.async,
           NEW w \in [Blocks(c) -> Sectors], Mutates(c)
    PROVE  Typed(c, Queue(w)) /\ (Right(c, w) => Acks(c, Queue(w)))
  BY WholeIs DEF Typed, Acks, Queue, Mutates, Status

\* A flush, or a command that changes no block, may be acknowledged at once.
LEMMA OtherOutcome ==
    ASSUME dep \in Deployments, NEW c \in dep.cmds, c.op # "read", ~Mutates(c)
    PROVE  /\ ~loop.async => Typed(c, Reply("ok", Nothing)) /\ Acks(c, Reply("ok", Nothing))
           /\ loop.async => Typed(c, Queue(Nothing)) /\ Acks(c, Queue(Nothing))
<1>1. Nothing \in Writes /\ DOMAIN Nothing = {}
  BY DEF Writes, Nothing
<1>2. Blocks(c) = {}
  BY CommandIs DEF Mutates
<1> QED BY <1>1, <1>2 DEF Typed, Acks, Reply, Queue, Status

\* A read changes no block.
LEMMA ReadOutcome ==
    ASSUME dep \in Deployments, NEW c \in dep.cmds, c.op = "read", ~Sending
    PROVE  Typed(c, Reply("ok", Decrypted(c))) /\ Acks(c, Reply("ok", Decrypted(c)))
  BY DEF Typed, Acks, Reply, Status, Mutates

\* A handler that throws answers nothing.
LEMMA ThrowOutcome ==
    ASSUME dep \in Deployments, NEW c \in dep.cmds, loop.async
    PROVE  Typed(c, Throw) /\ Acks(c, Throw)
<1>1. Nothing \in Writes /\ DOMAIN Nothing = {}
  BY DEF Writes, Nothing
<1> QED BY <1>1 DEF Typed, Acks, Throw, Status

\* The replicator.
LEMMA SenderOutcome ==
    ASSUME dep \in Deployments, dep.prog = "replicator", NEW t, NEW c \in dep.cmds, NEW o \in nvme_sender(t, c)
    PROVE  Typed(c, o) /\ Acks(c, o)
<1>1. ~loop.async /\ Sending
  BY Loops DEF Sending
<1>2. Sent(c) \in [Blocks(c) -> Sectors] /\ Right(c, Sent(c))
  BY <1>1, CipheredIs
<1>3. \/ o = Reply("refused", Nothing) \/ o = Reply("internal", Nothing) \/ o = Reply("invalid_opcode", Nothing)
      \/ Mutates(c) /\ o = Reply("ok", Sent(c))
      \/ Mutates(c) /\ \E k : o = Reply("internal", First(c, Sent(c), k))
      \/ c.op = "flush" /\ o = Reply("ok", Nothing)
  BY DEF nvme_sender, Checked, Faulty, Partly, Mutates
<1>4. CASE o = Reply("refused", Nothing) \/ o = Reply("internal", Nothing) \/ o = Reply("invalid_opcode", Nothing)
  BY <1>4, PlainOutcome DEF Status
<1>5. CASE Mutates(c) /\ o = Reply("ok", Sent(c))
  BY <1>1, <1>2, <1>5, WholeOutcome
<1>6. CASE Mutates(c) /\ \E k : o = Reply("internal", First(c, Sent(c), k))
  BY <1>1, <1>2, <1>6, PartOutcome DEF Status
<1>7. CASE c.op = "flush" /\ o = Reply("ok", Nothing)
  BY <1>1, <1>7, OtherOutcome DEF Mutates
<1> QED BY <1>3, <1>4, <1>5, <1>6, <1>7

\* The asynchronous replicator.
LEMMA SenderAioOutcome ==
    ASSUME dep \in Deployments, dep.prog = "replicator_aio", NEW t, NEW c \in dep.cmds, NEW o \in nvme_sender_aio(t, c)
    PROVE  Typed(c, o) /\ Acks(c, o)
<1>1. loop.async /\ Sending
  BY Loops DEF Sending
<1>2. Sent(c) \in [Blocks(c) -> Sectors] /\ Right(c, Sent(c))
  BY <1>1, CipheredIs
<1>3. \/ o = Throw \/ o = Reply("invalid_opcode", Nothing)
      \/ Mutates(c) /\ o = Queue(Sent(c))
      \/ c.op = "flush" /\ o = Queue(Nothing)
  BY DEF nvme_sender_aio, Checked, Faulty, Mutates
<1>4. CASE o = Throw \/ o = Reply("invalid_opcode", Nothing)
  BY <1>1, <1>4, PlainOutcome, ThrowOutcome DEF Status
<1>5. CASE Mutates(c) /\ o = Queue(Sent(c))
  BY <1>1, <1>2, <1>5, QueueOutcome
<1>7. CASE c.op = "flush" /\ o = Queue(Nothing)
  BY <1>1, <1>7, OtherOutcome DEF Mutates
<1> QED BY <1>3, <1>4, <1>5, <1>7

\* encryptor-mt.
LEMMA EncryptorOutcome ==
    ASSUME dep \in Deployments, dep.prog = "encryptor_mt", NEW t, NEW c \in dep.cmds, NEW o \in nvme_encryptor(t, c)
    PROVE  Typed(c, o) /\ (Sound(dep) => Acks(c, o))
<1>1. ~loop.async /\ ~Sending
  BY Loops DEF Sending
<1>2. Ciphered(c) \in [Blocks(c) -> Sectors] /\ Right(c, Ciphered(c))
  BY <1>1, CipheredIs
<1>3. \/ o = Reply("refused", Nothing) \/ o = Reply("internal", Nothing)
      \/ c.op = "read" /\ o = Reply("ok", Decrypted(c))
      \/ Mutates(c) /\ o = Reply("ok", Ciphered(c))
      \/ Mutates(c) /\ \E k : o = Reply("internal", First(c, Ciphered(c), k)) \/ o = Reply("lba_range", First(c, Ciphered(c), k))
      \/ c.op = "write" /\ "eof" \in dep.faults /\ \E k : o = Reply("ok", First(c, Ciphered(c), k))
  <2>1. CASE o \in Checked(c, Reply("refused", Nothing))
    BY <2>1 DEF Checked, Faulty
  <2>2. CASE c.op = "read" /\ o \in receive_read(c, Reply("internal", Nothing))
    BY <2>2 DEF receive_read, Faulty, Decrypted
  <2>3. CASE c.op = "write" /\ o \in pwrite_all(c, Ciphered(c), "ok") \union Faulty("crypt", {Reply("internal", Nothing)})
    BY <2>3 DEF pwrite_all, Faulty, Partly, Mutates
  <2>4. CASE c.op = "zeroes" /\ o \in pwrite_all(c, Ciphered(c), "lba_range")
               \union Faulty("crypt", {Reply("internal", p) : p \in ByChunk(c, Ciphered(c))})
    BY <2>4 DEF pwrite_all, Faulty, Partly, ByChunk, Mutates
  <2> QED BY <2>1, <2>2, <2>3, <2>4 DEF nvme_encryptor
<1>4. CASE o = Reply("refused", Nothing) \/ o = Reply("internal", Nothing)
  BY <1>4, PlainOutcome DEF Status
<1>5. CASE Mutates(c) /\ o = Reply("ok", Ciphered(c))
  BY <1>1, <1>2, <1>5, WholeOutcome
<1>6. CASE Mutates(c) /\ \E k : o = Reply("internal", First(c, Ciphered(c), k)) \/ o = Reply("lba_range", First(c, Ciphered(c), k))
  BY <1>1, <1>2, <1>6, PartOutcome DEF Status
<1>7. CASE c.op = "read" /\ o = Reply("ok", Decrypted(c))
  BY <1>1, <1>7, ReadOutcome
<1>8. CASE c.op = "write" /\ "eof" \in dep.faults /\ \E k : o = Reply("ok", First(c, Ciphered(c), k))
  <2>1. Typed(c, o)
    BY <1>1, <1>2, <1>8, PartOutcome DEF Status, Mutates
  <2>2. ~Sound(dep)
    BY <1>8 DEF Sound
  <2> QED BY <2>1, <2>2
<1> QED BY <1>3, <1>4, <1>5, <1>6, <1>7, <1>8

\* encryptor-aio and encryptor-multi.
LEMMA EncryptorAioOutcome ==
    ASSUME dep \in Deployments, dep.prog \in {"encryptor_aio", "encryptor_multi"}, NEW t, NEW c \in dep.cmds,
           NEW o \in nvme_encryptor_aio(t, c)
    PROVE  Typed(c, o) /\ (Sound(dep) => Acks(c, o))
<1>1. loop.async /\ ~Sending
  BY Loops DEF Sending
<1>2. Ciphered(c) \in [Blocks(c) -> Sectors] /\ Right(c, Ciphered(c))
  BY <1>1, CipheredIs
<1>3. \/ o = Throw \/ o = Reply("internal", Nothing) \/ o = Reply("invalid_opcode", Nothing)
      \/ c.op = "read" /\ o = Reply("ok", Decrypted(c))
      \/ c.op = "write" /\ o = Queue(Ciphered(c))
      \/ c.op = "zeroes" /\ o = Queue(zeroes_overlapped(c))
      \/ c.op = "flush" /\ o = Queue(Nothing)
  BY DEF nvme_encryptor_aio, Checked, Faulty, receive_read, Decrypted
<1>4. CASE o = Throw \/ o = Reply("internal", Nothing) \/ o = Reply("invalid_opcode", Nothing)
  BY <1>1, <1>4, PlainOutcome, ThrowOutcome DEF Status
<1>5. CASE c.op = "write" /\ o = Queue(Ciphered(c))
  BY <1>1, <1>2, <1>5, QueueOutcome DEF Mutates
<1>6. CASE c.op = "zeroes" /\ o = Queue(zeroes_overlapped(c))
  <2>0. PICK w : w = zeroes_overlapped(c)
    OBVIOUS
  <2>1. c.n = 1 => Blocks(c) # {}  /\ 0 \in Lbas
    <3>1. c.n \in Nat /\ c.n <= Cardinality(Lbas) /\ c.slba \in Nat
      BY CommandIs
    <3>2. c.n = 1 => c.slba \in c.slba .. c.slba + c.n - 1 /\ 0 \in Lbas
      BY <3>1, Counts
    <3> QED BY <3>2 DEF Blocks
  <2>2. w \in [Blocks(c) -> Sectors]
    BY <2>0, <2>1, SectorIs DEF zeroes_overlapped
  <2>3. ASSUME Sound(dep) PROVE Right(c, w)
    <3>1. c.slba = 0 /\ c.n = 1
      BY <1>6, <2>3 DEF Sound
    <3>2. ASSUME NEW a \in Blocks(c) PROVE a[2] = 0
      <4>1. a[2] \in c.slba .. c.slba + c.n - 1
        BY CommandIs
      <4>2. c.slba .. c.slba + c.n - 1 = 0 .. 0
        BY <3>1
      <4> QED BY <4>1, <4>2
    <3>3. DOMAIN w = Blocks(c) /\ \A a \in Blocks(c) : w[a] = encrypt(Zero, a[2]) /\ Text(c, a) = Zero
      BY <1>6, <2>0, <3>1, <3>2 DEF zeroes_overlapped, Text
    <3> QED BY <1>1, <3>3, SectorIs DEF Right, View
  <2> QED BY <1>1, <1>6, <2>0, <2>2, <2>3, QueueOutcome DEF Mutates
<1>7. CASE c.op = "read" /\ o = Reply("ok", Decrypted(c))
  BY <1>1, <1>7, ReadOutcome
<1>8. CASE c.op = "flush" /\ o = Queue(Nothing)
  BY <1>1, <1>8, OtherOutcome DEF Mutates
<1> QED BY <1>3, <1>4, <1>5, <1>6, <1>7, <1>8

\* encryptor-sgx.
LEMMA SgxOutcome ==
    ASSUME dep \in Deployments, dep.prog = "encryptor_sgx", NEW t, NEW c \in dep.cmds,
           NEW o \in nvme_encryptor_sgx(t, c)
    PROVE  Typed(c, o) /\ (Sound(dep) /\ CleanFor(t, c) => Acks(c, o))
<1>1. ~loop.async /\ ~Sending
  BY Loops DEF Sending
<1>2. Ciphered(c) \in [Blocks(c) -> Sectors] /\ Right(c, Ciphered(c))
  BY <1>1, CipheredIs
<1> DEFINE z == [a \in Blocks(c) |-> encrypt(encbuf(t, c)[a], a[2])]
<1>3. z \in [Blocks(c) -> Sectors]
  <2>1. \A a \in Blocks(c) : encbuf(t, c)[a] \in {Zero, Junk} /\ a[2] \in Lbas
    BY CommandIs DEF encbuf
  <2> QED BY <2>1, SectorIs
<1>4. ASSUME Sound(dep), CleanFor(t, c), c.op = "zeroes" PROVE Right(c, z)
  <2>1. c.n <= WzBlocks /\ encdirty[t] = 0
    BY <1>4 DEF Sound, CleanFor
  <2>2. ASSUME NEW a \in Blocks(c) PROVE encbuf(t, c)[a] = Zero
    <3>1. a[2] - c.slba >= 0 /\ a[2] - c.slba < WzBlocks
      BY <2>1, CommandIs, Counts, SMTT(30)
    <3> QED BY <2>1, <3>1 DEF encbuf
  <2>3. \A a \in Blocks(c) : z[a] = encrypt(Zero, a[2]) /\ Text(c, a) = Zero
    BY <1>4, <2>2 DEF Text
  <2> QED BY <1>1, <2>3, SectorIs DEF Right, View
<1> HIDE DEF z
<1>5. \/ o = Reply("refused", Nothing) \/ o = Reply("internal", Nothing)
      \/ c.op = "read" /\ o = Reply("ok", Decrypted(c))
      \/ c.op = "write" /\ o = Reply("ok", Ciphered(c))
      \/ c.op = "write" /\ \E k : o = Reply("internal", First(c, Ciphered(c), k))
      \/ c.op = "write" /\ "eof" \in dep.faults /\ \E k : o = Reply("ok", First(c, Ciphered(c), k))
      \/ c.op = "zeroes" /\ o = Reply("ok", z)
      \/ c.op = "zeroes" /\ \E k : o = Reply("internal", First(c, z, k)) \/ o = Reply("lba_range", First(c, z, k))
  <2> DEFINE before == IF c.op = "zeroes" THEN ByChunk(c, z) ELSE {Nothing}
  <2>0. o \in Checked(c, Reply("refused", Nothing)) \union Invoked(c, {Reply("internal", p) : p \in before}) \union
        CASE c.op = "read" ->
               {Reply(IF r.ok THEN "ok" ELSE "internal", r.w) : r \in crypt_command_inplace(c)}
          [] c.op = "write" ->
               UNION {IF r.ok THEN pwrite_all(c, r.w, "ok") ELSE {Reply("internal", Nothing)}
                        : r \in crypt_command(c, Nothing)}
          [] c.op = "zeroes" ->
               UNION {IF r.ok THEN pwrite_all(c, r.w, "lba_range") ELSE {Reply("internal", p) : p \in before}
                        : r \in crypt_buffer_inplace(c, encbuf(t, c))}
          [] OTHER -> {Reply("internal", Nothing)}
    BY DEF nvme_encryptor_sgx, z
  <2>1. CASE o \in Checked(c, Reply("refused", Nothing)) \union Invoked(c, {Reply("internal", p) : p \in before})
    BY <2>1 DEF Checked, Invoked, Faulty, ByChunk
  <2>2. CASE c.op = "read" /\ o \in {Reply(IF r.ok THEN "ok" ELSE "internal", r.w) : r \in crypt_command_inplace(c)}
    <3>1. PICK r \in crypt_command_inplace(c) : o = Reply(IF r.ok THEN "ok" ELSE "internal", r.w)
      BY <2>2
    <3>2. r = [ok |-> TRUE, w |-> Decrypted(c)] \/ r = [ok |-> FALSE, w |-> Nothing]
      BY DEF crypt_command_inplace, Faulty, Decrypted
    <3> QED BY <2>2, <3>1, <3>2
  <2>3. CASE c.op = "write" /\ o \in UNION {IF r.ok THEN pwrite_all(c, r.w, "ok") ELSE {Reply("internal", Nothing)}
                                               : r \in crypt_command(c, Nothing)}
    <3>1. PICK r \in crypt_command(c, Nothing) : o \in IF r.ok THEN pwrite_all(c, r.w, "ok") ELSE {Reply("internal", Nothing)}
      BY <2>3
    <3>2. r = [ok |-> TRUE, w |-> Ciphered(c)] \/ ~r.ok
      BY DEF crypt_command, Faulty
    <3>3. o \in pwrite_all(c, Ciphered(c), "ok") \/ o = Reply("internal", Nothing)
      BY <3>1, <3>2
    <3> QED BY <2>3, <3>3 DEF pwrite_all, Faulty, Partly
  <2>4. CASE c.op = "zeroes" /\ o \in UNION {IF r.ok THEN pwrite_all(c, r.w, "lba_range") ELSE {Reply("internal", p) : p \in before}
                        : r \in crypt_buffer_inplace(c, encbuf(t, c))}
    <3>1. PICK r \in crypt_buffer_inplace(c, encbuf(t, c)) :
             o \in IF r.ok THEN pwrite_all(c, r.w, "lba_range") ELSE {Reply("internal", p) : p \in before}
      BY <2>4
    <3>2. r = [ok |-> TRUE, w |-> z] \/ ~r.ok
      <4>1. PICK in : in = encbuf(t, c)
        OBVIOUS
      <4>2. z = [a \in Blocks(c) |-> encrypt(in[a], a[2])]
        BY <4>1 DEF z
      <4>3. r \in crypt_buffer_inplace(c, in)
        BY <4>1
      <4>4. r = [ok |-> TRUE, w |-> z] \/ \E p : r = [ok |-> FALSE, w |-> p]
        BY <4>2, <4>3 DEF crypt_buffer_inplace, Faulty
      <4> QED BY <4>4
    <3>3. o \in pwrite_all(c, z, "lba_range") \/ o \in {Reply("internal", p) : p \in ByChunk(c, z)}
      BY <2>4, <3>1, <3>2
    <3> QED BY <2>4, <3>3 DEF pwrite_all, Faulty, Partly, ByChunk
  <2> HIDE DEF before
  <2> QED BY <2>0, <2>1, <2>2, <2>3, <2>4
<1>6. CASE o = Reply("refused", Nothing) \/ o = Reply("internal", Nothing)
  BY <1>6, PlainOutcome DEF Status
<1>7. CASE c.op = "read" /\ o = Reply("ok", Decrypted(c))
  BY <1>1, <1>7, ReadOutcome
<1>8. CASE c.op = "write" /\ o = Reply("ok", Ciphered(c))
  BY <1>1, <1>2, <1>8, WholeOutcome DEF Mutates
<1>9. CASE c.op = "write" /\ \E k : o = Reply("internal", First(c, Ciphered(c), k))
  BY <1>1, <1>2, <1>9, PartOutcome DEF Status, Mutates
<1>10. CASE c.op = "write" /\ "eof" \in dep.faults /\ \E k : o = Reply("ok", First(c, Ciphered(c), k))
  <2>1. Typed(c, o)
    BY <1>1, <1>2, <1>10, PartOutcome DEF Status, Mutates
  <2>2. ~Sound(dep)
    BY <1>10 DEF Sound
  <2> QED BY <2>1, <2>2
<1>11. CASE c.op = "zeroes" /\ o = Reply("ok", z)
  BY <1>1, <1>3, <1>4, <1>11, WholeOutcome DEF Mutates
<1>12. CASE c.op = "zeroes" /\ \E k : o = Reply("internal", First(c, z, k)) \/ o = Reply("lba_range", First(c, z, k))
  BY <1>1, <1>3, <1>12, PartOutcome DEF Status, Mutates
<1> QED BY <1>5, <1>6, <1>7, <1>8, <1>9, <1>10, <1>11, <1>12

\* encryptor-sgx-aio.
LEMMA SgxAioOutcome ==
    ASSUME dep \in Deployments, dep.prog = "encryptor_sgx_aio", NEW t, NEW c \in dep.cmds,
           NEW o \in nvme_encryptor_sgx_aio(t, c)
    PROVE  Typed(c, o) /\ (Sound(dep) => Acks(c, o))
<1>1. loop.async /\ ~Sending
  BY Loops DEF Sending
<1>2. Ciphered(c) \in [Blocks(c) -> Sectors] /\ Right(c, Ciphered(c))
  BY <1>1, CipheredIs
<1> DEFINE z == [a \in Blocks(c) |-> encrypt([b \in Blocks(c) |-> Zero][a], a[2])]
<1>3. z \in [Blocks(c) -> Sectors] /\ \A a \in Blocks(c) : z[a] = encrypt(Zero, a[2])
  BY CommandIs, SectorIs
<1>4. c.op = "zeroes" => Right(c, z)
  BY <1>1, <1>3, SectorIs DEF Right, View, Text
<1> HIDE DEF z
<1>5. ASSUME NEW f \in [Blocks(c) -> Sectors], NEW w \in [Blocks(c) -> Sectors], NEW p \in Partly(c, w)
      PROVE  Over(f, p) \in [Blocks(c) -> Sectors]
  <2>1. PICK k : p = First(c, w, k)
    BY DEF Partly
  <2>2. \A a \in DOMAIN p : p[a] \in Sectors
    BY <2>1, WholeIs, WriteIs
  <2> QED BY <2>2 DEF Over
<1>6. \/ o = Throw \/ o = Reply("invalid_opcode", Nothing)
      \/ c.op = "read" /\ o = Reply("ok", Decrypted(c))
      \/ c.op = "write" /\ o = Queue(Ciphered(c))
      \/ c.op = "zeroes" /\ o = Queue(z)
      \/ c.op = "flush" /\ o = Queue(Nothing)
      \/ Mutates(c) /\ "crypt" \in dep.faults /\ \E w \in [Blocks(c) -> Sectors] : o = Queue(w)
  <2>1. CASE o \in Checked(c, Throw) \union Invoked(c, {Throw})
    BY <2>1 DEF Checked, Invoked, Faulty
  <2>2. CASE c.op = "read" /\ o \in {IF r.ok THEN Reply("ok", r.w) ELSE Throw : r \in crypt_command_inplace(c)}
    BY <2>2 DEF crypt_command_inplace, Faulty, Decrypted
  <2>3. CASE c.op = "write" /\ o \in {Queue(r.w) : r \in crypt_command(c, [a \in Blocks(c) |-> encrypt(Junk, Clear)])}
    <3>1. PICK r \in crypt_command(c, [a \in Blocks(c) |-> encrypt(Junk, Clear)]) : o = Queue(r.w)
      BY <2>3
    <3>2. [a \in Blocks(c) |-> encrypt(Junk, Clear)] \in [Blocks(c) -> Sectors]
      BY SectorIs
    <3>3. \/ r.w = Ciphered(c)
          \/ "crypt" \in dep.faults /\ \E p \in Partly(c, Ciphered(c)) : r.w = Over([a \in Blocks(c) |-> encrypt(Junk, Clear)], p)
      BY DEF crypt_command, Faulty
    <3> QED BY <1>2, <1>5, <2>3, <3>1, <3>2, <3>3 DEF Mutates
  <2>4. CASE c.op = "zeroes" /\ o \in {Queue(r.w) : r \in crypt_buffer_inplace(c, [a \in Blocks(c) |-> Zero])}
    <3>0. PICK in : in = [b \in Blocks(c) |-> Zero]
      OBVIOUS
    <3>1. PICK r \in crypt_buffer_inplace(c, in) : o = Queue(r.w)
      BY <2>4, <3>0
    <3>2. PICK f : f = [a \in Blocks(c) |-> encrypt(in[a], Clear)] /\ f \in [Blocks(c) -> Sectors]
      <4>1. \A a \in Blocks(c) : encrypt(in[a], Clear) \in Sectors
        BY <3>0, SectorIs
      <4>2. [a \in Blocks(c) |-> encrypt(in[a], Clear)] \in [Blocks(c) -> Sectors]
        BY <4>1
      <4> QED BY <4>2, Zenon
    <3>3. z = [a \in Blocks(c) |-> encrypt(in[a], a[2])]
      BY <3>0 DEF z
    <3>4. r.w = z \/ ("crypt" \in dep.faults /\ \E p \in Partly(c, z) : r.w = Over(f, p))
      BY <3>2, <3>3, SMTT(30) DEF crypt_buffer_inplace, Faulty
    <3> QED BY <1>3, <1>5, <2>4, <3>1, <3>2, <3>4 DEF Mutates
  <2> QED BY <2>1, <2>2, <2>3, <2>4 DEF nvme_encryptor_sgx_aio
<1>7. CASE o = Throw \/ o = Reply("invalid_opcode", Nothing)
  BY <1>1, <1>7, PlainOutcome, ThrowOutcome DEF Status
<1>8. CASE c.op = "read" /\ o = Reply("ok", Decrypted(c))
  BY <1>1, <1>8, ReadOutcome
<1>9. CASE c.op = "write" /\ o = Queue(Ciphered(c))
  BY <1>1, <1>2, <1>9, QueueOutcome DEF Mutates
<1>10. CASE c.op = "zeroes" /\ o = Queue(z)
  BY <1>1, <1>3, <1>4, <1>10, QueueOutcome DEF Mutates
<1>11. CASE c.op = "flush" /\ o = Queue(Nothing)
  BY <1>1, <1>11, OtherOutcome DEF Mutates
<1>12. CASE Mutates(c) /\ "crypt" \in dep.faults /\ \E w \in [Blocks(c) -> Sectors] : o = Queue(w)
  <2>1. Typed(c, o)
    BY <1>1, <1>12, QueueOutcome
  <2>2. ~Sound(dep)
    BY <1>12 DEF Sound, Mutates
  <2> QED BY <2>1, <2>2
<1> QED BY <1>6, <1>7, <1>8, <1>9, <1>10, <1>11, <1>12

\* Every program.
LEMMA OutcomeIs ==
    ASSUME dep \in Deployments, NEW t, NEW c \in dep.cmds, NEW o \in Outcomes(t, c)
    PROVE  Typed(c, o) /\ (Sound(dep) /\ CleanFor(t, c) => Acks(c, o))
<1>1. dep.prog \in {"replicator", "replicator_aio", "encryptor_mt", "encryptor_aio", "encryptor_multi",
                    "encryptor_sgx", "encryptor_sgx_aio"}
  BY Deployed
<1>2. CASE dep.prog = "replicator"
  BY <1>2, SenderOutcome DEF Outcomes
<1>3. CASE dep.prog = "replicator_aio"
  BY <1>3, SenderAioOutcome DEF Outcomes
<1>4. CASE dep.prog = "encryptor_mt"
  BY <1>4, EncryptorOutcome DEF Outcomes
<1>5. CASE dep.prog \in {"encryptor_aio", "encryptor_multi"}
  BY <1>5, EncryptorAioOutcome DEF Outcomes, nvme_encryptor_multi
<1>6. CASE dep.prog = "encryptor_sgx"
  BY <1>6, SgxOutcome DEF Outcomes
<1>7. CASE dep.prog = "encryptor_sgx_aio"
  BY <1>7, SgxAioOutcome DEF Outcomes
<1> QED BY <1>1, <1>2, <1>3, <1>4, <1>5, <1>6, <1>7

(***************************************************************************)
(* The inductive invariant.                                                *)
(***************************************************************************)
Ids     == {c.id : c \in dep.cmds}
Home(c) == (c.q - 1) % dep.nthreads

Response   == [q : Queues, c : dep.cmds, st : Status]
Entry      == [t : Workers, tag : Nat \X dep.cmds, w : Writes]
Completion == [tag : Nat \X dep.cmds, res : {-1, 0, 1}]

\* An entry stands for a command.
LEMMA EntryIs == ASSUME NEW e \in Entry PROVE e.tag[2] \in dep.cmds
  BY DEF Entry

\* The tag leads back to the queue of its command.
TagOK(r, tag) ==
    /\ loop.async /\ tag[2].op # "read" /\ Home(tag[2]) \in Workers
    /\ tag[1] \in DOMAIN sqids(Home(tag[2])) /\ sqids(Home(tag[2]))[tag[1]] = tag[2].q
    /\ r = RingOf(Home(tag[2]), tag[2].q)
EntryOK(r, e) == TagOK(r, e.tag) /\ e.t = Home(e.tag[2]) /\ DOMAIN e.w = Blocks(e.tag[2])

SysOK  == dep \in Deployments /\ up \in BOOLEAN /\ todo \subseteq dep.cmds
NsqOK  == /\ nsq \in [Queues -> Seq(dep.cmds)]
          /\ \A q \in Queues : \A i \in DOMAIN nsq[q] : nsq[q][i].q = q
DataOK == disk \in [Addrs -> Sectors] /\ val \in [Addrs -> Texts \ {Junk}]
RegsOK ==
    /\ pc \in [Workers -> {"poll", "handle", "reap"}] /\ at \in [Workers -> 1 .. NQ + 1]
    /\ ntry \in [Workers -> 0 .. BusyLoops - 1] /\ succeeded \in [Workers -> BOOLEAN]
    /\ encdirty \in [Workers -> 0 .. Cardinality(Lbas)]
    /\ \A t \in Workers : pc[t] = "handle" => at[t] \in DOMAIN sqids(t)
\* A burst is of one queue, the one the worker is at; asynchronous programs
\* keep no responses.
BurstAt(t, p, i, b, r) ==
    /\ p # "handle" => b = <<>> /\ r = <<>>
    /\ loop.async => r = <<>>
    /\ loop.async /\ p = "handle" => b # <<>>
    /\ Len(b) + Len(r) <= Burst
    /\ \A k \in DOMAIN b : b[k].q = sqids(t)[i]
    /\ \A k \in DOMAIN r : r[k].q = sqids(t)[i] /\ r[k].c.q = sqids(t)[i]
BurstOK ==
    /\ batch \in [Workers -> Seq(dep.cmds)] /\ resps \in [Workers -> Seq(Response)]
    /\ \A t \in Workers : BurstAt(t, pc[t], at[t], batch[t], resps[t])
UringOK ==
    /\ sq \in [AllRings -> Seq(Entry)] /\ ring \in [AllRings -> SUBSET Entry]
    /\ done \in [AllRings -> Seq(Completion)]
    /\ \A r \in AllRings : \A i \in DOMAIN sq[r] : EntryOK(r, sq[r][i])
    /\ \A r \in AllRings : \A e \in ring[r] : EntryOK(r, e)
    /\ \A r \in AllRings : \A i \in DOMAIN done[r] : TagOK(r, done[r][i].tag)

\* Registers, queues, tags and data have their shape.
TypeInv == SysOK /\ NsqOK /\ DataOK /\ RegsOK /\ BurstOK /\ UringOK

\* The command of each thing a queue or ring holds.
CmdKey  == [c \in dep.cmds |-> c]
RespKey == [x \in Response |-> x.c]
EntryKey == [e \in Entry |-> e.tag[2]]
DoneKey == [x \in Completion |-> x.tag[2]]

InNsq(c)   == Has(nsq, CmdKey, c)
InBatch(c) == Has(batch, CmdKey, c)
InResps(c) == Has(resps, RespKey, c)
InSq(c)    == Has(sq, EntryKey, c)
InRing(c)  == \E r \in AllRings : \E e \in ring[r] : e.tag[2] = c
InDone(c)  == Has(done, DoneKey, c)
UniqRing   == \A r, s \in AllRings : \A e \in ring[r], f \in ring[s] : e.tag[2] = f.tag[2] => r = s /\ e = f

\* At most one of six.
OnlyOne(a, b, c, d, e, f) ==
    /\ a => ~b /\ ~c /\ ~d /\ ~e /\ ~f
    /\ b => ~c /\ ~d /\ ~e /\ ~f
    /\ c => ~d /\ ~e /\ ~f
    /\ d => ~e /\ ~f
    /\ e => ~f

\* A command that is under way is in at most one place, once; others are in
\* none.  Commands under way do not overlap.
Single ==
    /\ Uniq(nsq, CmdKey) /\ Uniq(batch, CmdKey) /\ Uniq(resps, RespKey) /\ Uniq(sq, EntryKey) /\ UniqRing
    /\ Uniq(done, DoneKey)
Placed ==
    \A c \in dep.cmds :
      /\ OnlyOne(InNsq(c), InBatch(c), InResps(c), InSq(c), InRing(c), InDone(c))
      /\ InNsq(c) \/ InBatch(c) \/ InResps(c) \/ InSq(c) \/ InRing(c) \/ InDone(c) => UnderWay(c)
Apart == \A c, e \in dep.cmds : UnderWay(c) /\ UnderWay(e) /\ c # e => Blocks(c) \intersect Blocks(e) = {}
AnsOK == /\ ans \in [Ids -> Seq([q : Queues, st : Status])]
         /\ \A c \in todo : ans[c.id] = <<>>
FlowInv == AnsOK /\ RightQueue /\ Single /\ Placed /\ Apart

\* What is acknowledged or about to be is on the device.
OnDisk(c) == \A a \in Blocks(c) : View(disk[a], a) = Text(c, a)
Forgotten == \A c \in dep.cmds : UnderWay(c) /\ Mutates(c) => \A a \in Blocks(c) : val[a] = Unknown
Prepared ==
    /\ \A r \in AllRings : \A i \in DOMAIN sq[r] : Mutates(sq[r][i].tag[2]) => Right(sq[r][i].tag[2], sq[r][i].w)
    /\ \A r \in AllRings : \A e \in ring[r] : Mutates(e.tag[2]) => Right(e.tag[2], e.w)
Performed ==
    /\ \A r \in AllRings : \A i \in DOMAIN done[r] :
         done[r][i].res >= 0 /\ Mutates(done[r][i].tag[2]) => OnDisk(done[r][i].tag[2])
    /\ \A t \in Workers : \A i \in DOMAIN resps[t] :
         resps[t][i].st = "ok" /\ Mutates(resps[t][i].c) => OnDisk(resps[t][i].c)
\* encryptor-sgx: what has dirtied the buffer has been handled.
Dirtier ==
    \A t \in Workers : encdirty[t] # 0 =>
        \E e \in dep.cmds : Mutates(e) /\ Home(e) = t /\ e \notin todo /\ ~InNsq(e) /\ ~InBatch(e)
DiskInv == AckedOnDisk /\ Forgotten /\ Prepared /\ Performed /\ Dirtier

\* The guest's buffers hold what the host queue has read, and then its text.
ReadInv ==
    /\ buf = [i \in Ids |-> buf[i]]
    /\ \A c \in dep.cmds : c.op = "read" /\ (InNsq(c) \/ InBatch(c)) => buf[c.id] = [a \in Blocks(c) |-> disk[a]]
    /\ \A t \in Workers : \A i \in DOMAIN resps[t] : resps[t][i].c.op = "read" /\ resps[t][i].st = "ok" =>
          buf[resps[t][i].c.id] = [a \in Blocks(resps[t][i].c) |-> encrypt(View(disk[a], a), Clear)]

\* The deployment does not change, nor does what depends on it alone.
LEMMA Static ==
    ASSUME dep' = dep
    PROVE  /\ loop' = loop /\ Workers' = Workers /\ Addrs' = Addrs /\ Sending' = Sending
           /\ Texts' = Texts /\ Sectors' = Sectors /\ Writes' = Writes
           /\ \A t : sqids(t)' = sqids(t) /\ Rings(t)' = Rings(t)
           /\ \A t, q : RingOf(t, q)' = RingOf(t, q)
           /\ \A c : Blocks(c)' = Blocks(c) /\ Home(c)' = Home(c)
           /\ \A s, a : View(s, a)' = View(s, a)
<1>1. loop' = loop /\ Workers' = Workers /\ Addrs' = Addrs /\ Sending' = Sending /\ Texts' = Texts
  BY DEF loop, Workers, Addrs, Sending, Texts
<1>2. Sectors' = Sectors
  BY <1>1 DEF Sectors
<1>3. Writes' = Writes
  BY <1>1, <1>2 DEF Writes
<1>4. \A t : sqids(t)' = sqids(t)
  BY DEF sqids
<1>5. \A t : Rings(t)' = Rings(t)
  BY <1>1, <1>4 DEF Rings
<1>6. \A t, q : RingOf(t, q)' = RingOf(t, q)
  BY <1>1 DEF RingOf
<1>7. \A c : Blocks(c)' = Blocks(c) /\ Home(c)' = Home(c)
  BY DEF Blocks, Home
<1>8. \A s, a : View(s, a)' = View(s, a)
  BY <1>1 DEF View
<1> QED BY <1>1, <1>2, <1>3, <1>4, <1>5, <1>6, <1>7, <1>8

\* Nor do the types that depend on the deployment alone.
LEMMA StaticShapes ==
    ASSUME dep' = dep
    PROVE  /\ Response' = Response /\ Entry' = Entry /\ Completion' = Completion /\ Ids' = Ids
           /\ \A r, tag : TagOK(r, tag)' <=> TagOK(r, tag)
           /\ \A r, e : EntryOK(r, e)' <=> EntryOK(r, e)
           /\ \A t, p, i, b, r : BurstAt(t, p, i, b, r)' <=> BurstAt(t, p, i, b, r)
<1>1. Response' = Response /\ Entry' = Entry /\ Completion' = Completion /\ Ids' = Ids
  BY Static DEF Response, Entry, Completion, Ids
<1>2. \A r, tag : TagOK(r, tag)' <=> TagOK(r, tag)
  BY Static DEF TagOK
<1>3. \A r, e : EntryOK(r, e)' <=> EntryOK(r, e)
  BY Static, <1>2 DEF EntryOK
<1>4. \A t, p, i, b, r : BurstAt(t, p, i, b, r)' <=> BurstAt(t, p, i, b, r)
  BY Static DEF BurstAt
<1> QED BY <1>1, <1>2, <1>3, <1>4

\* Parts that are left alone stay.
LEMMA Frames ==
    ASSUME dep' = dep
    PROVE  /\ SysOK /\ up' \in BOOLEAN /\ todo' \subseteq todo => SysOK'
           /\ NsqOK /\ nsq' = nsq => NsqOK'
           /\ DataOK /\ disk' = disk /\ val' = val => DataOK'
           /\ UringOK /\ sq' = sq /\ ring' = ring /\ done' = done => UringOK'
           /\ RegsOK /\ UNCHANGED <<pc, at, ntry, succeeded, encdirty>> => RegsOK'
           /\ BurstOK /\ UNCHANGED <<pc, at, batch, resps>> => BurstOK'
<1>1. SysOK /\ up' \in BOOLEAN /\ todo' \subseteq todo => SysOK'
  BY DEF SysOK
<1>2. NsqOK /\ nsq' = nsq => NsqOK'
  BY DEF NsqOK
<1>3. DataOK /\ disk' = disk /\ val' = val => DataOK'
  BY Static DEF DataOK
<1>4. UringOK /\ sq' = sq /\ ring' = ring /\ done' = done => UringOK'
  BY Static, StaticShapes DEF UringOK, AllRings
<1>5. RegsOK /\ UNCHANGED <<pc, at, ntry, succeeded, encdirty>> => RegsOK'
  BY Static DEF RegsOK
<1>6. BurstOK /\ UNCHANGED <<pc, at, batch, resps>> => BurstOK'
  BY Static, StaticShapes DEF BurstOK
<1> QED BY <1>1, <1>2, <1>3, <1>4, <1>5, <1>6

\* A worker's queues.
LEMMA WorkerIs ==
    ASSUME dep \in Deployments, NEW t \in Workers
    PROVE  /\ t \in Nat /\ t < dep.nthreads
           /\ sqids(t) \in Seq(Queues) /\ Len(sqids(t)) \in Nat /\ Len(sqids(t)) <= NQ
           /\ DOMAIN sqids(t) = 1 .. Len(sqids(t))
           /\ \A i \in DOMAIN sqids(t) : sqids(t)[i] \in Queues /\ (sqids(t)[i] - 1) % dep.nthreads = t
<1>1. t \in Nat /\ t < dep.nthreads /\ dep.nthreads \in Nat \ {0}
  BY Deployed DEF Workers
<1>2. /\ sqids(t) \in Seq(Queues) /\ Len(sqids(t)) <= NQ
      /\ \A i \in DOMAIN sqids(t) : (sqids(t)[i] - 1) % dep.nthreads = t
  BY <1>1, SqidsSpec DEF NQ
<1>3. PICK s \in Seq(Queues) : s = sqids(t)
  BY <1>2
<1>4. Len(s) \in Nat /\ DOMAIN s = 1 .. Len(s) /\ \A i \in DOMAIN s : s[i] \in Queues
  OBVIOUS
<1> QED BY <1>1, <1>2, <1>3, <1>4

\* A worker has at most as many rings as there are queues, each of a device.
LEMMA RingsIs ==
    ASSUME dep \in Deployments, NEW t \in Workers
    PROVE  /\ Len(Rings(t)) \in Nat /\ Len(Rings(t)) <= NQ /\ DOMAIN Rings(t) = 1 .. Len(Rings(t))
           /\ \A i \in DOMAIN Rings(t) : Rings(t)[i] \in AllRings
           /\ \A q \in Queues : RingOf(t, q) \in AllRings
<1>1. dep.dev \in [Queues -> AllRings] /\ dep.nthreads \in Nat \ {0}
  BY Deployed
<1>2. CASE loop.multi
  <2>0. PICK s : s = [i \in DOMAIN sqids(t) |-> dep.dev[sqids(t)[i]]]
    OBVIOUS
  <2>1. /\ Rings(t) = s
        /\ DOMAIN s = 1 .. Len(sqids(t)) /\ \A i \in DOMAIN sqids(t) : s[i] = dep.dev[sqids(t)[i]]
    BY <1>2, <2>0, WorkerIs DEF Rings
  <2>2. \A i \in DOMAIN sqids(t) : s[i] \in AllRings
    BY <1>1, <2>1, WorkerIs
  <2>3. s \in [1 .. Len(sqids(t)) -> AllRings]
    BY <2>0, <2>1, <2>2, WorkerIs
  <2>4. s \in Seq(AllRings) /\ Len(s) = Len(sqids(t))
    BY <2>3, WorkerIs
  <2> QED BY <1>1, <1>2, <2>1, <2>2, <2>4, WorkerIs DEF RingOf
<1>3. CASE ~loop.multi
  <2>1. t \in AllRings
    BY <1>3, Deployed, WorkerIs, Counts
  <2>2. Rings(t) = <<t>>
    BY <1>3 DEF Rings
  <2> QED BY <1>3, <2>1, <2>2, Counts DEF RingOf
<1> QED BY <1>2, <1>3

\* The registers and the burst of a worker after its step.
Moves(t, p, i, n, s, d, b, r) ==
    /\ pc' = [pc EXCEPT ![t] = p] /\ at' = [at EXCEPT ![t] = i]
    /\ ntry' = [ntry EXCEPT ![t] = n] /\ succeeded' = [succeeded EXCEPT ![t] = s]
    /\ encdirty' = [encdirty EXCEPT ![t] = d]
    /\ batch' = [batch EXCEPT ![t] = b] /\ resps' = [resps EXCEPT ![t] = r]
MayMove(t, p, i, n, s, d, b, r) ==
    /\ p \in {"poll", "handle", "reap"} /\ i \in 1 .. NQ + 1 /\ n \in 0 .. BusyLoops - 1 /\ s \in BOOLEAN
    /\ d \in 0 .. Cardinality(Lbas) /\ b \in Seq(dep.cmds) /\ r \in Seq(Response)
    /\ p = "handle" => i \in DOMAIN sqids(t)
    /\ BurstAt(t, p, i, b, r)

\* A worker that moves within its bounds keeps the types of its registers and
\* its burst.
LEMMA WorkerStep ==
    ASSUME TypeInv, dep' = dep, NEW t \in Workers, NEW p, NEW i, NEW n, NEW s, NEW d, NEW b, NEW r,
           MayMove(t, p, i, n, s, d, b, r), Moves(t, p, i, n, s, d, b, r)
    PROVE  RegsOK' /\ BurstOK'
<1>1. /\ pc' \in [Workers -> {"poll", "handle", "reap"}] /\ at' \in [Workers -> 1 .. NQ + 1]
      /\ ntry' \in [Workers -> 0 .. BusyLoops - 1]
      /\ encdirty' \in [Workers -> 0 .. Cardinality(Lbas)]
      /\ pc'[t] = p /\ at'[t] = i /\ \A u \in Workers : u # t => pc'[u] = pc[u] /\ at'[u] = at[u]
  BY DEF TypeInv, RegsOK, Moves, MayMove
<1>2. succeeded' \in [Workers -> BOOLEAN]
  BY DEF TypeInv, RegsOK, Moves, MayMove
<1>3. /\ batch' \in [Workers -> Seq(dep.cmds)] /\ resps' \in [Workers -> Seq(Response)]
      /\ batch'[t] = b /\ resps'[t] = r /\ \A u \in Workers : u # t => batch'[u] = batch[u] /\ resps'[u] = resps[u]
  BY DEF TypeInv, BurstOK, Moves, MayMove
<1>4. \A u \in Workers : pc'[u] = "handle" => at'[u] \in DOMAIN sqids(u)
  BY <1>1 DEF TypeInv, RegsOK, MayMove
<1>5. \A u \in Workers : BurstAt(u, pc'[u], at'[u], batch'[u], resps'[u])
  BY <1>1, <1>3 DEF TypeInv, BurstOK, MayMove
<1>6. RegsOK'
  BY <1>1, <1>2, <1>4, Static DEF RegsOK
<1>7. BurstOK'
  BY <1>3, <1>5, Static, StaticShapes DEF BurstOK
<1> QED BY <1>6, <1>7

\* A worker that handles no burst has none.
LEMMA IdleBurst ==
    ASSUME NEW t, NEW p, p # "handle", NEW i
    PROVE  /\ BurstAt(t, p, i, <<>>, <<>>)
           /\ \A b, r, k : BurstAt(t, p, k, b, r) => b = <<>> /\ r = <<>>
<1>1. Len(<<>>) = 0 /\ DOMAIN <<>> = {}
  OBVIOUS
<1>2. BurstAt(t, p, i, <<>>, <<>>)
  BY <1>1, Counts DEF BurstAt
<1>3. \A b, r, k : BurstAt(t, p, k, b, r) => b = <<>> /\ r = <<>>
  BY DEF BurstAt
<1> QED BY <1>2, <1>3

\* A register that keeps its value.
LEMMA Kept ==
    ASSUME NEW S, NEW f, f = [x \in S |-> f[x]], NEW t \in S
    PROVE  [f EXCEPT ![t] = f[t]] = f
  OBVIOUS

\* What the guest knows after responses have been posted.
Told(rs, a) ==
    \E i, j \in DOMAIN rs :
        /\ rs[i].st = "ok" /\ Mutates(rs[i].c) /\ a \in Blocks(rs[i].c)
        /\ Mutates(rs[j].c) /\ a \in Blocks(rs[j].c) /\ val'[a] = Text(rs[j].c, a)

\* Acknowledging commands changes what is promised of their blocks only.
LEMMA PostVal ==
    ASSUME SysOK, DataOK, dep' = dep, NEW rs, \A i \in DOMAIN rs : rs[i].c \in dep.cmds, Post(rs)
    PROVE  /\ val' \in [Addrs -> Texts \ {Junk}]
           /\ \A a \in Addrs : Told(rs, a) \/ val'[a] = val[a]
<1> DEFINE acked == {a \in Addrs : \E i \in DOMAIN rs :
                       rs[i].st = "ok" /\ rs[i].c.op \in {"write", "zeroes"} /\ a \in Blocks(rs[i].c)}
           by(a) == CHOOSE c \in {rs[i].c : i \in DOMAIN rs} : c.op \in {"write", "zeroes"} /\ a \in Blocks(c)
<1>1. val' = [a \in Addrs |-> IF a \in acked THEN Text(by(a), a) ELSE val[a]]
  BY DEF Post
<1>2. ASSUME NEW a \in acked PROVE \E j \in DOMAIN rs : by(a) = rs[j].c /\ Mutates(rs[j].c) /\ a \in Blocks(rs[j].c)
  <2>1. \E c \in {rs[i].c : i \in DOMAIN rs} : c.op \in {"write", "zeroes"} /\ a \in Blocks(c)
    OBVIOUS
  <2>2. by(a) \in {rs[i].c : i \in DOMAIN rs} /\ by(a).op \in {"write", "zeroes"} /\ a \in Blocks(by(a))
    BY <2>1, Zenon
  <2> HIDE DEF by
  <2> QED BY <2>2 DEF Mutates
<1>3. ASSUME NEW a \in acked PROVE \E i \in DOMAIN rs : rs[i].st = "ok" /\ Mutates(rs[i].c) /\ a \in Blocks(rs[i].c)
  BY DEF Mutates
<1>4. acked \subseteq Addrs
  OBVIOUS
<1> HIDE DEF acked, by
<1>5. ASSUME NEW a \in Addrs PROVE val'[a] \in Texts \ {Junk} /\ (Told(rs, a) \/ val'[a] = val[a])
  <2>1. CASE a \in acked
    <3>1. PICK j \in DOMAIN rs : by(a) = rs[j].c /\ Mutates(rs[j].c) /\ a \in Blocks(rs[j].c)
      BY <1>2, <2>1
    <3>2. val'[a] = Text(rs[j].c, a)
      BY <1>1, <2>1, <3>1
    <3>3. val'[a] \in Texts /\ val'[a] # Junk
      BY <3>1, <3>2, TextIs DEF SysOK
    <3> QED BY <1>3, <2>1, <3>1, <3>2, <3>3 DEF Told
  <2>2. CASE a \notin acked
    BY <1>1, <2>2 DEF DataOK
  <2> QED BY <2>1, <2>2
<1>6. val' = [a \in Addrs |-> val'[a]]
  BY <1>1
<1> QED BY <1>5, <1>6

\* What a command leaves on the device.
LEMMA OverIs ==
    ASSUME DataOK, NEW w \in Writes
    PROVE  /\ Over(disk, w) \in [Addrs -> Sectors]
           /\ \A a \in Addrs : Over(disk, w)[a] = IF a \in DOMAIN w THEN w[a] ELSE disk[a]
<1>1. DOMAIN disk = Addrs /\ \A a \in Addrs : disk[a] \in Sectors
  BY DEF DataOK
<1> QED BY <1>1, WriteIs DEF Over

\* What the kernel writes for an entry.
LEMMA IoIs ==
    ASSUME SysOK, NEW e \in Entry, DOMAIN e.w = Blocks(e.tag[2]), NEW x \in IoResults(e)
    PROVE  /\ x.w \in Writes /\ DOMAIN x.w \subseteq Blocks(e.tag[2]) /\ x.res \in {-1, 0, 1}
           /\ x.w = e.w \/ x.res = -1 \/ (x.res = 0 /\ "short" \in dep.faults /\ Counted(e.tag[2]))
<1>1. e.w \in Writes /\ e.tag[2] \in dep.cmds
  BY DEF Entry
<1>2. PICK c \in dep.cmds : c = e.tag[2]
  BY <1>1
<1>3. ASSUME NEW p \in Partly(c, e.w) PROVE p \in Writes /\ DOMAIN p \subseteq Blocks(c)
  <2>1. PICK k : p = First(c, e.w, k)
    BY DEF Partly
  <2>2. PICK S : S = {b \in Blocks(c) : b[2] < c.slba + k}
    OBVIOUS
  <2>3. p = [a \in S |-> e.w[a]] /\ S \subseteq Blocks(c)
    BY <2>1, <2>2 DEF First
  <2>4. p \in [S -> Sectors] /\ S \in SUBSET Addrs
    BY <1>1, <1>2, <2>3, WriteIs
  <2> QED BY <2>3, <2>4 DEF Writes
<1>4. \/ x = [w |-> e.w, res |-> 1]
      \/ \E p \in Partly(c, e.w) : x = [w |-> p, res |-> -1]
      \/ "short" \in dep.faults /\ Counted(c) /\ \E p \in Partly(c, e.w) : x = [w |-> p, res |-> 0]
  BY <1>2 DEF IoResults, Faulty
<1> QED BY <1>1, <1>2, <1>3, <1>4

\* The types at the start.
LEMMA TypeInit == Init => TypeInv
<1> SUFFICES ASSUME Init PROVE TypeInv
  OBVIOUS
<1>1. SysOK
  BY DEF Init, SysOK
<1>2. NsqOK
  BY DEF Init, NsqOK
<1>3. DataOK
  <2>1. encrypt(Junk, Clear) \in Sectors /\ Unknown \in Texts
    BY SectorIs
  <2> QED BY <2>1 DEF Init, DataOK, Unknown, Junk
<1>4. RegsOK
  BY Counts DEF Init, RegsOK
<1>5. BurstOK
  <2>1. /\ batch = [t \in Workers |-> <<>>] /\ resps = [t \in Workers |-> <<>>] /\ pc = [t \in Workers |-> "poll"]
    BY DEF Init
  <2>2. ASSUME NEW t \in Workers PROVE BurstAt(t, pc[t], at[t], batch[t], resps[t])
    <3>1. pc[t] = "poll" /\ batch[t] = <<>> /\ resps[t] = <<>>
      BY <2>1
    <3>2. Len(<<>>) = 0 /\ DOMAIN <<>> = {}
      OBVIOUS
    <3> QED BY <3>1, <3>2, Counts DEF BurstAt
  <2>3. batch \in [Workers -> Seq(dep.cmds)] /\ resps \in [Workers -> Seq(Response)]
    BY <2>1
  <2> QED BY <2>2, <2>3 DEF BurstOK
<1>6. UringOK
  BY DEF Init, UringOK
<1> QED BY <1>1, <1>2, <1>3, <1>4, <1>5, <1>6 DEF TypeInv

\* The guest issues a command: the types.
LEMMA TypeIssue == ASSUME TypeInv, NEW c, Issue(c) PROVE TypeInv'
<1>1. dep' = dep /\ c \in dep.cmds /\ dep \in Deployments
  BY DEF Issue, TypeInv, SysOK
<1>2. c.q \in Queues
  BY <1>1, CommandIs
<1>3. NsqOK'
  <2>1. PICK s : s = Append(nsq[c.q], c)
    OBVIOUS
  <2>2. s \in Seq(dep.cmds) /\ \A i \in DOMAIN s : s[i].q = c.q
    <3>1. PICK r \in Seq(dep.cmds) : r = nsq[c.q]
      BY <1>2 DEF TypeInv, NsqOK
    <3>2. \A i \in DOMAIN r : r[i].q = c.q
      BY <1>2, <3>1 DEF TypeInv, NsqOK
    <3>3. PICK S : S = {d \in dep.cmds : d.q = c.q}
      OBVIOUS
    <3>4. r \in Seq(S)
      BY <3>2, <3>3, SeqOf
    <3>5. s = Append(r, c) /\ c \in S
      BY <1>1, <2>1, <3>1, <3>3
    <3>6. s \in Seq(S)
      BY <3>4, <3>5
    <3>7. s \in Seq(dep.cmds)
      BY <1>1, <3>5
    <3> QED BY <3>3, <3>6, <3>7, SeqOf
  <2>3. nsq' = [nsq EXCEPT ![c.q] = s]
    BY <2>1 DEF Issue
  <2> QED BY <1>1, <1>2, <2>2, <2>3 DEF TypeInv, NsqOK
<1>4. DataOK'
  <2>1. disk' = disk
    BY DEF Issue
  <2>2. CASE val' = val
    BY <1>1, <2>1, <2>2, Frames DEF TypeInv
  <2>3. CASE val' = Over(val, [a \in Blocks(c) |-> Unknown])
    <3>1. val' \in [Addrs -> Texts \ {Junk}]
      BY <2>3, SectorIs DEF TypeInv, DataOK, Over, Unknown, Junk
    <3> QED BY <1>1, <2>1, <3>1, Static DEF TypeInv, DataOK
  <2> QED BY <2>2, <2>3 DEF Issue
<1>5. SysOK' /\ RegsOK' /\ BurstOK' /\ UringOK'
  <2>1. up' = up /\ todo' \subseteq todo /\ up \in BOOLEAN
    BY DEF Issue, TypeInv, SysOK
  <2> QED BY <1>1, <2>1, Frames DEF TypeInv, Issue, workerVars, uringVars
<1> QED BY <1>3, <1>4, <1>5 DEF TypeInv

\* Another pass: the types.
LEMMA TypeAgain == ASSUME TypeInv, NEW t \in Workers, Again(t) PROVE TypeInv'
<1>1. dep' = dep /\ up' = up /\ todo' = todo /\ up \in BOOLEAN /\ nsq' = nsq /\ disk' = disk /\ val' = val
      /\ sq' = sq /\ ring' = ring /\ done' = done
  BY DEF Again, guestVars, uringVars, TypeInv, SysOK
<1>2. PICK n : n = IF loop.async THEN ntry[t] + 1 ELSE ntry[t]
  OBVIOUS
<1>3. n \in 0 .. BusyLoops - 1
  <2>1. ntry[t] \in 0 .. BusyLoops - 1 /\ BusyLoops \in Nat
    BY Counts DEF TypeInv, RegsOK
  <2> QED BY <1>2, <2>1 DEF Again
<1>4. Moves(t, pc[t], 1, n, succeeded[t], encdirty[t], batch[t], resps[t])
  <2>1. ntry' = [ntry EXCEPT ![t] = n]
    BY <1>2 DEF Again, TypeInv, RegsOK
  <2> QED BY <2>1 DEF Again, Moves, TypeInv, RegsOK, BurstOK
<1>5. MayMove(t, pc[t], 1, n, succeeded[t], encdirty[t], batch[t], resps[t])
  <2>1. pc[t] = "poll" /\ BurstAt(t, pc[t], at[t], batch[t], resps[t])
    BY DEF Again, TypeInv, BurstOK
  <2>2. BurstAt(t, pc[t], 1, batch[t], resps[t])
    BY <2>1, IdleBurst, SMTT(30)
  <2> QED BY <1>3, <2>1, <2>2, Counts DEF MayMove, TypeInv, RegsOK, BurstOK
<1>6. RegsOK' /\ BurstOK'
  BY <1>1, <1>4, <1>5, WorkerStep
<1>7. SysOK' /\ NsqOK' /\ DataOK' /\ UringOK'
  BY <1>1, Frames DEF TypeInv
<1> QED BY <1>6, <1>7 DEF TypeInv

\* A worker starts its next round: the types.
LEMMA TypeNextRound == ASSUME TypeInv, NEW t \in Workers, NextRound(t) PROVE TypeInv'
<1>1. dep' = dep /\ up' = up /\ todo' = todo /\ up \in BOOLEAN /\ nsq' = nsq /\ disk' = disk /\ val' = val
      /\ sq' = sq /\ ring' = ring /\ done' = done
  BY DEF NextRound, guestVars, uringVars, TypeInv, SysOK
<1>4. Moves(t, "poll", 1, 0, FALSE, encdirty[t], batch[t], resps[t])
  BY DEF NextRound, Moves, TypeInv, RegsOK, BurstOK
<1>5. MayMove(t, "poll", 1, 0, FALSE, encdirty[t], batch[t], resps[t])
  <2>1. pc[t] = "reap" /\ BurstAt(t, pc[t], at[t], batch[t], resps[t])
    BY DEF NextRound, TypeInv, BurstOK
  <2>2. BurstAt(t, "poll", 1, batch[t], resps[t])
    BY <2>1, IdleBurst
  <2> QED BY <2>1, <2>2, Counts DEF MayMove, TypeInv, RegsOK, BurstOK
<1>6. RegsOK' /\ BurstOK'
  BY <1>1, <1>4, <1>5, WorkerStep
<1>7. SysOK' /\ NsqOK' /\ DataOK' /\ UringOK'
  BY <1>1, Frames DEF TypeInv
<1> QED BY <1>6, <1>7 DEF TypeInv

\* The queue a worker is at.
LEMMA TypePoll == ASSUME TypeInv, NEW t \in Workers, Poll(t) PROVE TypeInv'
<1>1. dep' = dep /\ up' = up /\ todo' = todo /\ up \in BOOLEAN /\ disk' = disk /\ val' = val
      /\ sq' = sq /\ ring' = ring /\ done' = done /\ ntry' = ntry /\ resps' = resps /\ encdirty' = encdirty
  BY DEF Poll, guestVars, uringVars, TypeInv, SysOK
<1>2. /\ pc[t] = "poll" /\ BurstAt(t, pc[t], at[t], batch[t], resps[t]) /\ at[t] \in 1 .. NQ + 1
      /\ at[t] <= Len(sqids(t)) /\ dep \in Deployments
  BY DEF Poll, TypeInv, BurstOK, RegsOK, SysOK
<1>3. at[t] \in DOMAIN sqids(t) /\ at[t] + 1 \in 1 .. NQ + 1
  BY <1>2, WorkerIs, Counts, SMTT(30)
<1>4. PICK q \in Queues : q = sqids(t)[at[t]]
  BY <1>2, <1>3, WorkerIs
<1>5. PICK s \in Seq(dep.cmds) : s = nsq[q] /\ \A i \in DOMAIN s : s[i].q = q
  BY DEF TypeInv, NsqOK
<1>6. PICK n \in 0 .. Len(s) : n = IF Len(s) < Burst THEN Len(s) ELSE Burst
  BY Counts
<1>7. batch[t] = <<>> /\ resps[t] = <<>>
  BY <1>2, IdleBurst
<1>8. CASE n = 0 /\ at' = [at EXCEPT ![t] = @ + 1] /\ UNCHANGED <<pc, succeeded, batch, nsq>>
  <2>1. Moves(t, pc[t], at[t] + 1, ntry[t], succeeded[t], encdirty[t], batch[t], resps[t])
    BY <1>1, <1>8 DEF Moves, TypeInv, RegsOK, BurstOK
  <2>2. MayMove(t, pc[t], at[t] + 1, ntry[t], succeeded[t], encdirty[t], batch[t], resps[t])
    BY <1>2, <1>3, <1>7, IdleBurst DEF MayMove, TypeInv, RegsOK, BurstOK
  <2>3. RegsOK' /\ BurstOK'
    BY <1>1, <2>1, <2>2, WorkerStep
  <2>4. SysOK' /\ NsqOK' /\ DataOK' /\ UringOK'
    BY <1>1, <1>8, Frames DEF TypeInv
  <2> QED BY <2>3, <2>4 DEF TypeInv
<1>9. CASE /\ n > 0 /\ succeeded' = [succeeded EXCEPT ![t] = TRUE]
           /\ batch' = [batch EXCEPT ![t] = SubSeq(nsq[q], 1, n)]
           /\ nsq' = [nsq EXCEPT ![q] = SubSeq(@, n + 1, Len(@))]
           /\ pc' = [pc EXCEPT ![t] = "handle"] /\ UNCHANGED at
  <2>1. PICK S : S = {d \in dep.cmds : d.q = q}
    OBVIOUS
  <2>2. s \in Seq(S)
    BY <1>5, <2>1, SeqOf
  <2>3. PICK b : b = SubSeq(s, 1, n)
    OBVIOUS
  <2>4. PICK z : z = SubSeq(s, n + 1, Len(s))
    OBVIOUS
  <2>5. b \in Seq(S) /\ z \in Seq(S) /\ Len(b) = n
    BY <2>2, <2>3, <2>4, CutIs
  <2>6. b \in Seq(dep.cmds) /\ z \in Seq(dep.cmds)
    BY <2>3, <2>4, CutIs
  <2>7. (\A i \in DOMAIN b : b[i].q = q) /\ (\A i \in DOMAIN z : z[i].q = q)
    BY <2>1, <2>5, <2>6, SeqOf
  <2>8. n \in Nat /\ n <= Burst
    BY <1>6, Counts
  <2>9. BurstAt(t, "handle", at[t], b, <<>>)
    <3>1. Len(<<>>) = 0 /\ DOMAIN <<>> = {} /\ b # <<>>
      BY <1>9, <2>5
    <3> QED BY <1>4, <2>5, <2>7, <2>8, <3>1 DEF BurstAt
  <2>10. Moves(t, "handle", at[t], ntry[t], TRUE, encdirty[t], b, resps[t])
    BY <1>1, <1>5, <1>9, <2>3 DEF Moves, TypeInv, RegsOK, BurstOK
  <2>11. MayMove(t, "handle", at[t], ntry[t], TRUE, encdirty[t], b, resps[t])
    BY <1>2, <1>3, <1>7, <2>6, <2>9 DEF MayMove, TypeInv, RegsOK, BurstOK
  <2>12. RegsOK' /\ BurstOK'
    BY <1>1, <2>10, <2>11, WorkerStep
  <2>13. NsqOK'
    <3>1. nsq' = [nsq EXCEPT ![q] = z]
      BY <1>5, <1>9, <2>4
    <3> QED BY <1>1, <2>6, <2>7, <3>1 DEF TypeInv, NsqOK
  <2>14. SysOK' /\ DataOK' /\ UringOK'
    BY <1>1, Frames, SMTT(30) DEF TypeInv
  <2> QED BY <2>12, <2>13, <2>14 DEF TypeInv
<1>10. \/ n = 0 /\ at' = [at EXCEPT ![t] = @ + 1] /\ UNCHANGED <<pc, succeeded, batch, nsq>>
       \/ /\ n > 0 /\ succeeded' = [succeeded EXCEPT ![t] = TRUE]
          /\ batch' = [batch EXCEPT ![t] = SubSeq(nsq[q], 1, n)]
          /\ nsq' = [nsq EXCEPT ![q] = SubSeq(@, n + 1, Len(@))]
          /\ pc' = [pc EXCEPT ![t] = "handle"] /\ UNCHANGED at
  BY <1>4, <1>5, <1>6 DEF Poll
<1> QED BY <1>8, <1>9, <1>10

\* A worker in the middle of a burst.
LEMMA Handling ==
    ASSUME TypeInv, NEW t \in Workers, pc[t] = "handle", batch[t] # <<>>
    PROVE  /\ dep \in Deployments /\ at[t] \in DOMAIN sqids(t) /\ sqids(t)[at[t]] \in Queues
           /\ BurstAt(t, "handle", at[t], batch[t], resps[t])
           /\ Head(batch[t]) \in dep.cmds /\ Head(batch[t]).q = sqids(t)[at[t]]
           /\ Tail(batch[t]) \in Seq(dep.cmds) /\ Len(batch[t]) \in Nat \ {0}
           /\ Len(Tail(batch[t])) = Len(batch[t]) - 1
           /\ \A i \in DOMAIN Tail(batch[t]) : Tail(batch[t])[i].q = sqids(t)[at[t]]
           /\ at[t] + 1 \in 1 .. NQ + 1 /\ at[t] \in 1 .. NQ + 1
<1>1. /\ dep \in Deployments /\ at[t] \in DOMAIN sqids(t) /\ BurstAt(t, "handle", at[t], batch[t], resps[t])
      /\ batch[t] \in Seq(dep.cmds) /\ at[t] \in 1 .. NQ + 1
  BY DEF TypeInv, SysOK, RegsOK, BurstOK
<1>2. PICK q : q = sqids(t)[at[t]]
  OBVIOUS
<1>3. q \in Queues /\ at[t] + 1 \in 1 .. NQ + 1
  BY <1>1, <1>2, WorkerIs, Counts, SMTT(30)
<1>4. PICK S : S = {d \in dep.cmds : d.q = q}
  OBVIOUS
<1>5. PICK b \in Seq(dep.cmds) : b = batch[t]
  BY <1>1
<1>6. b \in Seq(S) /\ b # <<>>
  <2>1. \A i \in DOMAIN b : b[i].q = q
    BY <1>1, <1>2, <1>5 DEF BurstAt
  <2> QED BY <1>4, <1>5, <2>1, SeqOf
<1>7. Head(b) \in S /\ Tail(b) \in Seq(S) /\ Len(b) \in Nat \ {0} /\ Len(Tail(b)) = Len(b) - 1
  BY <1>6
<1>8. Tail(b) \in Seq(dep.cmds)
  BY <1>6
<1>9. \A i \in DOMAIN Tail(b) : Tail(b)[i].q = q
  <2>1. PICK z : z = Tail(b)
    OBVIOUS
  <2>2. z \in Seq(S) /\ z \in Seq(dep.cmds)
    BY <1>7, <1>8, <2>1
  <2>3. \A i \in DOMAIN z : z[i].q = q
    BY <1>4, <2>2, SeqOf
  <2> QED BY <2>1, <2>3
<1> QED BY <1>1, <1>2, <1>3, <1>4, <1>5, <1>7, <1>8, <1>9

\* A synchronous worker handles a command: the types.
LEMMA TypeReceive == ASSUME TypeInv, NEW t \in Workers, Receive(t) PROVE TypeInv'
<1>1. dep' = dep /\ up' = up /\ todo' = todo /\ up \in BOOLEAN /\ nsq' = nsq /\ val' = val
      /\ sq' = sq /\ ring' = ring /\ done' = done /\ ntry' = ntry /\ pc' = pc /\ at' = at /\ succeeded' = succeeded
      /\ pc[t] = "handle" /\ batch[t] # <<>> /\ ~loop.async
  BY DEF Receive, uringVars, TypeInv, SysOK
<1>2. PICK c : c = Head(batch[t])
  OBVIOUS
<1>3. PICK q : q = sqids(t)[at[t]]
  OBVIOUS
<1>4. PICK b : b = Tail(batch[t])
  OBVIOUS
<1>5. /\ dep \in Deployments /\ at[t] \in DOMAIN sqids(t) /\ q \in Queues
      /\ BurstAt(t, "handle", at[t], batch[t], resps[t])
      /\ c \in dep.cmds /\ c.q = q /\ b \in Seq(dep.cmds) /\ Len(batch[t]) \in Nat \ {0} /\ Len(b) = Len(batch[t]) - 1
      /\ \A i \in DOMAIN b : b[i].q = q
  BY <1>1, <1>2, <1>3, <1>4, Handling
<1>6. PICK o \in Outcomes(t, c) :
         /\ resps' = [resps EXCEPT ![t] = Append(@, [q |-> q, c |-> c, st |-> o.st])]
         /\ IF c.op = "read"
              THEN buf' = [buf EXCEPT ![c.id] = Over(@, o.w)] /\ UNCHANGED disk
              ELSE disk' = Over(disk, o.w) /\ UNCHANGED buf
  BY <1>2, <1>3 DEF Receive
<1>7. Typed(c, o)
  BY <1>5, OutcomeIs
<1>8. PICK d : d = IF dep.prog = "encryptor_sgx" /\ Dirtied(c) > encdirty[t] THEN Dirtied(c) ELSE encdirty[t]
  OBVIOUS
<1>9. d \in 0 .. Cardinality(Lbas) /\ encdirty' = [encdirty EXCEPT ![t] = d]
  <2>1. Dirtied(c) \in 0 .. Cardinality(Lbas)
    BY <1>5, CommandIs, Counts DEF Dirtied
  <2>2. encdirty[t] \in 0 .. Cardinality(Lbas) /\ encdirty \in [Workers -> 0 .. Cardinality(Lbas)]
    BY DEF TypeInv, RegsOK
  <2>3. encdirty' = IF dep.prog = "encryptor_sgx" /\ Dirtied(c) > encdirty[t]
                     THEN [encdirty EXCEPT ![t] = Dirtied(c)] ELSE encdirty
    BY <1>2 DEF Receive
  <2> QED BY <1>8, <2>1, <2>2, <2>3
<1>10. PICK x : x = [q |-> q, c |-> c, st |-> o.st]
  OBVIOUS
<1>11. PICK r : r = Append(resps[t], x)
  OBVIOUS
<1>12. /\ r \in Seq(Response) /\ Len(r) = Len(resps[t]) + 1 /\ Len(resps[t]) \in Nat
       /\ \A k \in DOMAIN r : r[k].q = q /\ r[k].c.q = q
  <2>1. PICK S : S = {y \in Response : y.q = q /\ y.c.q = q}
    OBVIOUS
  <2>2. x \in S /\ x \in Response
    BY <1>5, <1>7, <1>10, <2>1 DEF Response, Typed
  <2>3. PICK y \in Seq(Response) : y = resps[t]
    BY DEF TypeInv, BurstOK
  <2>4. \A k \in DOMAIN y : y[k].q = q /\ y[k].c.q = q
    BY <1>3, <1>5, <2>3 DEF BurstAt
  <2>5. \A k \in DOMAIN y : y[k] \in S
    BY <2>1, <2>3, <2>4
  <2>6. y \in Seq(S)
    BY <2>5, SeqOf
  <2>7. r \in Seq(S) /\ Len(r) = Len(y) + 1 /\ Len(y) \in Nat
    BY <1>11, <2>2, <2>3, <2>6
  <2>8. r \in Seq(Response)
    BY <1>11, <2>2, <2>3
  <2> QED BY <2>1, <2>3, <2>7, <2>8, SeqOf
<1>13. BurstAt(t, "handle", at[t], b, r)
  <2>1. Len(batch[t]) + Len(resps[t]) <= Burst
    BY <1>5 DEF BurstAt
  <2>2. Len(b) + Len(r) <= Burst
    <3>1. PICK m \in Nat \ {0} : m = Len(batch[t]) /\ Len(b) = m - 1
      BY <1>5
    <3>2. PICK k \in Nat : k = Len(resps[t]) /\ Len(r) = k + 1
      BY <1>12
    <3>5. (m - 1) + (k + 1) = m + k
      OBVIOUS
    <3>3. Len(b) + Len(r) = m + k
      BY <3>1, <3>2, <3>5, Zenon
    <3>4. m + k <= Burst
      BY <2>1, <3>1, <3>2, Zenon
    <3> QED BY <3>3, <3>4, Zenon
  <2> QED BY <1>1, <1>3, <1>5, <1>12, <2>2 DEF BurstAt
<1>14. Moves(t, pc[t], at[t], ntry[t], succeeded[t], d, b, r)
  <2>1. batch' = [batch EXCEPT ![t] = b] /\ resps' = [resps EXCEPT ![t] = r]
    BY <1>4, <1>6, <1>10, <1>11 DEF Receive, TypeInv, BurstOK
  <2> QED BY <1>1, <1>9, <2>1 DEF Moves, TypeInv, RegsOK
<1>15. MayMove(t, pc[t], at[t], ntry[t], succeeded[t], d, b, r)
  BY <1>1, <1>5, <1>9, <1>12, <1>13 DEF MayMove, TypeInv, RegsOK
<1>16. RegsOK' /\ BurstOK'
  BY <1>1, <1>14, <1>15, WorkerStep
<1>17. DataOK'
  <2>1. CASE c.op = "read"
    BY <1>1, <1>6, <2>1, Frames DEF TypeInv
  <2>2. CASE c.op # "read"
    <3>1. o.w \in Writes
      BY <1>7, <2>2 DEF Typed
    <3>2. disk' \in [Addrs -> Sectors]
      BY <1>6, <2>2, <3>1, OverIs DEF TypeInv
    <3> QED BY <1>1, <3>2, Static DEF TypeInv, DataOK
  <2> QED BY <2>1, <2>2
<1>18. SysOK' /\ NsqOK' /\ UringOK'
  BY <1>1, Frames DEF TypeInv
<1> QED BY <1>16, <1>17, <1>18 DEF TypeInv

\* A worker posts its responses: the types.
LEMMA TypeProduce == ASSUME TypeInv, NEW t \in Workers, Produce(t) PROVE TypeInv'
<1>1. dep' = dep /\ up' = up /\ todo' = todo /\ up \in BOOLEAN /\ nsq' = nsq /\ disk' = disk
      /\ sq' = sq /\ ring' = ring /\ done' = done /\ ntry' = ntry /\ succeeded' = succeeded /\ encdirty' = encdirty
      /\ batch' = batch /\ pc[t] = "handle" /\ batch[t] = <<>> /\ dep \in Deployments
  BY DEF Produce, uringVars, TypeInv, SysOK
<1>2. at[t] + 1 \in 1 .. NQ + 1
  <2>1. at[t] \in DOMAIN sqids(t)
    BY <1>1 DEF TypeInv, RegsOK
  <2> QED BY <1>1, <2>1, WorkerIs, Counts, SMTT(30)
<1>3. Moves(t, "poll", at[t] + 1, ntry[t], succeeded[t], encdirty[t], batch[t], <<>>)
  BY <1>1 DEF Produce, Moves, TypeInv, RegsOK, BurstOK
<1>4. MayMove(t, "poll", at[t] + 1, ntry[t], succeeded[t], encdirty[t], batch[t], <<>>)
  BY <1>1, <1>2, IdleBurst DEF MayMove, TypeInv, RegsOK, BurstOK
<1>5. RegsOK' /\ BurstOK'
  BY <1>1, <1>3, <1>4, WorkerStep
<1>6. DataOK'
  <2>1. \A i \in DOMAIN resps[t] : resps[t][i].c \in dep.cmds
    <3>1. PICK r \in Seq(Response) : r = resps[t]
      BY DEF TypeInv, BurstOK
    <3>2. \A i \in DOMAIN r : r[i] \in Response
      BY <3>1
    <3> QED BY <3>1, <3>2 DEF Response
  <2>2. val' \in [Addrs -> Texts \ {Junk}]
    BY <1>1, <2>1, PostVal DEF Produce, TypeInv
  <2> QED BY <1>1, <2>2, Static DEF DataOK, TypeInv
<1>7. SysOK' /\ NsqOK' /\ UringOK'
  BY <1>1, Frames DEF TypeInv
<1> QED BY <1>5, <1>6, <1>7 DEF TypeInv

\* An asynchronous worker submits a command: the types.
LEMMA TypeSubmit == ASSUME TypeInv, NEW t \in Workers, Submit(t) PROVE TypeInv'
<1>1. dep' = dep /\ todo' = todo /\ up \in BOOLEAN /\ nsq' = nsq /\ disk' = disk
      /\ ring' = ring /\ done' = done /\ ntry' = ntry /\ succeeded' = succeeded /\ encdirty' = encdirty
      /\ resps' = resps /\ pc[t] = "handle" /\ loop.async
  BY DEF Submit, TypeInv, SysOK
<1>2. PICK c : c = Head(batch[t])
  OBVIOUS
<1>3. PICK q : q = sqids(t)[at[t]]
  OBVIOUS
<1>4. PICK b : b = Tail(batch[t])
  OBVIOUS
<1>5. batch[t] # <<>> /\ resps[t] = <<>>
  BY <1>1 DEF TypeInv, BurstOK, BurstAt
<1>6. /\ dep \in Deployments /\ at[t] \in DOMAIN sqids(t) /\ q \in Queues
      /\ BurstAt(t, "handle", at[t], batch[t], resps[t])
      /\ c \in dep.cmds /\ c.q = q /\ b \in Seq(dep.cmds) /\ Len(batch[t]) \in Nat \ {0} /\ Len(b) = Len(batch[t]) - 1
      /\ (\A i \in DOMAIN b : b[i].q = q) /\ at[t] + 1 \in 1 .. NQ + 1 /\ at[t] \in 1 .. NQ + 1
  BY <1>1, <1>2, <1>3, <1>4, <1>5, Handling
<1>7. PICK p : p = IF Len(batch[t]) = 1 THEN "poll" ELSE "handle"
  OBVIOUS
<1>8. PICK i : i = IF Len(batch[t]) = 1 THEN at[t] + 1 ELSE at[t]
  OBVIOUS
<1>9. Moves(t, p, i, ntry[t], succeeded[t], encdirty[t], b, resps[t])
  <2>1. pc' = [pc EXCEPT ![t] = p] /\ at' = [at EXCEPT ![t] = i] /\ batch' = [batch EXCEPT ![t] = b]
    BY <1>1, <1>4, <1>7, <1>8 DEF Submit, TypeInv, RegsOK, BurstOK
  <2> QED BY <1>1, <2>1 DEF Moves, TypeInv, RegsOK, BurstOK
<1>10. BurstAt(t, p, i, b, resps[t])
  <2>1. CASE Len(batch[t]) = 1
    <3>1. Len(b) = 0
      BY <1>6, <2>1
    <3>2. b = <<>>
      BY <1>6, <3>1
    <3> QED BY <1>5, <1>7, <2>1, <3>2, IdleBurst
  <2>2. CASE Len(batch[t]) # 1
    <3>0. PICK m \in Nat \ {0} : m = Len(batch[t]) /\ Len(b) = m - 1 /\ m # 1
      BY <1>6, <2>2
    <3>1. m - 1 # 0
      BY <3>0
    <3>2. b # <<>>
      <4>1. Len(<<>>) = 0
        OBVIOUS
      <4> QED BY <3>0, <3>1, <4>1, Zenon
    <3>3. Len(b) + Len(<<>>) <= Burst
      <4>0. Len(<<>>) = 0
        OBVIOUS
      <4>1. Len(batch[t]) + Len(<<>>) <= Burst
        BY <1>5, <1>6, Zenon DEF BurstAt
      <4>2. m + 0 <= Burst
        BY <3>0, <4>0, <4>1, Zenon
      <4>3. (m - 1) + 0 <= Burst
        BY <4>2, Counts
      <4> QED BY <3>0, <4>0, <4>3, Zenon
    <3> QED BY <1>3, <1>5, <1>6, <1>7, <1>8, <2>2, <3>2, <3>3 DEF BurstAt
  <2> QED BY <2>1, <2>2
<1>11. MayMove(t, p, i, ntry[t], succeeded[t], encdirty[t], b, resps[t])
  <2>1. p = "handle" => i \in DOMAIN sqids(t)
    BY <1>6, <1>7, <1>8
  <2>2. p \in {"poll", "handle", "reap"} /\ i \in 1 .. NQ + 1
    BY <1>6, <1>7, <1>8
  <2> QED BY <1>6, <1>10, <2>1, <2>2 DEF MayMove, TypeInv, RegsOK, BurstOK
<1>12. RegsOK' /\ BurstOK'
  BY <1>1, <1>9, <1>11, WorkerStep
<1>13. NsqOK'
  BY <1>1, Frames DEF TypeInv
<1>14. PICK o \in Outcomes(t, c) :
         \/ /\ o.how = "queue"
            /\ sq' = [sq EXCEPT ![RingOf(t, q)] =
                         Append(@, [t |-> t, tag |-> make_tag(at[t], c), w |-> o.w])]
            /\ UNCHANGED <<up, ans, buf, val>>
         \/ /\ o.how = "reply"
            /\ Post(<<[q |-> q, c |-> c, st |-> o.st]>>)
            /\ buf' = IF c.op = "read" THEN [buf EXCEPT ![c.id] = Over(@, o.w)] ELSE buf
            /\ UNCHANGED <<up, sq>>
         \/ /\ o.how = "throw"
            /\ up' = FALSE
            /\ UNCHANGED <<sq, ans, buf, val>>
  BY <1>2, <1>3 DEF Submit
<1>15. Typed(c, o)
  BY <1>6, OutcomeIs
<1>16. CASE /\ o.how = "queue"
            /\ sq' = [sq EXCEPT ![RingOf(t, q)] =
                         Append(@, [t |-> t, tag |-> make_tag(at[t], c), w |-> o.w])]
            /\ UNCHANGED <<up, ans, buf, val>>
  <2>1. PICK e : e = [t |-> t, tag |-> make_tag(at[t], c), w |-> o.w]
    OBVIOUS
  <2>2. PICK r : r = RingOf(t, q)
    OBVIOUS
  <2>3. r \in AllRings
    BY <1>6, <2>2, RingsIs
  <2>4. e.t = t /\ e.tag = <<at[t], c>> /\ e.w = o.w /\ e.tag[1] = at[t] /\ e.tag[2] = c
    BY <2>1 DEF make_tag
  <2>5. o.w \in Writes /\ DOMAIN o.w = Blocks(c) /\ c.op # "read"
    BY <1>15, <1>16 DEF Typed
  <2>6. e \in Entry
    BY <1>6, <2>1, <2>5 DEF Entry, make_tag
  <2>7. Home(c) = t
    BY <1>3, <1>6, WorkerIs DEF Home
  <2>8. EntryOK(r, e)
    BY <1>1, <1>3, <1>6, <2>2, <2>4, <2>5, <2>7 DEF EntryOK, TagOK
  <2>9. PICK s : s = Append(sq[r], e)
    OBVIOUS
  <2>10. s \in Seq(Entry) /\ \A k \in DOMAIN s : EntryOK(r, s[k])
    <3>1. PICK y \in Seq(Entry) : y = sq[r]
      BY <2>3 DEF TypeInv, UringOK
    <3>2. PICK S : S = {f \in Entry : EntryOK(r, f)}
      OBVIOUS
    <3>3. \A k \in DOMAIN y : y[k] \in S
      BY <2>3, <3>1, <3>2 DEF TypeInv, UringOK
    <3>4. y \in Seq(S) /\ e \in S
      BY <2>6, <2>8, <3>2, <3>3, SeqOf
    <3>5. s \in Seq(S)
      BY <2>9, <3>1, <3>4
    <3>6. s \in Seq(Entry)
      BY <2>6, <2>9, <3>1
    <3> QED BY <3>2, <3>5, <3>6, SeqOf
  <2>11. sq' = [sq EXCEPT ![r] = s]
    BY <1>16, <2>1, <2>2, <2>9 DEF TypeInv, UringOK
  <2>12. UringOK'
    <3>1. sq' \in [AllRings -> Seq(Entry)] /\ \A x \in AllRings : \A k \in DOMAIN sq'[x] : EntryOK(x, sq'[x][k])
      BY <2>3, <2>10, <2>11 DEF TypeInv, UringOK
    <3> QED BY <1>1, <3>1, Static, StaticShapes DEF TypeInv, UringOK, AllRings
  <2>13. SysOK' /\ DataOK'
    BY <1>1, <1>16, Frames DEF TypeInv
  <2> QED BY <1>12, <1>13, <2>12, <2>13 DEF TypeInv
<1>17. CASE /\ o.how = "reply"
            /\ Post(<<[q |-> q, c |-> c, st |-> o.st]>>)
            /\ UNCHANGED <<up, sq>>
  <2>1. PICK rs : rs = <<[q |-> q, c |-> c, st |-> o.st]>>
    OBVIOUS
  <2>2. \A k \in DOMAIN rs : rs[k].c \in dep.cmds
    BY <1>6, <2>1
  <2>3. val' \in [Addrs -> Texts \ {Junk}]
    BY <1>1, <1>17, <2>1, <2>2, PostVal DEF TypeInv
  <2>4. DataOK'
    BY <1>1, <2>3, Static DEF DataOK, TypeInv
  <2>5. SysOK' /\ UringOK'
    BY <1>1, <1>17, Frames DEF TypeInv
  <2> QED BY <1>12, <1>13, <2>4, <2>5 DEF TypeInv
<1>18. CASE up' = FALSE /\ UNCHANGED <<sq, ans, buf, val>>
  <2>1. SysOK' /\ DataOK' /\ UringOK'
    BY <1>1, <1>18, Frames DEF TypeInv
  <2> QED BY <1>12, <1>13, <2>1 DEF TypeInv
<1> QED BY <1>14, <1>16, <1>17, <1>18

\* A worker submits what was prepared: the types.
LEMMA TypeKick == ASSUME TypeInv, NEW t \in Workers, Kick(t) PROVE TypeInv'
<1>1. dep' = dep /\ up' = up /\ todo' = todo /\ up \in BOOLEAN /\ nsq' = nsq /\ disk' = disk /\ val' = val
      /\ done' = done /\ ntry' = ntry /\ succeeded' = succeeded /\ encdirty' = encdirty /\ batch' = batch
      /\ resps' = resps /\ pc[t] = "poll"
  BY DEF Kick, guestVars, TypeInv, SysOK
<1>2. batch[t] = <<>> /\ resps[t] = <<>>
  BY <1>1, IdleBurst DEF TypeInv, BurstOK
<1>3. Moves(t, "reap", 1, ntry[t], succeeded[t], encdirty[t], batch[t], resps[t])
  BY <1>1 DEF Kick, Moves, TypeInv, RegsOK, BurstOK
<1>4. MayMove(t, "reap", 1, ntry[t], succeeded[t], encdirty[t], batch[t], resps[t])
  BY <1>2, IdleBurst, Counts DEF MayMove, TypeInv, RegsOK, BurstOK
<1>5. RegsOK' /\ BurstOK'
  BY <1>1, <1>3, <1>4, WorkerStep
<1>6. UringOK'
  <2>1. PICK S : S = Kicked(t)
    OBVIOUS
  <2>2. /\ ring' = [r \in AllRings |-> IF r \in S THEN ring[r] \union {sq[r][i] : i \in DOMAIN sq[r]} ELSE ring[r]]
        /\ sq' = [r \in AllRings |-> IF r \in S THEN <<>> ELSE sq[r]]
    BY <2>1 DEF Kick, TypeInv, UringOK
  <2>3. ASSUME NEW r \in AllRings
        PROVE  /\ sq'[r] \in Seq(Entry) /\ ring'[r] \in SUBSET Entry
               /\ \A i \in DOMAIN sq'[r] : EntryOK(r, sq'[r][i])
               /\ \A e \in ring'[r] : EntryOK(r, e)
    <3>1. PICK y \in Seq(Entry) : y = sq[r] /\ \A i \in DOMAIN y : EntryOK(r, y[i])
      BY DEF TypeInv, UringOK
    <3>2. \A i \in DOMAIN y : y[i] \in Entry
      BY <3>1
    <3>3. ring[r] \subseteq Entry /\ \A e \in ring[r] : EntryOK(r, e)
      BY DEF TypeInv, UringOK
    <3>4. CASE r \in S
      <4>1. sq'[r] = <<>> /\ ring'[r] = ring[r] \union {y[i] : i \in DOMAIN y}
        BY <2>2, <3>1, <3>4
      <4>2. <<>> \in Seq(Entry) /\ DOMAIN <<>> = {}
        OBVIOUS
      <4> QED BY <3>1, <3>2, <3>3, <4>1, <4>2
    <3>5. CASE r \notin S
      BY <2>2, <3>1, <3>3, <3>5
    <3> QED BY <3>4, <3>5
  <2>4. sq' \in [AllRings -> Seq(Entry)] /\ ring' \in [AllRings -> SUBSET Entry]
    BY <2>2, <2>3
  <2> QED BY <1>1, <2>3, <2>4, Static, StaticShapes DEF TypeInv, UringOK, AllRings
<1>7. SysOK' /\ NsqOK' /\ DataOK'
  BY <1>1, Frames DEF TypeInv
<1> QED BY <1>5, <1>6, <1>7 DEF TypeInv

\* The responses to the first n completions of a ring.
Reaped(t, r, n) ==
    [i \in 1 .. n |-> [q |-> sqids(t)[done[r][i].tag[1]], c |-> done[r][i].tag[2],
                       st |-> IF done[r][i].res < 0 THEN "internal" ELSE "ok"]]

\* A worker reads the completions of one of its rings.
LEMMA Reaping ==
    ASSUME TypeInv, NEW t \in Workers, Reap(t)
    PROVE  \E r \in AllRings : \E n \in 0 .. Len(done[r]) :
             /\ at[t] \in DOMAIN Rings(t) /\ r = Rings(t)[at[t]]
             /\ Post(Reaped(t, r, n))
             /\ done' = [done EXCEPT ![r] = SubSeq(@, n + 1, Len(@))]
             /\ done[r] \in Seq(Completion)
<1>1. dep \in Deployments /\ at[t] \in 1 .. NQ + 1 /\ at[t] <= Len(Rings(t))
  BY DEF TypeInv, SysOK, RegsOK, Reap
<1>2. at[t] \in DOMAIN Rings(t)
  BY <1>1, RingsIs, Counts
<1>3. PICK r \in AllRings : r = Rings(t)[at[t]]
  BY <1>1, <1>2, RingsIs
<1>4. PICK s \in Seq(Completion) : s = done[r]
  BY DEF TypeInv, UringOK
<1>5. PICK n \in 0 .. Len(s) : n = IF Len(s) < CqBurst THEN Len(s) ELSE CqBurst
  <2>1. PICK l \in Nat : l = Len(s)
    BY LenNat
  <2>2. CqBurst \in Nat
    BY Counts
  <2>3. (IF l < CqBurst THEN l ELSE CqBurst) \in 0 .. l
    BY <2>2
  <2> QED BY <2>1, <2>3
<1>6. Post(Reaped(t, r, n)) /\ done' = [done EXCEPT ![r] = SubSeq(@, n + 1, Len(@))]
  BY <1>3, <1>4, <1>5 DEF Reap, Reaped
<1> QED BY <1>2, <1>3, <1>4, <1>5, <1>6

\* A worker takes completions: the types.
LEMMA TypeReap == ASSUME TypeInv, NEW t \in Workers, Reap(t) PROVE TypeInv'
<1>1. dep' = dep /\ up' = up /\ todo' = todo /\ up \in BOOLEAN /\ nsq' = nsq /\ disk' = disk
      /\ sq' = sq /\ ring' = ring /\ ntry' = ntry /\ succeeded' = succeeded /\ encdirty' = encdirty /\ batch' = batch
      /\ resps' = resps /\ pc' = pc /\ pc[t] = "reap" /\ at' = [at EXCEPT ![t] = at[t] + 1] /\ dep \in Deployments
  BY DEF Reap, TypeInv, SysOK
<1>0. PICK r \in AllRings : \E n \in 0 .. Len(done[r]) :
             /\ at[t] \in DOMAIN Rings(t) /\ r = Rings(t)[at[t]]
             /\ Post(Reaped(t, r, n))
             /\ done' = [done EXCEPT ![r] = SubSeq(@, n + 1, Len(@))]
             /\ done[r] \in Seq(Completion)
  BY Reaping
<1>2. PICK n \in 0 .. Len(done[r]) :
             /\ at[t] \in DOMAIN Rings(t) /\ r = Rings(t)[at[t]]
             /\ Post(Reaped(t, r, n))
             /\ done' = [done EXCEPT ![r] = SubSeq(@, n + 1, Len(@))]
             /\ done[r] \in Seq(Completion)
  BY <1>0
<1>3. batch[t] = <<>> /\ resps[t] = <<>>
  BY <1>1, IdleBurst DEF TypeInv, BurstOK
<1>4. at[t] + 1 \in 1 .. NQ + 1
  <2>1. PICK m \in Nat : m <= NQ /\ DOMAIN Rings(t) = 1 .. m
    BY <1>1, RingsIs
  <2>2. PICK a \in 1 .. m : a = at[t]
    BY <1>2, <2>1
  <2>3. NQ \in Nat
    BY Counts
  <2>4. a + 1 \in 1 .. NQ + 1
    BY <2>1, <2>3
  <2> QED BY <2>2, <2>4
<1>5. Moves(t, pc[t], at[t] + 1, ntry[t], succeeded[t], encdirty[t], batch[t], resps[t])
  BY <1>1 DEF Moves, TypeInv, RegsOK, BurstOK
<1>6. MayMove(t, pc[t], at[t] + 1, ntry[t], succeeded[t], encdirty[t], batch[t], resps[t])
  BY <1>1, <1>3, <1>4, IdleBurst DEF MayMove, TypeInv, RegsOK, BurstOK
<1>7. RegsOK' /\ BurstOK'
  BY <1>1, <1>5, <1>6, WorkerStep
<1>8. PICK s \in Seq(Completion) : s = done[r]
  BY <1>2
<1>9. DataOK'
  <2>1. PICK rs : rs = Reaped(t, r, n)
    OBVIOUS
  <2>2. ASSUME NEW k \in DOMAIN rs PROVE rs[k].c \in dep.cmds
    <3>1. k \in 1 .. n /\ rs[k].c = s[k].tag[2]
      BY <1>8, <2>1 DEF Reaped
    <3>2. k \in DOMAIN s
      BY <1>2, <1>8, <3>1
    <3>3. s[k] \in Completion
      BY <3>2
    <3> QED BY <3>1, <3>3 DEF Completion
  <2>3. val' \in [Addrs -> Texts \ {Junk}]
    BY <1>1, <1>2, <2>1, <2>2, PostVal DEF TypeInv
  <2> QED BY <1>1, <2>3, Static DEF DataOK, TypeInv
<1>10. UringOK'
  <2>1. PICK z : z = SubSeq(s, n + 1, Len(s))
    OBVIOUS
  <2>2. PICK S : S = {x \in Completion : TagOK(r, x.tag)}
    OBVIOUS
  <2>3. s \in Seq(S)
    <3>1. \A k \in DOMAIN s : TagOK(r, s[k].tag)
      BY <1>8 DEF TypeInv, UringOK
    <3>2. \A k \in DOMAIN s : s[k] \in S
      BY <1>8, <2>2, <3>1
    <3> QED BY <1>8, <3>2, SeqOf
  <2>4. n \in 0 .. Len(s)
    BY <1>8
  <2>5. z \in Seq(S) /\ z \in Seq(Completion)
    BY <1>8, <2>1, <2>3, <2>4, CutIs
  <2>6. \A k \in DOMAIN z : TagOK(r, z[k].tag)
    BY <2>2, <2>5, SeqOf
  <2>7. done' = [done EXCEPT ![r] = z]
    BY <1>2, <1>8, <2>1 DEF TypeInv, UringOK
  <2>8. done' \in [AllRings -> Seq(Completion)] /\ \A x \in AllRings : \A k \in DOMAIN done'[x] : TagOK(x, done'[x][k].tag)
    BY <1>2, <2>5, <2>6, <2>7, SMTT(30) DEF TypeInv, UringOK
  <2> QED BY <1>1, <2>8, Static, StaticShapes DEF TypeInv, UringOK, AllRings
<1>11. SysOK' /\ NsqOK'
  BY <1>1, Frames DEF TypeInv
<1> QED BY <1>7, <1>9, <1>10, <1>11, Zenon DEF TypeInv

\* The kernel performs an I/O: the types.
LEMMA TypeDoIo == ASSUME TypeInv, NEW r \in AllRings, NEW e \in ring[r], DoIo(r, e) PROVE TypeInv'
<1>1. dep' = dep /\ up' = up /\ todo' = todo /\ up \in BOOLEAN /\ nsq' = nsq /\ val' = val /\ sq' = sq
      /\ UNCHANGED workerVars /\ ring' = [ring EXCEPT ![r] = ring[r] \ {e}]
  BY DEF DoIo, guestVars, TypeInv, SysOK
<1>2. e \in Entry /\ EntryOK(r, e)
  BY DEF TypeInv, UringOK
<1>3. PICK x \in IoResults(e) :
         /\ disk' = Over(disk, x.w)
         /\ done' = [done EXCEPT ![r] = Append(@, [tag |-> e.tag, res |-> x.res])]
  BY DEF DoIo
<1>4. x.w \in Writes /\ x.res \in {-1, 0, 1}
  BY <1>2, IoIs DEF TypeInv, EntryOK
<1>5. DataOK'
  BY <1>1, <1>3, <1>4, OverIs, Static DEF TypeInv, DataOK
<1>6. UringOK'
  <2>1. PICK y : y = [tag |-> e.tag, res |-> x.res]
    OBVIOUS
  <2>2. PICK s \in Seq(Completion) : s = done[r]
    BY DEF TypeInv, UringOK
  <2>3. PICK z : z = Append(s, y)
    OBVIOUS
  <2>4. PICK S : S = {c \in Completion : TagOK(r, c.tag)}
    OBVIOUS
  <2>5. y \in Completion /\ y \in S
    BY <1>2, <1>4, <2>1, <2>4 DEF Completion, Entry, EntryOK
  <2>6. s \in Seq(S)
    <3>1. \A k \in DOMAIN s : TagOK(r, s[k].tag)
      BY <2>2 DEF TypeInv, UringOK
    <3>2. \A k \in DOMAIN s : s[k] \in S
      BY <2>2, <2>4, <3>1
    <3> QED BY <2>2, <3>2, SeqOf
  <2>7. z \in Seq(S)
    BY <2>3, <2>5, <2>6
  <2>8. z \in Seq(Completion)
    BY <2>2, <2>3, <2>5
  <2>9. \A k \in DOMAIN z : TagOK(r, z[k].tag)
    BY <2>4, <2>7, <2>8, SeqOf
  <2>10. done' = [done EXCEPT ![r] = z]
    BY <1>3, <2>1, <2>2, <2>3 DEF TypeInv, UringOK
  <2>11. done' \in [AllRings -> Seq(Completion)] /\ \A u \in AllRings : \A k \in DOMAIN done'[u] : TagOK(u, done'[u][k].tag)
    BY <2>8, <2>9, <2>10 DEF TypeInv, UringOK
  <2>12. ring' \in [AllRings -> SUBSET Entry] /\ \A u \in AllRings : \A f \in ring'[u] : EntryOK(u, f)
    BY <1>1 DEF TypeInv, UringOK
  <2> QED BY <1>1, <2>11, <2>12, Static, StaticShapes DEF TypeInv, UringOK, AllRings
<1>7. SysOK' /\ NsqOK' /\ RegsOK' /\ BurstOK'
  BY <1>1, Frames DEF TypeInv, workerVars
<1> QED BY <1>5, <1>6, <1>7 DEF TypeInv

\* Stuttering keeps the types.
LEMMA TypeStutter == TypeInv /\ UNCHANGED uifVars => TypeInv'
<1> SUFFICES ASSUME TypeInv, UNCHANGED uifVars PROVE TypeInv'
  OBVIOUS
<1>1. dep' = dep /\ up' = up /\ todo' = todo /\ up \in BOOLEAN /\ nsq' = nsq /\ disk' = disk /\ val' = val
      /\ sq' = sq /\ ring' = ring /\ done' = done /\ UNCHANGED <<pc, at, ntry, succeeded, encdirty, batch, resps>>
  BY DEF uifVars, guestVars, uringVars, workerVars, TypeInv, SysOK
<1> QED BY <1>1, Frames DEF TypeInv

\* Every step keeps the types.
LEMMA TypeNext == TypeInv /\ [Next]_uifVars => TypeInv'
<1> SUFFICES ASSUME TypeInv, [Next]_uifVars PROVE TypeInv'
  OBVIOUS
<1>1. ASSUME NEW c \in todo, Issue(c) PROVE TypeInv'
  BY <1>1, TypeIssue
<1>2. ASSUME NEW t \in Workers, Work(t) PROVE TypeInv'
  BY <1>2, TypePoll, TypeReceive, TypeProduce, TypeSubmit, TypeAgain, TypeKick, TypeReap, TypeNextRound DEF Work
<1>3. ASSUME Io PROVE TypeInv'
  BY <1>3, TypeDoIo DEF Io
<1> QED BY <1>1, <1>2, <1>3, TypeStutter DEF Next

\* The invariant has what the types say.
LEMMA TypeInvImplies == TypeInv => UifTypeOK
<1> SUFFICES ASSUME TypeInv PROVE UifTypeOK
  OBVIOUS
<1>1. dep \in Deployments /\ up \in BOOLEAN /\ todo \subseteq dep.cmds
  BY DEF TypeInv, SysOK
<1>2. ASSUME NEW q \in Queues PROVE nsq[q] \in Seq({c \in dep.cmds : c.q = q})
  <2>1. PICK s \in Seq(dep.cmds) : s = nsq[q] /\ \A i \in DOMAIN s : s[i].q = q
    BY DEF TypeInv, NsqOK
  <2>2. PICK S : S = {c \in dep.cmds : c.q = q}
    OBVIOUS
  <2>3. \A i \in DOMAIN s : s[i] \in S
    BY <2>1, <2>2
  <2>4. s \in Seq(S)
    BY <2>1, <2>3, SeqOf
  <2> QED BY <2>1, <2>2, <2>4
<1>3. ASSUME NEW t \in Workers
      PROVE  /\ at[t] \in 1 .. Cardinality(Queues) + 1 /\ ntry[t] \in 0 .. BusyLoops - 1
             /\ succeeded[t] \in BOOLEAN /\ encdirty[t] \in 0 .. Cardinality(Lbas)
             /\ Len(batch[t]) + Len(resps[t]) <= Burst
             /\ batch[t] \in Seq(dep.cmds)
  BY DEF TypeInv, RegsOK, BurstOK, BurstAt, NQ
<1>4. ASSUME NEW r \in AllRings, NEW e \in ring[r] PROVE e.tag[1] \in DOMAIN sqids(e.t) /\ e.tag[2] \in dep.cmds
  <2>1. e \in Entry /\ EntryOK(r, e)
    BY DEF TypeInv, UringOK
  <2> QED BY <2>1 DEF Entry, EntryOK, TagOK
<1>5. disk \in [Addrs -> Sectors] /\ val \in [Addrs -> Texts \ {Junk}] /\ pc \in [Workers -> {"poll", "handle", "reap"}]
  BY DEF TypeInv, DataOK, RegsOK
<1> QED BY <1>1, <1>2, <1>3, <1>4, <1>5 DEF UifTypeOK

\* In every run of every program, with any number of queues, threads and
\* commands: bursts stay within their bound and of one queue, tags name the
\* queue their command came from, and the devices hold sectors (worker_func of
\* all programs).
THEOREM TypeCorrect == Spec => []UifTypeOK
<1>1. Spec => []TypeInv
  BY TypeInit, TypeNext, PTL DEF Spec
<1> QED BY <1>1, TypeInvImplies, PTL

(***************************************************************************)
(* Every command is in one place and is answered once, on its queue.       *)
(***************************************************************************)
LEMMA Keys ==
    /\ CmdKey \in [dep.cmds -> dep.cmds] /\ RespKey \in [Response -> dep.cmds]
    /\ EntryKey \in [Entry -> dep.cmds] /\ DoneKey \in [Completion -> dep.cmds]
    /\ \A c \in dep.cmds : CmdKey[c] = c
    /\ \A x \in Response : RespKey[x] = x.c
    /\ \A e \in Entry : EntryKey[e] = e.tag[2]
    /\ \A x \in Completion : DoneKey[x] = x.tag[2]
<1>1. (\A x \in Response : x.c \in dep.cmds) /\ (\A e \in Entry : e.tag[2] \in dep.cmds)
      /\ (\A x \in Completion : x.tag[2] \in dep.cmds)
  BY DEF Response, Entry, Completion
<1> QED BY <1>1 DEF CmdKey, RespKey, EntryKey, DoneKey

\* Nor do the commands that entries of queues, rings and responses stand for.
LEMMA StaticKeys ==
    ASSUME dep' = dep
    PROVE  CmdKey' = CmdKey /\ RespKey' = RespKey /\ EntryKey' = EntryKey /\ DoneKey' = DoneKey
  BY StaticShapes DEF CmdKey, RespKey, EntryKey, DoneKey

\* Places that are left alone.
LEMMA PlaceFrames ==
    ASSUME dep' = dep
    PROVE  /\ nsq' = nsq => (Uniq(nsq, CmdKey) => Uniq(nsq, CmdKey)') /\ \A c : InNsq(c)' <=> InNsq(c)
           /\ batch' = batch => (Uniq(batch, CmdKey) => Uniq(batch, CmdKey)') /\ \A c : InBatch(c)' <=> InBatch(c)
           /\ resps' = resps => (Uniq(resps, RespKey) => Uniq(resps, RespKey)') /\ \A c : InResps(c)' <=> InResps(c)
           /\ sq' = sq => (Uniq(sq, EntryKey) => Uniq(sq, EntryKey)') /\ \A c : InSq(c)' <=> InSq(c)
           /\ ring' = ring => (UniqRing => UniqRing') /\ \A c : InRing(c)' <=> InRing(c)
           /\ done' = done => (Uniq(done, DoneKey) => Uniq(done, DoneKey)') /\ \A c : InDone(c)' <=> InDone(c)
<1>1. nsq' = nsq => (Uniq(nsq, CmdKey) => Uniq(nsq, CmdKey)') /\ \A c : InNsq(c)' <=> InNsq(c)
  BY StaticKeys DEF InNsq, Uniq, Has
<1>2. batch' = batch => (Uniq(batch, CmdKey) => Uniq(batch, CmdKey)') /\ \A c : InBatch(c)' <=> InBatch(c)
  BY StaticKeys DEF InBatch, Uniq, Has
<1>3. resps' = resps => (Uniq(resps, RespKey) => Uniq(resps, RespKey)') /\ \A c : InResps(c)' <=> InResps(c)
  BY StaticKeys DEF InResps, Uniq, Has
<1>4. sq' = sq => (Uniq(sq, EntryKey) => Uniq(sq, EntryKey)') /\ \A c : InSq(c)' <=> InSq(c)
  BY StaticKeys DEF InSq, Uniq, Has
<1>5. ring' = ring => (UniqRing => UniqRing') /\ \A c : InRing(c)' <=> InRing(c)
  BY DEF InRing, UniqRing, AllRings
<1>6. done' = done => (Uniq(done, DoneKey) => Uniq(done, DoneKey)') /\ \A c : InDone(c)' <=> InDone(c)
  BY StaticKeys DEF InDone, Uniq, Has
<1> QED BY <1>1, <1>2, <1>3, <1>4, <1>5, <1>6

\* What is found once in all sequences is found once in each.
LEMMA UniqInj ==
    ASSUME NEW f, NEW K, NEW x \in DOMAIN f
    PROVE  /\ Uniq(f, K) => InjK(f[x], K)
           /\ \A c : KeyIn(f[x], K, c) => Has(f, K, c)
  BY DEF Uniq, InjK, Has

\* A step that answers nothing keeps the answers and who is under way.
LEMMA FlowFrames ==
    ASSUME dep' = dep
    PROVE  /\ ans' = ans /\ todo' \subseteq todo /\ AnsOK => AnsOK'
           /\ ans' = ans /\ RightQueue => RightQueue'
           /\ ans' = ans /\ todo' = todo => (Apart => Apart') /\ \A c : UnderWay(c)' <=> UnderWay(c)
<1>1. ans' = ans /\ todo' \subseteq todo /\ AnsOK => AnsOK'
  BY StaticShapes DEF AnsOK
<1>2. ans' = ans /\ RightQueue => RightQueue'
  BY DEF RightQueue
<1>3. ans' = ans /\ todo' = todo => (Apart => Apart') /\ \A c : UnderWay(c)' <=> UnderWay(c)
  BY Static DEF Apart, UnderWay
<1> QED BY <1>1, <1>2, <1>3

\* Responses to distinct commands under way, each for the queue of its command.
Proper(rs) ==
    /\ rs \in Seq(Response) /\ InjK(rs, RespKey)
    /\ \A i \in DOMAIN rs : rs[i].q = rs[i].c.q /\ UnderWay(rs[i].c)

\* Responses to commands under way, each once and in its own queue, keep the
\* flow and end those commands.
LEMMA Posting ==
    ASSUME TypeInv, FlowInv, dep' = dep, todo' = todo, NEW rs, Proper(rs), Post(rs)
    PROVE  /\ AnsOK' /\ RightQueue' /\ Apart'
           /\ \A c \in dep.cmds : UnderWay(c)' <=> UnderWay(c) /\ ~KeyIn(rs, RespKey, c)
           /\ \A c \in dep.cmds : \/ ans'[c.id] = ans[c.id]
                                  \/ \E i \in DOMAIN rs : rs[i].c = c /\ ans'[c.id] = <<Answer(rs[i])>>
<1> DEFINE A == [q : Queues, st : Status]
           L == Len(rs)
<1>0. /\ L \in Nat /\ DOMAIN rs = 1 .. L /\ rs \in Seq(Response) /\ dep \in Deployments
      /\ \A c, e \in dep.cmds : c.id = e.id => c = e
  BY Deployed DEF Proper, TypeInv, SysOK
<1>1. ASSUME NEW i \in 1 .. L PROVE /\ rs[i] \in Response /\ rs[i].c \in dep.cmds /\ rs[i].c.id \in Ids
                                    /\ Answer(rs[i]) \in A /\ RespKey[rs[i]] = rs[i].c /\ Answer(rs[i]).q = rs[i].q
  <2>1. rs[i] \in Response
    BY <1>0
  <2> QED BY <2>1, Keys DEF Response, Ids, Answer
<1>2. Distinct(Ids, A, rs, L)
  <2>1. ASSUME NEW i \in 1 .. L, NEW j \in 1 .. L, rs[i].c.id = rs[j].c.id PROVE i = j
    <3>1. rs[i].c = rs[j].c
      BY <1>0, <1>1, <2>1
    <3>2. RespKey[rs[i]] = RespKey[rs[j]]
      BY <1>1, <3>1
    <3> QED BY <1>0, <3>2 DEF Proper, InjK
  <2> HIDE DEF A, L
  <2> QED BY <1>1, <2>1 DEF Distinct
<1>3. ans \in [Ids -> Seq(A)]
  BY DEF FlowInv, AnsOK
<1> HIDE DEF A
<1>4. Followed(ans', Ids, A, ans, rs, L)
  BY <1>0, <1>2, <1>3, AnsweredSpec DEF Post
<1> HIDE DEF L
<1>5. ASSUME NEW c \in dep.cmds, KeyIn(rs, RespKey, c)
      PROVE  \E i \in 1 .. L : rs[i].c = c /\ ans'[c.id] = <<Answer(rs[i])>> /\ UnderWay(c)
  <2>1. PICK i \in 1 .. L : rs[i].c = c
    BY <1>0, <1>1, <1>5 DEF KeyIn
  <2>2. UnderWay(c)
    BY <1>0, <2>1 DEF Proper
  <2>3. ans'[c.id] = Append(<<>>, Answer(rs[i]))
    BY <1>4, <2>1, <2>2 DEF Followed, UnderWay
  <2> QED BY <2>1, <2>2, <2>3
<1>6. ASSUME NEW c \in dep.cmds, ~KeyIn(rs, RespKey, c) PROVE ans'[c.id] = ans[c.id]
  <2>1. ASSUME NEW j \in 1 .. L PROVE rs[j].c.id # c.id
    <3>1. rs[j].c # c
      BY <1>0, <1>1, <1>6 DEF KeyIn
    <3> QED BY <1>0, <1>1, <3>1
  <2>2. c.id \in Ids
    BY DEF Ids
  <2> QED BY <1>4, <2>1, <2>2 DEF Followed
<1>7. ASSUME NEW c \in dep.cmds PROVE UnderWay(c)' <=> UnderWay(c) /\ ~KeyIn(rs, RespKey, c)
  <2>1. CASE KeyIn(rs, RespKey, c)
    <3>1. ans'[c.id] # <<>>
      <4>1. PICK x : ans'[c.id] = <<x>>
        BY <1>5, <2>1
      <4>2. <<x>> # <<>>
        OBVIOUS
      <4> QED BY <4>1, <4>2
    <3> QED BY <2>1, <3>1 DEF UnderWay
  <2>2. CASE ~KeyIn(rs, RespKey, c)
    BY <1>6, <2>2 DEF UnderWay
  <2> QED BY <2>1, <2>2
<1>8. AnsOK'
  <2>1. ans' \in [Ids -> Seq(A)]
    BY <1>4 DEF Followed
  <2>2. ASSUME NEW c \in todo PROVE ans'[c.id] = <<>>
    <3>1. c \in dep.cmds /\ ans[c.id] = <<>> /\ ~UnderWay(c)
      BY DEF TypeInv, SysOK, FlowInv, AnsOK, UnderWay
    <3> QED BY <1>5, <1>6, <3>1
  <2> QED BY <2>1, <2>2, StaticShapes DEF AnsOK, A
<1>9. RightQueue'
  <2> SUFFICES ASSUME NEW c \in dep.cmds
               PROVE  Len(ans'[c.id]) <= 1 /\ \A i \in DOMAIN ans'[c.id] : ans'[c.id][i].q = c.q
    BY DEF RightQueue
  <2>1. CASE KeyIn(rs, RespKey, c)
    <3>1. PICK i \in 1 .. L : rs[i].c = c /\ ans'[c.id] = <<Answer(rs[i])>>
      BY <1>5, <2>1
    <3>2. Answer(rs[i]).q = c.q
      BY <1>0, <1>1, <3>1 DEF Proper
    <3> QED BY <3>1, <3>2
  <2>2. CASE ~KeyIn(rs, RespKey, c)
    BY <1>6, <2>2 DEF FlowInv, RightQueue
  <2> QED BY <2>1, <2>2
<1>10. Apart'
  BY <1>7, Static DEF FlowInv, Apart
<1>11. ASSUME NEW c \in dep.cmds, ans'[c.id] # ans[c.id]
       PROVE  \E i \in DOMAIN rs : rs[i].c = c /\ ans'[c.id] = <<Answer(rs[i])>>
  BY <1>0, <1>5, <1>6, <1>11
<1> QED BY <1>7, <1>8, <1>9, <1>10, <1>11

\* A command that is not under way is nowhere.
LEMMA Nowhere ==
    ASSUME FlowInv, NEW c \in dep.cmds, ~UnderWay(c)
    PROVE  ~InNsq(c) /\ ~InBatch(c) /\ ~InResps(c) /\ ~InSq(c) /\ ~InRing(c) /\ ~InDone(c)
  BY DEF FlowInv, Placed

\* The flow of commands at the start.
LEMMA FlowInit == Init => FlowInv
<1> SUFFICES ASSUME Init PROVE FlowInv
  OBVIOUS
<1>1. AnsOK
  BY DEF Init, AnsOK, Ids
<1>2. \A c \in dep.cmds : ans[c.id] = <<>>
  BY DEF Init
<1>3. RightQueue
  BY <1>2 DEF RightQueue
<1>4. DOMAIN <<>> = {}
  OBVIOUS
<1>5. /\ \A x \in DOMAIN nsq : nsq[x] = <<>>
      /\ \A x \in DOMAIN batch : batch[x] = <<>>
      /\ \A x \in DOMAIN resps : resps[x] = <<>>
      /\ \A x \in DOMAIN sq : sq[x] = <<>>
      /\ \A x \in DOMAIN done : done[x] = <<>>
      /\ \A x \in AllRings : ring[x] = {}
  BY DEF Init
<1>6. Single
  BY <1>4, <1>5 DEF Single, Uniq, UniqRing
<1>7. \A c : ~InNsq(c) /\ ~InBatch(c) /\ ~InResps(c) /\ ~InSq(c) /\ ~InRing(c) /\ ~InDone(c)
  BY <1>4, <1>5 DEF InNsq, InBatch, InResps, InSq, InRing, InDone, Has, KeyIn
<1>8. Placed
  BY <1>7 DEF Placed, OnlyOne
<1>9. Apart
  BY DEF Init, Apart, UnderWay
<1> QED BY <1>1, <1>3, <1>6, <1>8, <1>9 DEF FlowInv

\* The guest issues a command: the flow of commands.
LEMMA FlowIssue ==
    ASSUME TypeInv, FlowInv, NEW c, Issue(c)
    PROVE  FlowInv' /\ \A d : InNsq(d)' <=> (InNsq(d) \/ d = c)
<1>1. dep' = dep /\ c \in dep.cmds /\ c \in todo /\ todo' = todo \ {c} /\ ans' = ans /\ batch' = batch /\ resps' = resps
      /\ sq' = sq /\ ring' = ring /\ done' = done /\ dep \in Deployments
  BY DEF Issue, TypeInv, SysOK, workerVars, uringVars
<1>2. ~UnderWay(c) /\ ans[c.id] = <<>>
  BY <1>1 DEF UnderWay, FlowInv, AnsOK
<1>3. \A d \in dep.cmds : UnderWay(d)' <=> (UnderWay(d) \/ d = c)
  BY <1>1, <1>2 DEF UnderWay
<1>4. PICK q \in Queues : q = c.q
  BY <1>1, CommandIs
<1>5. nsq \in [Queues -> Seq(dep.cmds)] /\ CmdKey \in [dep.cmds -> dep.cmds] /\ CmdKey[c] = c
  BY <1>1, Keys DEF TypeInv, NsqOK
<1>6. PICK s : s \in Seq(dep.cmds) /\ s = nsq[q]
  BY <1>5
<1>7. ~Has(nsq, CmdKey, c)
  BY <1>1, <1>2, Nowhere DEF InNsq
<1>8. Uniq(nsq, CmdKey) /\ InjK(s, CmdKey) /\ ~KeyIn(s, CmdKey, c)
  BY <1>5, <1>6, <1>7, UniqInj DEF FlowInv, Single
<1>9. PICK z : z = Append(s, c)
  OBVIOUS
<1>10. z \in Seq(dep.cmds) /\ InjK(z, CmdKey) /\ \A d : KeyIn(z, CmdKey, d) <=> (KeyIn(s, CmdKey, d) \/ d = c)
  BY <1>1, <1>5, <1>6, <1>8, <1>9, KeyAppend
<1>11. nsq' = [nsq EXCEPT ![q] = z]
  BY <1>4, <1>5, <1>6, <1>9 DEF Issue
<1>12. CanSwap(nsq, CmdKey, q, z)
  BY <1>6, <1>7, <1>8, <1>10 DEF CanSwap
<1>13. Swapped(nsq', nsq, CmdKey, q, z)
  BY <1>5, <1>10, <1>11, <1>12, Exchanged
<1>14. \A d : InNsq(d)' <=> (InNsq(d) \/ d = c)
  <2>1. \A d : KeyIn(nsq[q], CmdKey, d) => Has(nsq, CmdKey, d)
    BY <1>5, UniqInj
  <2>2. \A d : Has(nsq', CmdKey, d) <=> (Has(nsq, CmdKey, d) \/ d = c)
    BY <1>6, <1>10, <1>13, <2>1 DEF Swapped
  <2> QED BY <1>1, <2>2, StaticKeys DEF InNsq
<1>15. Single'
  <2>1. Uniq(nsq, CmdKey)'
    BY <1>1, <1>13, StaticKeys DEF Swapped
  <2> QED BY <1>1, <2>1, PlaceFrames DEF FlowInv, Single
<1>16. Placed'
  <2> SUFFICES ASSUME NEW d \in dep.cmds
               PROVE  /\ OnlyOne(InNsq(d), InBatch(d), InResps(d), InSq(d), InRing(d), InDone(d))'
                      /\ (InNsq(d) \/ InBatch(d) \/ InResps(d) \/ InSq(d) \/ InRing(d) \/ InDone(d) => UnderWay(d))'
    BY <1>1 DEF Placed
  <2>1. /\ (InBatch(d)' <=> InBatch(d)) /\ (InResps(d)' <=> InResps(d)) /\ (InSq(d)' <=> InSq(d))
        /\ (InRing(d)' <=> InRing(d)) /\ (InDone(d)' <=> InDone(d))
    BY <1>1, PlaceFrames
  <2>2. d = c => ~InNsq(d) /\ ~InBatch(d) /\ ~InResps(d) /\ ~InSq(d) /\ ~InRing(d) /\ ~InDone(d)
    BY <1>1, <1>2, Nowhere
  <2> QED BY <1>3, <1>14, <2>1, <2>2 DEF FlowInv, Placed, OnlyOne
<1>17. AnsOK' /\ RightQueue'
  BY <1>1, FlowFrames DEF FlowInv
<1>18. Apart'
  <2>1. \A d \in dep.cmds : UnderWay(d) => Blocks(c) \intersect Blocks(d) = {}
    BY DEF Issue
  <2> QED BY <1>1, <1>3, <2>1, Static DEF FlowInv, Apart
<1> QED BY <1>14, <1>15, <1>16, <1>17, <1>18 DEF FlowInv

\* A worker takes a burst, or finds the queue empty.
LEMMA Polling ==
    ASSUME TypeInv, NEW t \in Workers, Poll(t)
    PROVE  \/ nsq' = nsq /\ batch' = batch
           \/ \E q \in Queues : \E n \in 0 .. Len(nsq[q]) :
                /\ batch' = [batch EXCEPT ![t] = SubSeq(nsq[q], 1, n)]
                /\ nsq' = [nsq EXCEPT ![q] = SubSeq(nsq[q], n + 1, Len(nsq[q]))]
                /\ batch[t] = <<>>
<1>1. /\ pc[t] = "poll" /\ at[t] \in 1 .. NQ + 1 /\ at[t] <= Len(sqids(t)) /\ dep \in Deployments
      /\ BurstAt(t, pc[t], at[t], batch[t], resps[t])
  BY DEF Poll, TypeInv, RegsOK, SysOK, BurstOK
<1>2. PICK q \in Queues : q = sqids(t)[at[t]]
  BY <1>1, WorkerIs, Counts
<1>3. nsq[q] \in Seq(dep.cmds) /\ nsq \in [Queues -> Seq(dep.cmds)]
  BY DEF TypeInv, NsqOK
<1>4. PICK n \in 0 .. Len(nsq[q]) : n = IF Len(nsq[q]) < Burst THEN Len(nsq[q]) ELSE Burst
  <2>1. PICK m \in Nat : m = Len(nsq[q])
    BY <1>3
  <2>2. (IF m < Burst THEN m ELSE Burst) \in 0 .. m
    BY Counts
  <2> QED BY <2>1, <2>2, Zenon
<1>5. batch[t] = <<>>
  BY <1>1, IdleBurst
<1>6. \/ nsq' = nsq /\ batch' = batch
      \/ /\ batch' = [batch EXCEPT ![t] = SubSeq(nsq[q], 1, n)]
         /\ nsq' = [nsq EXCEPT ![q] = SubSeq(nsq[q], n + 1, Len(nsq[q]))]
  BY <1>2, <1>3, <1>4 DEF Poll
<1> QED BY <1>4, <1>5, <1>6

\* Steps in which nothing moves.
LEMMA FlowStill ==
    ASSUME TypeInv, FlowInv, UNCHANGED <<dep, todo, ans, nsq, batch, resps, sq, ring, done>>
    PROVE  FlowInv'
<1>1. AnsOK' /\ RightQueue' /\ Apart' /\ \A c : UnderWay(c)' <=> UnderWay(c)
  BY FlowFrames DEF FlowInv
<1>2. Single'
  BY PlaceFrames DEF FlowInv, Single
<1>3. Placed'
  <2>1. \A c : /\ (InNsq(c)' <=> InNsq(c)) /\ (InBatch(c)' <=> InBatch(c)) /\ (InResps(c)' <=> InResps(c))
               /\ (InSq(c)' <=> InSq(c)) /\ (InRing(c)' <=> InRing(c)) /\ (InDone(c)' <=> InDone(c))
    BY PlaceFrames
  <2> QED BY <1>1, <2>1 DEF FlowInv, Placed, OnlyOne
<1> QED BY <1>1, <1>2, <1>3 DEF FlowInv

\* A worker takes a burst from a ring: the flow of commands.
LEMMA FlowPoll ==
    ASSUME TypeInv, FlowInv, NEW t \in Workers, Poll(t)
    PROVE  FlowInv' /\ \A d : InNsq(d)' \/ InBatch(d)' => InNsq(d) \/ InBatch(d)
<1>1. UNCHANGED <<dep, todo, ans, resps, sq, ring, done>>
  BY DEF Poll, guestVars, uringVars
<1>2. CASE nsq' = nsq /\ batch' = batch
  BY <1>1, <1>2, FlowStill, PlaceFrames
<1>3. ASSUME NEW q \in Queues, NEW n \in 0 .. Len(nsq[q]),
             batch' = [batch EXCEPT ![t] = SubSeq(nsq[q], 1, n)],
             nsq' = [nsq EXCEPT ![q] = SubSeq(nsq[q], n + 1, Len(nsq[q]))],
             batch[t] = <<>>
      PROVE  FlowInv' /\ \A d : InNsq(d)' \/ InBatch(d)' => InNsq(d) \/ InBatch(d)
  <2>1. /\ nsq \in [Queues -> Seq(dep.cmds)] /\ batch \in [Workers -> Seq(dep.cmds)]
        /\ CmdKey \in [dep.cmds -> dep.cmds]
    BY Keys DEF TypeInv, NsqOK, BurstOK
  <2>2. PICK s \in Seq(dep.cmds) : s = nsq[q]
    BY <2>1
  <2>3. Uniq(nsq, CmdKey) /\ Uniq(batch, CmdKey) /\ InjK(s, CmdKey) /\ \A c : KeyIn(s, CmdKey, c) => InNsq(c)
    BY <2>1, <2>2, UniqInj DEF FlowInv, Single, InNsq
  <2>4. PICK h : h = SubSeq(s, 1, n)
    OBVIOUS
  <2>5. PICK z : z = SubSeq(s, n + 1, Len(s))
    OBVIOUS
  <2>6. h \in Seq(dep.cmds) /\ z \in Seq(dep.cmds) /\ Cuts(h, z, s, CmdKey)
    <3>1. n \in 0 .. Len(s)
      BY <2>2
    <3> QED BY <2>2, <2>3, <2>4, <2>5, <3>1, CutIs, KeyCuts
  <2>7. CanSwap(nsq, CmdKey, q, z)
    BY <2>2, <2>3, <2>6 DEF CanSwap, Cuts
  <2>8. Swapped(nsq', nsq, CmdKey, q, z)
    BY <1>3, <2>1, <2>2, <2>5, <2>6, <2>7, Exchanged
  <2>9. \A c : KeyIn(h, CmdKey, c) => c \in dep.cmds
    BY <2>1, <2>6 DEF KeyIn
  <2>10. CanSwap(batch, CmdKey, t, h)
    <3>1. \A c \in dep.cmds : InNsq(c) => ~InBatch(c)
      BY DEF FlowInv, Placed, OnlyOne
    <3> QED BY <2>3, <2>6, <2>9, <3>1 DEF CanSwap, Cuts, InBatch
  <2>11. Swapped(batch', batch, CmdKey, t, h)
    BY <1>3, <2>1, <2>2, <2>4, <2>6, <2>10, Exchanged
  <2>12. \A c : ~KeyIn(batch[t], CmdKey, c)
    <3>1. DOMAIN <<>> = {}
      OBVIOUS
    <3> QED BY <1>3, <3>1 DEF KeyIn
  <2>13. \A c : /\ (InNsq(c)' <=> InNsq(c) /\ ~KeyIn(h, CmdKey, c))
                /\ (InBatch(c)' <=> (InBatch(c) \/ KeyIn(h, CmdKey, c)))
                /\ (KeyIn(h, CmdKey, c) => InNsq(c))
    <3>1. \A c : Has(nsq', CmdKey, c) <=> (Has(nsq, CmdKey, c) /\ ~KeyIn(h, CmdKey, c))
      BY <2>2, <2>3, <2>6, <2>8 DEF Swapped, Cuts, InNsq
    <3>2. \A c : Has(batch', CmdKey, c) <=> (Has(batch, CmdKey, c) \/ KeyIn(h, CmdKey, c))
      BY <2>11, <2>12 DEF Swapped
    <3> QED BY <1>1, <2>3, <2>6, <3>1, <3>2, StaticKeys DEF InNsq, InBatch, Cuts
  <2>14. Single'
    <3>1. Uniq(nsq, CmdKey)' /\ Uniq(batch, CmdKey)'
      BY <1>1, <2>8, <2>11, StaticKeys DEF Swapped
    <3> QED BY <1>1, <3>1, PlaceFrames DEF FlowInv, Single
  <2>15. Placed'
    <3>1. \A c : /\ (InResps(c)' <=> InResps(c)) /\ (UnderWay(c)' <=> UnderWay(c))
                 /\ (InSq(c)' <=> InSq(c)) /\ (InRing(c)' <=> InRing(c)) /\ (InDone(c)' <=> InDone(c))
      BY <1>1, PlaceFrames, FlowFrames
    <3> QED BY <1>1, <2>13, <3>1 DEF FlowInv, Placed, OnlyOne
  <2> QED BY <1>1, <2>13, <2>14, <2>15, FlowFrames DEF FlowInv
<1> QED BY <1>2, <1>3, Polling

\* The next command of a burst is taken out of it.
LEMMA Taken ==
    ASSUME TypeInv, FlowInv, dep' = dep, NEW t \in Workers, pc[t] = "handle", batch[t] # <<>>,
           batch' = [batch EXCEPT ![t] = Tail(batch[t])]
    PROVE  /\ Uniq(batch, CmdKey)' /\ InBatch(Head(batch[t])) /\ Head(batch[t]) \in dep.cmds
           /\ \A c : InBatch(c)' <=> (InBatch(c) /\ c # Head(batch[t]))
<1>1. batch \in [Workers -> Seq(dep.cmds)] /\ CmdKey \in [dep.cmds -> dep.cmds]
  BY Keys DEF TypeInv, BurstOK
<1>2. PICK s \in Seq(dep.cmds) : s = batch[t]
  BY <1>1
<1>3. PICK x : x = Head(s)
  OBVIOUS
<1>4. PICK z : z = Tail(s)
  OBVIOUS
<1>5. x \in dep.cmds /\ z \in Seq(dep.cmds) /\ s # <<>>
  <2>1. s # <<>>
    BY <1>2
  <2>2. Head(s) \in dep.cmds /\ Tail(s) \in Seq(dep.cmds)
    BY <2>1
  <2> QED BY <1>3, <1>4, <2>1, <2>2
<1>6. CmdKey[x] = x
  BY <1>5, Keys
<1>7. Uniq(batch, CmdKey) /\ InjK(s, CmdKey) /\ \A c : KeyIn(s, CmdKey, c) => Has(batch, CmdKey, c)
  BY <1>1, <1>2, UniqInj DEF FlowInv, Single
<1>8. Drops(z, x, s, CmdKey)
  BY <1>2, <1>3, <1>4, <1>5, <1>7, KeyDrops
<1>9. CanSwap(batch, CmdKey, t, z)
  BY <1>2, <1>7, <1>8 DEF CanSwap, Drops
<1>10. Swapped(batch', batch, CmdKey, t, z)
  BY <1>1, <1>2, <1>4, <1>5, <1>9, Exchanged
<1>11. \A c : Has(batch', CmdKey, c) <=> (Has(batch, CmdKey, c) /\ c # x)
  BY <1>2, <1>6, <1>7, <1>8, <1>10 DEF Swapped, Drops
<1>12. Has(batch, CmdKey, x)
  BY <1>6, <1>7, <1>8 DEF Drops
<1> QED BY <1>2, <1>3, <1>5, <1>10, <1>11, <1>12, StaticKeys DEF InBatch, Swapped

\* A synchronous worker handles a command: the flow of commands.
LEMMA FlowReceive == ASSUME TypeInv, FlowInv, NEW t \in Workers, Receive(t) PROVE FlowInv'
<1>1. /\ UNCHANGED <<dep, todo, ans, nsq, sq, ring, done>> /\ pc[t] = "handle" /\ batch[t] # <<>>
      /\ batch' = [batch EXCEPT ![t] = Tail(batch[t])]
  BY DEF Receive, uringVars, TypeInv, BurstOK
<1>2. PICK c : c = Head(batch[t])
  OBVIOUS
<1>3. PICK o \in Outcomes(t, c) : resps' = [resps EXCEPT ![t] = Append(@, [q |-> sqids(t)[at[t]], c |-> c, st |-> o.st])]
  BY <1>2 DEF Receive
<1>4. /\ Uniq(batch, CmdKey)' /\ InBatch(c) /\ c \in dep.cmds
      /\ \A d : InBatch(d)' <=> (InBatch(d) /\ d # c)
  BY <1>1, <1>2, Taken
<1>5. PICK x : x = [q |-> sqids(t)[at[t]], c |-> c, st |-> o.st]
  OBVIOUS
<1>6. x \in Response /\ RespKey[x] = c
  <2>1. dep \in Deployments /\ sqids(t)[at[t]] \in Queues
    BY <1>1, Handling
  <2>2. o.st \in Status
    BY <1>4, <2>1, OutcomeIs DEF Typed
  <2>3. x \in Response /\ x.c = c
    BY <1>4, <1>5, <2>1, <2>2 DEF Response
  <2> QED BY <2>3, Keys
<1>7. resps \in [Workers -> Seq(Response)] /\ RespKey \in [Response -> dep.cmds]
  BY Keys DEF TypeInv, BurstOK
<1>8. PICK s \in Seq(Response) : s = resps[t]
  BY <1>7
<1>9. PICK z : z = Append(s, x)
  OBVIOUS
<1>10. ~Has(resps, RespKey, c)
  BY <1>4 DEF FlowInv, Placed, OnlyOne, InResps
<1>11. Uniq(resps, RespKey) /\ InjK(s, RespKey) /\ \A d : KeyIn(s, RespKey, d) => Has(resps, RespKey, d)
  BY <1>7, <1>8, UniqInj DEF FlowInv, Single
<1>12. z \in Seq(Response) /\ InjK(z, RespKey) /\ \A d : KeyIn(z, RespKey, d) <=> (KeyIn(s, RespKey, d) \/ d = c)
  BY <1>6, <1>8, <1>9, <1>10, <1>11, KeyAppend
<1>13. CanSwap(resps, RespKey, t, z)
  BY <1>8, <1>10, <1>11, <1>12 DEF CanSwap
<1>14. Swapped(resps', resps, RespKey, t, z)
  <2>1. resps' = [resps EXCEPT ![t] = z]
    BY <1>3, <1>5, <1>7, <1>8, <1>9
  <2> QED BY <1>7, <1>12, <1>13, <2>1, Exchanged
<1>15. \A d : InResps(d)' <=> (InResps(d) \/ d = c)
  <2>1. \A d : Has(resps', RespKey, d) <=> (Has(resps, RespKey, d) \/ d = c)
    BY <1>8, <1>11, <1>12, <1>14 DEF Swapped
  <2> QED BY <1>1, <2>1, StaticKeys DEF InResps
<1>16. Single'
  <2>1. Uniq(resps, RespKey)'
    BY <1>1, <1>14, StaticKeys DEF Swapped
  <2> QED BY <1>1, <1>4, <2>1, PlaceFrames DEF FlowInv, Single
<1>17. Placed'
  <2>1. \A d : /\ (InNsq(d)' <=> InNsq(d)) /\ (UnderWay(d)' <=> UnderWay(d))
               /\ (InSq(d)' <=> InSq(d)) /\ (InRing(d)' <=> InRing(d)) /\ (InDone(d)' <=> InDone(d))
    BY <1>1, PlaceFrames, FlowFrames
  <2> QED BY <1>1, <1>4, <1>15, <2>1 DEF FlowInv, Placed, OnlyOne
<1> QED BY <1>1, <1>16, <1>17, FlowFrames DEF FlowInv

\* The responses of a burst.
LEMMA Answering ==
    ASSUME TypeInv, FlowInv, NEW t \in Workers
    PROVE  Proper(resps[t]) /\ \A c : KeyIn(resps[t], RespKey, c) => InResps(c)
<1>1. resps \in [Workers -> Seq(Response)] /\ BurstAt(t, pc[t], at[t], batch[t], resps[t])
  BY DEF TypeInv, BurstOK
<1>2. PICK s \in Seq(Response) : s = resps[t]
  BY <1>1
<1>3. InjK(s, RespKey) /\ \A c : KeyIn(s, RespKey, c) => InResps(c)
  BY <1>1, <1>2, UniqInj DEF FlowInv, Single, InResps
<1>4. ASSUME NEW i \in DOMAIN s PROVE s[i].q = s[i].c.q /\ UnderWay(s[i].c)
  <2>1. s[i].q = s[i].c.q
    BY <1>1, <1>2 DEF BurstAt
  <2>2. s[i] \in Response
    BY <1>2
  <2>3. s[i].c \in dep.cmds /\ KeyIn(s, RespKey, s[i].c)
    BY <2>2, Keys DEF KeyIn, Response
  <2>4. UnderWay(s[i].c)
    BY <1>3, <2>3 DEF FlowInv, Placed
  <2> QED BY <2>1, <2>4
<1> QED BY <1>2, <1>3, <1>4 DEF Proper

\* A worker posts its responses: the flow of commands.
LEMMA FlowProduce == ASSUME TypeInv, FlowInv, NEW t \in Workers, Produce(t) PROVE FlowInv'
<1>1. /\ UNCHANGED <<dep, todo, nsq, batch, sq, ring, done>> /\ Post(resps[t])
      /\ resps' = [resps EXCEPT ![t] = <<>>]
  BY DEF Produce, uringVars
<1>2. /\ AnsOK' /\ RightQueue' /\ Apart'
      /\ \A c \in dep.cmds : UnderWay(c)' <=> UnderWay(c) /\ ~KeyIn(resps[t], RespKey, c)
  BY <1>1, Answering, Posting
<1>3. resps \in [Workers -> Seq(Response)] /\ RespKey \in [Response -> dep.cmds] /\ <<>> \in Seq(Response)
  BY Keys DEF TypeInv, BurstOK
<1>4. InjK(<<>>, RespKey) /\ \A c : ~KeyIn(<<>>, RespKey, c)
  <2>1. DOMAIN <<>> = {}
    OBVIOUS
  <2> QED BY <2>1 DEF InjK, KeyIn
<1>5. CanSwap(resps, RespKey, t, <<>>)
  BY <1>4 DEF CanSwap, FlowInv, Single
<1>6. Swapped(resps', resps, RespKey, t, <<>>)
  BY <1>1, <1>3, <1>5, Exchanged
<1>7. \A c : InResps(c)' <=> (InResps(c) /\ ~KeyIn(resps[t], RespKey, c))
  <2>1. \A c : Has(resps', RespKey, c) <=> (Has(resps, RespKey, c) /\ ~KeyIn(resps[t], RespKey, c))
    BY <1>4, <1>6 DEF Swapped
  <2> QED BY <1>1, <2>1, StaticKeys DEF InResps
<1>8. Single'
  <2>1. Uniq(resps, RespKey)'
    BY <1>1, <1>6, StaticKeys DEF Swapped
  <2> QED BY <1>1, <2>1, PlaceFrames DEF FlowInv, Single
<1>9. Placed'
  <2>1. \A c : /\ (InNsq(c)' <=> InNsq(c)) /\ (InBatch(c)' <=> InBatch(c))
               /\ (InSq(c)' <=> InSq(c)) /\ (InRing(c)' <=> InRing(c)) /\ (InDone(c)' <=> InDone(c))
    BY <1>1, PlaceFrames
  <2>2. \A c : KeyIn(resps[t], RespKey, c) => InResps(c)
    BY Answering
  <2> QED BY <1>1, <1>2, <1>7, <2>1, <2>2 DEF FlowInv, Placed, OnlyOne
<1> QED BY <1>2, <1>8, <1>9 DEF FlowInv

\* The completions of a worker's rings are its own.
LEMMA ReaperIs ==
    ASSUME dep \in Deployments, Owned(dep), NEW t \in Workers, NEW i \in DOMAIN Rings(t), NEW tag,
           tag[2] \in dep.cmds, TagOK(Rings(t)[i], tag)
    PROVE  sqids(t)[tag[1]] = tag[2].q
<1>1. PICK c \in dep.cmds : c = tag[2]
  OBVIOUS
<1>2. PICK u \in Workers : u = Home(c) /\ Rings(t)[i] = RingOf(u, c.q) /\ sqids(u)[tag[1]] = c.q
  BY <1>1 DEF TagOK
<1>3. CASE loop.multi
  <2>1. DOMAIN Rings(t) = DOMAIN sqids(t) /\ Rings(t)[i] = dep.dev[sqids(t)[i]]
    BY <1>3 DEF Rings
  <2>2. PICK q \in Queues : q = sqids(t)[i] /\ (q - 1) % dep.nthreads = t
    BY <2>1, WorkerIs
  <2>3. dep.dev[q] = dep.dev[c.q] /\ c.q \in Queues
    BY <1>2, <1>3, <2>1, <2>2, CommandIs DEF RingOf
  <2>4. (q - 1) % dep.nthreads = (c.q - 1) % dep.nthreads
    BY <1>3, <2>3 DEF Owned, loop
  <2>5. t = u
    BY <1>2, <2>2, <2>4 DEF Home
  <2> QED BY <1>1, <1>2, <2>5
<1>4. CASE ~loop.multi
  <2>1. Rings(t)[i] = t
    <3>1. Rings(t) = <<t>>
      BY <1>4 DEF Rings
    <3> QED BY <3>1
  <2> QED BY <1>1, <1>2, <1>4, <2>1 DEF RingOf
<1> QED BY <1>3, <1>4

\* The responses to completions.
LEMMA Completing ==
    ASSUME TypeInv, FlowInv, Owned(dep), NEW t \in Workers, NEW i \in DOMAIN Rings(t), NEW r \in AllRings,
           r = Rings(t)[i], NEW n \in 0 .. Len(done[r])
    PROVE  /\ Proper(Reaped(t, r, n))
           /\ DOMAIN Reaped(t, r, n) = 1 .. n
           /\ \A k \in 1 .. n : /\ Reaped(t, r, n)[k].c = done[r][k].tag[2]
                                /\ Reaped(t, r, n)[k].st = IF done[r][k].res < 0 THEN "internal" ELSE "ok"
                                /\ k \in DOMAIN done[r]
           /\ \A c : KeyIn(Reaped(t, r, n), RespKey, c) <=> KeyIn(SubSeq(done[r], 1, n), DoneKey, c)
<1>1. dep \in Deployments /\ done \in [AllRings -> Seq(Completion)] /\ DoneKey \in [Completion -> dep.cmds]
  BY Keys DEF TypeInv, SysOK, UringOK
<1>2. PICK s \in Seq(Completion) : s = done[r]
  BY <1>1
<1>3. n \in Nat /\ n \in 0 .. Len(s) /\ \A k \in 1 .. n : k \in DOMAIN s
  BY <1>2
<1>4. PICK rs : rs = Reaped(t, r, n)
  OBVIOUS
<1>5. /\ DOMAIN rs = 1 .. n /\ rs = [k \in 1 .. n |-> rs[k]]
      /\ \A k \in 1 .. n : rs[k] = [q |-> sqids(t)[s[k].tag[1]], c |-> s[k].tag[2],
                                    st |-> IF s[k].res < 0 THEN "internal" ELSE "ok"]
  BY <1>2, <1>4 DEF Reaped
<1>6. InjK(s, DoneKey) /\ \A c : KeyIn(s, DoneKey, c) => InDone(c)
  BY <1>1, <1>2, UniqInj DEF FlowInv, Single, InDone
<1>7. ASSUME NEW k \in 1 .. n
      PROVE  /\ rs[k] \in Response /\ rs[k].q = rs[k].c.q /\ UnderWay(rs[k].c) /\ rs[k].c = s[k].tag[2]
             /\ RespKey[rs[k]] = DoneKey[s[k]] /\ rs[k].st = IF s[k].res < 0 THEN "internal" ELSE "ok"
  <2>1. PICK x \in Completion : x = s[k] /\ TagOK(r, x.tag)
    BY <1>2, <1>3 DEF TypeInv, UringOK
  <2>2. x.tag[2] \in dep.cmds /\ DoneKey[x] = x.tag[2]
    BY <2>1, Keys DEF Completion
  <2>3. PICK c \in dep.cmds : c = x.tag[2]
    BY <2>2
  <2>4. sqids(t)[x.tag[1]] = c.q /\ c.q \in Queues
    BY <1>1, <2>1, <2>3, ReaperIs, CommandIs
  <2>5. rs[k] = [q |-> c.q, c |-> c, st |-> IF x.res < 0 THEN "internal" ELSE "ok"]
    BY <1>5, <2>1, <2>3, <2>4
  <2>6. rs[k] \in Response /\ rs[k].c = c /\ rs[k].q = c.q /\ rs[k].st = IF x.res < 0 THEN "internal" ELSE "ok"
    BY <2>3, <2>4, <2>5 DEF Response, Status
  <2>7. UnderWay(c)
    <3>1. KeyIn(s, DoneKey, c)
      BY <1>3, <2>1, <2>2, <2>3 DEF KeyIn
    <3> QED BY <1>6, <2>3, <3>1 DEF FlowInv, Placed
  <2>8. RespKey[rs[k]] = c
    BY <2>6, Keys
  <2> QED BY <2>1, <2>2, <2>3, <2>6, <2>7, <2>8
<1>8. rs \in Seq(Response)
  BY <1>3, <1>5, <1>7
<1>9. InjK(rs, RespKey)
  BY <1>3, <1>5, <1>6, <1>7 DEF InjK
<1>10. PICK h : h = SubSeq(s, 1, n)
  OBVIOUS
<1>11. DOMAIN h = 1 .. n /\ \A k \in 1 .. n : h[k] = s[k]
  BY <1>3, <1>6, <1>10, KeyCut
<1>12. \A c : KeyIn(rs, RespKey, c) <=> KeyIn(h, DoneKey, c)
  BY <1>5, <1>7, <1>11 DEF KeyIn
<1>13. Proper(rs)
  BY <1>5, <1>7, <1>8, <1>9 DEF Proper
<1> QED BY <1>2, <1>3, <1>4, <1>5, <1>7, <1>10, <1>12, <1>13

\* A worker takes completions: the flow of commands.
LEMMA FlowReap == ASSUME TypeInv, FlowInv, Owned(dep), NEW t \in Workers, Reap(t) PROVE FlowInv'
<1>1. UNCHANGED <<dep, todo, nsq, batch, resps, sq, ring>>
  BY DEF Reap
<1>2. PICK r \in AllRings : \E n \in 0 .. Len(done[r]) :
             /\ at[t] \in DOMAIN Rings(t) /\ r = Rings(t)[at[t]]
             /\ Post(Reaped(t, r, n))
             /\ done' = [done EXCEPT ![r] = SubSeq(@, n + 1, Len(@))]
             /\ done[r] \in Seq(Completion)
  BY Reaping
<1>3. PICK n \in 0 .. Len(done[r]) :
             /\ at[t] \in DOMAIN Rings(t) /\ r = Rings(t)[at[t]]
             /\ Post(Reaped(t, r, n))
             /\ done' = [done EXCEPT ![r] = SubSeq(@, n + 1, Len(@))]
             /\ done[r] \in Seq(Completion)
  BY <1>2
<1>4. PICK rs : rs = Reaped(t, r, n)
  OBVIOUS
<1>5. PICK s \in Seq(Completion) : s = done[r]
  BY <1>3
<1>6. PICK h : h = SubSeq(s, 1, n)
  OBVIOUS
<1>7. Proper(rs) /\ \A c : KeyIn(rs, RespKey, c) <=> KeyIn(h, DoneKey, c)
  BY <1>3, <1>4, <1>5, <1>6, Completing
<1>8. /\ AnsOK' /\ RightQueue' /\ Apart'
      /\ \A c \in dep.cmds : UnderWay(c)' <=> UnderWay(c) /\ ~KeyIn(rs, RespKey, c)
  BY <1>1, <1>3, <1>4, <1>7, Posting
<1>9. PICK z : z = SubSeq(s, n + 1, Len(s))
  OBVIOUS
<1>10. done \in [AllRings -> Seq(Completion)] /\ DoneKey \in [Completion -> dep.cmds]
  BY Keys DEF TypeInv, UringOK
<1>11. Uniq(done, DoneKey) /\ InjK(s, DoneKey) /\ \A c : KeyIn(s, DoneKey, c) => Has(done, DoneKey, c)
  BY <1>5, <1>10, UniqInj DEF FlowInv, Single
<1>12. z \in Seq(Completion) /\ Cuts(h, z, s, DoneKey)
  <2>1. n \in 0 .. Len(s)
    BY <1>5
  <2> QED BY <1>5, <1>6, <1>9, <1>11, <2>1, CutIs, KeyCuts
<1>13. CanSwap(done, DoneKey, r, z)
  BY <1>5, <1>11, <1>12 DEF CanSwap, Cuts
<1>14. Swapped(done', done, DoneKey, r, z)
  <2>1. done' = [done EXCEPT ![r] = z]
    BY <1>3, <1>5, <1>9, <1>10
  <2> QED BY <1>10, <1>12, <1>13, <2>1, Exchanged
<1>15. \A c : InDone(c)' <=> (InDone(c) /\ ~KeyIn(h, DoneKey, c))
  <2>1. \A c : Has(done', DoneKey, c) <=> (Has(done, DoneKey, c) /\ ~KeyIn(h, DoneKey, c))
    BY <1>5, <1>11, <1>12, <1>14 DEF Swapped, Cuts
  <2> QED BY <1>1, <2>1, StaticKeys DEF InDone
<1>16. \A c : KeyIn(h, DoneKey, c) => InDone(c)
  BY <1>11, <1>12 DEF Cuts, InDone
<1>17. Single'
  <2>1. Uniq(done, DoneKey)'
    BY <1>1, <1>14, StaticKeys DEF Swapped
  <2> QED BY <1>1, <2>1, PlaceFrames DEF FlowInv, Single
<1>18. Placed'
  <2>1. \A c : /\ (InNsq(c)' <=> InNsq(c)) /\ (InBatch(c)' <=> InBatch(c))
               /\ (InSq(c)' <=> InSq(c)) /\ (InRing(c)' <=> InRing(c)) /\ (InResps(c)' <=> InResps(c))
    BY <1>1, PlaceFrames
  <2> QED BY <1>1, <1>7, <1>8, <1>15, <1>16, <2>1 DEF FlowInv, Placed, OnlyOne
<1> QED BY <1>8, <1>17, <1>18, Zenon DEF FlowInv

\* The ways in which the next command of a burst is submitted.
SubmitQueue(c, o) ==
    /\ o.how = "queue" /\ UNCHANGED <<up, ans, buf, val>>
    /\ \E r \in AllRings : \E e \in Entry :
          e.tag[2] = c /\ e.w = o.w /\ sq' = [sq EXCEPT ![r] = Append(sq[r], e)]
SubmitReply(c, o) ==
    /\ o.how = "reply" /\ UNCHANGED <<up, sq>>
    /\ Post(<<[q |-> c.q, c |-> c, st |-> o.st]>>)
    /\ buf' = IF c.op = "read" THEN [buf EXCEPT ![c.id] = Over(@, o.w)] ELSE buf
SubmitThrow(o) == o.how = "throw" /\ up' = FALSE /\ UNCHANGED <<sq, ans, buf, val>>

\* What submit_async of the handlers does with the first command of a burst.
LEMMA Submitting ==
    ASSUME TypeInv, NEW t \in Workers, Submit(t), NEW c, c = Head(batch[t])
    PROVE  /\ dep \in Deployments /\ batch[t] # <<>> /\ c \in dep.cmds /\ Home(c) = t
           /\ \E o \in Outcomes(t, c) : Typed(c, o) /\ (SubmitQueue(c, o) \/ SubmitReply(c, o) \/ SubmitThrow(o))
<1>1. pc[t] = "handle" /\ loop.async
  BY DEF Submit
<1>2. batch[t] # <<>>
  BY <1>1 DEF TypeInv, BurstOK, BurstAt
<1>3. PICK q \in Queues : q = sqids(t)[at[t]]
  BY <1>1, <1>2, Handling
<1>4. /\ dep \in Deployments /\ at[t] \in DOMAIN sqids(t) /\ c \in dep.cmds /\ c.q = q
      /\ at[t] \in 1 .. NQ + 1
  BY <1>1, <1>2, <1>3, Handling
<1>5. Home(c) = t
  BY <1>3, <1>4, WorkerIs, SMTT(30) DEF Home
<1>6. PICK o \in Outcomes(t, c) :
         \/ /\ o.how = "queue"
            /\ sq' = [sq EXCEPT ![RingOf(t, q)] =
                         Append(@, [t |-> t, tag |-> make_tag(at[t], c), w |-> o.w])]
            /\ UNCHANGED <<up, ans, buf, val>>
         \/ /\ o.how = "reply"
            /\ Post(<<[q |-> q, c |-> c, st |-> o.st]>>)
            /\ buf' = IF c.op = "read" THEN [buf EXCEPT ![c.id] = Over(@, o.w)] ELSE buf
            /\ UNCHANGED <<up, sq>>
         \/ /\ o.how = "throw"
            /\ up' = FALSE
            /\ UNCHANGED <<sq, ans, buf, val>>
  BY <1>3 DEF Submit
<1>7. Typed(c, o)
  BY <1>4, OutcomeIs
<1>8. CASE /\ o.how = "queue"
           /\ sq' = [sq EXCEPT ![RingOf(t, q)] =
                        Append(@, [t |-> t, tag |-> make_tag(at[t], c), w |-> o.w])]
           /\ UNCHANGED <<up, ans, buf, val>>
  <2>1. PICK e : e = [t |-> t, tag |-> make_tag(at[t], c), w |-> o.w]
    OBVIOUS
  <2>2. PICK r \in AllRings : r = RingOf(t, q)
    BY <1>4, RingsIs
  <2>3. o.w \in Writes
    BY <1>7, <1>8 DEF Typed
  <2>4. e \in Entry /\ e.tag[2] = c /\ e.w = o.w
    BY <1>4, <2>1, <2>3 DEF Entry, make_tag
  <2>5. sq' = [sq EXCEPT ![r] = Append(sq[r], e)]
    BY <1>8, <2>1, <2>2 DEF TypeInv, UringOK
  <2>6. SubmitQueue(c, o)
    BY <1>8, <2>4, <2>5 DEF SubmitQueue
  <2> QED BY <1>2, <1>4, <1>5, <1>7, <2>6
<1>9. CASE /\ o.how = "reply"
           /\ Post(<<[q |-> q, c |-> c, st |-> o.st]>>)
           /\ buf' = IF c.op = "read" THEN [buf EXCEPT ![c.id] = Over(@, o.w)] ELSE buf
           /\ UNCHANGED <<up, sq>>
  <2>1. SubmitReply(c, o)
    BY <1>4, <1>9 DEF SubmitReply
  <2> QED BY <1>2, <1>4, <1>5, <1>7, <2>1
<1>10. CASE /\ o.how = "throw"
            /\ up' = FALSE
            /\ UNCHANGED <<sq, ans, buf, val>>
  <2>1. SubmitThrow(o)
    BY <1>10 DEF SubmitThrow
  <2> QED BY <1>2, <1>4, <1>5, <1>7, <2>1
<1> QED BY <1>6, <1>8, <1>9, <1>10

\* One response, to a command under way.
LEMMA OneReply ==
    ASSUME dep \in Deployments, NEW c \in dep.cmds, UnderWay(c), NEW st \in Status, NEW rs,
           rs = <<[q |-> c.q, c |-> c, st |-> st]>>
    PROVE  Proper(rs) /\ DOMAIN rs = {1} /\ rs[1].c = c /\ rs[1].st = st /\ \A d : KeyIn(rs, RespKey, d) <=> d = c
<1>1. PICK x : x = [q |-> c.q, c |-> c, st |-> st]
  OBVIOUS
<1>2. x \in Response /\ x.c = c /\ x.q = c.q /\ x.st = st
  BY <1>1, CommandIs DEF Response
<1>3. RespKey[x] = c
  BY <1>2, Keys
<1>4. rs = <<x>>
  BY <1>1
<1>5. rs \in Seq(Response) /\ DOMAIN rs = {1} /\ rs[1] = x
  BY <1>2, <1>4
<1> QED BY <1>2, <1>3, <1>5 DEF Proper, InjK, KeyIn

\* An asynchronous worker submits a command: the flow of commands.
LEMMA FlowSubmit == ASSUME TypeInv, FlowInv, NEW t \in Workers, Submit(t) PROVE FlowInv'
<1>1. /\ UNCHANGED <<dep, todo, nsq, resps, ring, done>> /\ pc[t] = "handle"
      /\ batch' = [batch EXCEPT ![t] = Tail(batch[t])]
  BY DEF Submit, TypeInv, BurstOK
<1>2. PICK c : c = Head(batch[t])
  OBVIOUS
<1>3. dep \in Deployments /\ batch[t] # <<>> /\ c \in dep.cmds
  BY <1>2, Submitting
<1>4. /\ Uniq(batch, CmdKey)' /\ InBatch(c)
      /\ \A d : InBatch(d)' <=> (InBatch(d) /\ d # c)
  BY <1>1, <1>2, <1>3, Taken
<1>5. UnderWay(c) /\ ~InSq(c) /\ ~InNsq(c) /\ ~InResps(c) /\ ~InRing(c) /\ ~InDone(c)
  BY <1>3, <1>4 DEF FlowInv, Placed, OnlyOne
<1>6. PICK o \in Outcomes(t, c) : Typed(c, o) /\ (SubmitQueue(c, o) \/ SubmitReply(c, o) \/ SubmitThrow(o))
  BY <1>2, Submitting
<1>7. \A d : /\ (InNsq(d)' <=> InNsq(d)) /\ (InResps(d)' <=> InResps(d))
             /\ (InRing(d)' <=> InRing(d)) /\ (InDone(d)' <=> InDone(d))
  BY <1>1, PlaceFrames
<1>8. CASE SubmitQueue(c, o)
  <2>1. PICK r \in AllRings, e \in Entry : e.tag[2] = c /\ sq' = [sq EXCEPT ![r] = Append(sq[r], e)]
    BY <1>8 DEF SubmitQueue
  <2>2. sq \in [AllRings -> Seq(Entry)] /\ EntryKey \in [Entry -> dep.cmds] /\ EntryKey[e] = c
    BY <2>1, Keys DEF TypeInv, UringOK
  <2>3. PICK s \in Seq(Entry) : s = sq[r]
    BY <2>1, <2>2
  <2>4. PICK z : z = Append(s, e)
    OBVIOUS
  <2>5. ~Has(sq, EntryKey, c)
    BY <1>5 DEF InSq
  <2>6. Uniq(sq, EntryKey) /\ InjK(s, EntryKey) /\ \A d : KeyIn(s, EntryKey, d) => Has(sq, EntryKey, d)
    BY <2>1, <2>2, <2>3, UniqInj DEF FlowInv, Single
  <2>7. z \in Seq(Entry) /\ InjK(z, EntryKey) /\ \A d : KeyIn(z, EntryKey, d) <=> (KeyIn(s, EntryKey, d) \/ d = c)
    BY <2>1, <2>2, <2>3, <2>4, <2>5, <2>6, KeyAppend
  <2>8. CanSwap(sq, EntryKey, r, z)
    BY <2>3, <2>5, <2>6, <2>7 DEF CanSwap
  <2>9. Swapped(sq', sq, EntryKey, r, z)
    BY <2>1, <2>2, <2>3, <2>4, <2>7, <2>8, Exchanged
  <2>10. \A d : InSq(d)' <=> (InSq(d) \/ d = c)
    <3>1. \A d : Has(sq', EntryKey, d) <=> (Has(sq, EntryKey, d) \/ d = c)
      BY <2>3, <2>6, <2>7, <2>9 DEF Swapped
    <3> QED BY <1>1, <3>1, StaticKeys DEF InSq
  <2>11. Single'
    <3>1. Uniq(sq, EntryKey)'
      BY <1>1, <2>9, StaticKeys DEF Swapped
    <3> QED BY <1>1, <1>4, <3>1, PlaceFrames DEF FlowInv, Single
  <2>12. AnsOK' /\ RightQueue' /\ Apart' /\ \A d : UnderWay(d)' <=> UnderWay(d)
    BY <1>1, <1>8, FlowFrames DEF FlowInv, SubmitQueue
  <2>13. Placed'
    BY <1>1, <1>4, <1>5, <1>7, <2>10, <2>12 DEF FlowInv, Placed, OnlyOne
  <2> QED BY <2>11, <2>12, <2>13 DEF FlowInv
<1>9. CASE SubmitReply(c, o)
  <2>1. PICK rs : rs = <<[q |-> c.q, c |-> c, st |-> o.st]>>
    OBVIOUS
  <2>2. Proper(rs) /\ Post(rs) /\ \A d : KeyIn(rs, RespKey, d) <=> d = c
    BY <1>3, <1>5, <1>6, <1>9, <2>1, OneReply DEF SubmitReply, Typed
  <2>3. /\ AnsOK' /\ RightQueue' /\ Apart'
        /\ \A d \in dep.cmds : UnderWay(d)' <=> UnderWay(d) /\ ~KeyIn(rs, RespKey, d)
    BY <1>1, <2>2, Posting
  <2>4. sq' = sq
    BY <1>9 DEF SubmitReply
  <2>5. Single' /\ \A d : InSq(d)' <=> InSq(d)
    BY <1>1, <1>4, <2>4, PlaceFrames DEF FlowInv, Single
  <2>6. Placed'
    BY <1>1, <1>4, <1>5, <1>7, <2>2, <2>3, <2>5 DEF FlowInv, Placed, OnlyOne
  <2> QED BY <2>3, <2>5, <2>6 DEF FlowInv
<1>10. CASE SubmitThrow(o)
  <2>1. AnsOK' /\ RightQueue' /\ Apart' /\ \A d : UnderWay(d)' <=> UnderWay(d)
    BY <1>1, <1>10, FlowFrames DEF FlowInv, SubmitThrow
  <2>2. Single' /\ \A d : InSq(d)' <=> InSq(d)
    BY <1>1, <1>4, <1>10, PlaceFrames DEF FlowInv, Single, SubmitThrow
  <2>3. Placed'
    BY <1>1, <1>4, <1>7, <2>1, <2>2 DEF FlowInv, Placed, OnlyOne
  <2> QED BY <2>1, <2>2, <2>3 DEF FlowInv
<1> QED BY <1>6, <1>8, <1>9, <1>10

\* A worker submits what was prepared: the flow of commands.
LEMMA FlowKick == ASSUME TypeInv, FlowInv, NEW t \in Workers, Kick(t) PROVE FlowInv'
<1>1. UNCHANGED <<dep, todo, ans, nsq, batch, resps, done>>
  BY DEF Kick, guestVars
<1>2. PICK S : S = Kicked(t)
  OBVIOUS
<1>3. /\ sq \in [AllRings -> Seq(Entry)] /\ ring \in [AllRings -> SUBSET Entry]
      /\ ring' = [r \in AllRings |-> IF r \in S THEN ring[r] \union {sq[r][i] : i \in DOMAIN sq[r]} ELSE ring[r]]
      /\ sq' = [r \in AllRings |-> IF r \in S THEN <<>> ELSE sq[r]]
  BY <1>2 DEF Kick, TypeInv, UringOK
<1>4. \A r \in AllRings : r \in S => sq'[r] = <<>> /\ \A e : e \in ring'[r] <=> (e \in ring[r] \/ \E i \in DOMAIN sq[r] : e = sq[r][i])
  BY <1>3
<1>5. \A r \in AllRings : r \notin S => sq'[r] = sq[r] /\ ring'[r] = ring[r]
  BY <1>3
<1>6. DOMAIN sq' = AllRings /\ DOMAIN sq = AllRings /\ DOMAIN <<>> = {}
  BY <1>3
<1>7. \A r \in AllRings : \A i \in DOMAIN sq[r] : EntryKey[sq[r][i]] = sq[r][i].tag[2]
  BY <1>3, Keys
<1>8. ASSUME NEW d PROVE InSq(d)' <=> \E r \in AllRings : r \notin S /\ KeyIn(sq[r], EntryKey, d)
  BY <1>1, <1>4, <1>5, <1>6, StaticKeys DEF InSq, Has, KeyIn
<1>9. ASSUME NEW d PROVE InRing(d)' <=> (InRing(d) \/ \E r \in AllRings : r \in S /\ KeyIn(sq[r], EntryKey, d))
  <2>1. AllRings' = AllRings
    BY DEF AllRings
  <2>2. ASSUME InRing(d)' PROVE InRing(d) \/ \E r \in AllRings : r \in S /\ KeyIn(sq[r], EntryKey, d)
    <3>0. PICK r \in AllRings : \E e \in ring'[r] : e.tag[2] = d
      BY <2>1, <2>2 DEF InRing
    <3>1. PICK e \in ring'[r] : e.tag[2] = d
      BY <3>0
    <3> QED BY <1>4, <1>5, <1>7, <3>0, <3>1 DEF InRing, KeyIn
  <2>3. ASSUME InRing(d) PROVE InRing(d)'
    <3>0. PICK r \in AllRings : \E e \in ring[r] : e.tag[2] = d
      BY <2>3 DEF InRing
    <3>1. PICK e \in ring[r] : e.tag[2] = d
      BY <3>0
    <3>2. e \in ring'[r]
      BY <1>4, <1>5, <3>0, <3>1
    <3> QED BY <2>1, <3>0, <3>1, <3>2 DEF InRing
  <2>4. ASSUME NEW r \in AllRings, r \in S, KeyIn(sq[r], EntryKey, d) PROVE InRing(d)'
    <3>1. PICK i \in DOMAIN sq[r] : EntryKey[sq[r][i]] = d
      BY <2>4 DEF KeyIn
    <3>2. sq[r][i] \in ring'[r] /\ sq[r][i].tag[2] = d
      BY <1>4, <1>7, <2>4, <3>1
    <3> QED BY <2>1, <3>2 DEF InRing
  <2> QED BY <2>2, <2>3, <2>4
<1>10. ASSUME NEW d PROVE InSq(d) <=> \E r \in AllRings : KeyIn(sq[r], EntryKey, d)
  BY <1>6 DEF InSq, Has
<1>11. Uniq(sq, EntryKey)'
  <2>1. Uniq(sq', EntryKey)
    BY <1>4, <1>5, <1>6 DEF FlowInv, Single, Uniq
  <2> QED BY <1>1, <2>1, StaticKeys
<1>13. UniqRing'
  <2> SUFFICES ASSUME NEW r \in AllRings, NEW s \in AllRings, NEW e \in ring'[r], NEW f \in ring'[s], e.tag[2] = f.tag[2]
               PROVE  r = s /\ e = f
    BY DEF UniqRing, AllRings
  <2>0. /\ e \in ring[r] \/ \E i \in DOMAIN sq[r] : e = sq[r][i]
        /\ f \in ring[s] \/ \E i \in DOMAIN sq[s] : f = sq[s][i]
    BY <1>4, <1>5
  <2>1. ASSUME NEW u \in AllRings, NEW v \in AllRings, NEW g \in ring[u], NEW j \in DOMAIN sq[v]
        PROVE  g.tag[2] # sq[v][j].tag[2]
    <3>1. PICK d \in dep.cmds : d = g.tag[2]
      <4>1. g \in Entry
        BY <1>3
      <4> QED BY <4>1, EntryIs
    <3>2. InRing(d)
      BY <3>1 DEF InRing
    <3>3. ~InSq(d)
      BY <3>2 DEF FlowInv, Placed, OnlyOne
    <3> QED BY <1>7, <1>10, <3>1, <3>3 DEF KeyIn
  <2>2. CASE e \in ring[r] /\ f \in ring[s]
    BY <2>2 DEF FlowInv, Single, UniqRing
  <2>3. ASSUME NEW i \in DOMAIN sq[r], NEW j \in DOMAIN sq[s], e = sq[r][i], f = sq[s][j] PROVE r = s /\ e = f
    BY <1>6, <1>7, <2>3 DEF FlowInv, Single, Uniq
  <2> QED BY <2>0, <2>1, <2>2, <2>3
<1>14. Single'
  BY <1>1, <1>11, <1>13, PlaceFrames DEF FlowInv, Single
<1>15. ASSUME NEW d, NEW r \in AllRings, NEW s \in AllRings, KeyIn(sq[r], EntryKey, d), KeyIn(sq[s], EntryKey, d) PROVE r = s
  BY <1>6, <1>15 DEF FlowInv, Single, Uniq, KeyIn
<1>16. ASSUME NEW d PROVE /\ (InSq(d)' => InSq(d)) /\ (InRing(d)' => (InRing(d) \/ InSq(d)))
                          /\ ~(InSq(d)' /\ InRing(d)' /\ ~InRing(d))
  BY <1>8, <1>9, <1>10, <1>15
<1>17. Placed'
  <2>1. \A d : /\ (InNsq(d)' <=> InNsq(d)) /\ (InBatch(d)' <=> InBatch(d)) /\ (InResps(d)' <=> InResps(d))
               /\ (InDone(d)' <=> InDone(d)) /\ (UnderWay(d)' <=> UnderWay(d))
    BY <1>1, PlaceFrames, FlowFrames
  <2> QED BY <1>1, <1>16, <2>1 DEF FlowInv, Placed, OnlyOne
<1> QED BY <1>1, <1>14, <1>17, FlowFrames DEF FlowInv

\* The kernel performs an entry.
LEMMA Performing ==
    ASSUME TypeInv, NEW r \in AllRings, NEW e \in ring[r], DoIo(r, e)
    PROVE  /\ dep \in Deployments /\ e \in Entry /\ e.tag[2] \in dep.cmds /\ EntryOK(r, e)
           /\ \E x \in IoResults(e) : \E y \in Completion :
                /\ disk' = Over(disk, x.w) /\ y.tag[2] = e.tag[2] /\ y.res = x.res
                /\ x.w \in Writes /\ DOMAIN x.w \subseteq Blocks(e.tag[2])
                /\ x.w = e.w \/ x.res = -1 \/ (x.res = 0 /\ "short" \in dep.faults /\ Counted(e.tag[2]))
                /\ done' = [done EXCEPT ![r] = Append(done[r], y)]
<1>1. e \in Entry /\ EntryOK(r, e) /\ dep \in Deployments
  BY DEF TypeInv, UringOK, SysOK
<1>2. e.tag[2] \in dep.cmds /\ e.tag \in Nat \X dep.cmds
  BY <1>1 DEF Entry
<1>3. PICK x \in IoResults(e) :
         /\ disk' = Over(disk, x.w)
         /\ done' = [done EXCEPT ![r] = Append(@, [tag |-> e.tag, res |-> x.res])]
  BY DEF DoIo
<1>4. /\ x.w \in Writes /\ DOMAIN x.w \subseteq Blocks(e.tag[2]) /\ x.res \in {-1, 0, 1}
      /\ x.w = e.w \/ x.res = -1 \/ (x.res = 0 /\ "short" \in dep.faults /\ Counted(e.tag[2]))
  BY <1>1, IoIs DEF EntryOK, TypeInv
<1>5. PICK y : y = [tag |-> e.tag, res |-> x.res]
  OBVIOUS
<1>6. y \in Completion /\ y.tag[2] = e.tag[2] /\ y.res = x.res
  BY <1>2, <1>4, <1>5 DEF Completion
<1>7. done' = [done EXCEPT ![r] = Append(done[r], y)]
  BY <1>3, <1>5 DEF TypeInv, UringOK
<1> QED BY <1>1, <1>2, <1>3, <1>4, <1>6, <1>7

\* The kernel performs an I/O: the flow of commands.
LEMMA FlowDoIo == ASSUME TypeInv, FlowInv, NEW r \in AllRings, NEW e \in ring[r], DoIo(r, e) PROVE FlowInv'
<1>1. /\ UNCHANGED <<dep, todo, ans, nsq, batch, resps, sq>>
      /\ ring' = [ring EXCEPT ![r] = ring[r] \ {e}] /\ ring \in [AllRings -> SUBSET Entry]
  BY DEF DoIo, guestVars, workerVars, TypeInv, UringOK
<1>2. PICK c \in dep.cmds : c = e.tag[2]
  BY Performing
<1>3. PICK y \in Completion : y.tag[2] = c /\ done' = [done EXCEPT ![r] = Append(done[r], y)]
  BY <1>2, Performing
<1>4. InRing(c)
  BY <1>2 DEF InRing
<1>5. UnderWay(c) /\ ~InSq(c) /\ ~InNsq(c) /\ ~InResps(c) /\ ~InBatch(c) /\ ~InDone(c)
  BY <1>4 DEF FlowInv, Placed, OnlyOne
<1>6. done \in [AllRings -> Seq(Completion)] /\ DoneKey \in [Completion -> dep.cmds] /\ DoneKey[y] = c
  BY <1>3, Keys DEF TypeInv, UringOK
<1>7. PICK s \in Seq(Completion) : s = done[r]
  BY <1>6
<1>8. PICK z : z = Append(s, y)
  OBVIOUS
<1>9. ~Has(done, DoneKey, c)
  BY <1>5 DEF InDone
<1>10. Uniq(done, DoneKey) /\ InjK(s, DoneKey) /\ \A d : KeyIn(s, DoneKey, d) => Has(done, DoneKey, d)
  BY <1>6, <1>7, UniqInj DEF FlowInv, Single
<1>11. z \in Seq(Completion) /\ InjK(z, DoneKey) /\ \A d : KeyIn(z, DoneKey, d) <=> (KeyIn(s, DoneKey, d) \/ d = c)
  BY <1>3, <1>6, <1>7, <1>8, <1>9, <1>10, KeyAppend
<1>12. CanSwap(done, DoneKey, r, z)
  BY <1>7, <1>9, <1>10, <1>11 DEF CanSwap
<1>13. Swapped(done', done, DoneKey, r, z)
  BY <1>3, <1>6, <1>7, <1>8, <1>11, <1>12, Exchanged
<1>14. \A d : InDone(d)' <=> (InDone(d) \/ d = c)
  <2>1. \A d : Has(done', DoneKey, d) <=> (Has(done, DoneKey, d) \/ d = c)
    BY <1>7, <1>10, <1>11, <1>13 DEF Swapped
  <2> QED BY <1>1, <2>1, StaticKeys DEF InDone
<1>15. /\ AllRings' = AllRings
       /\ \A u \in AllRings : \A f : f \in ring'[u] <=> (f \in ring[u] /\ ~(u = r /\ f = e))
  BY <1>1 DEF AllRings
<1>16. UniqRing /\ UniqRing'
  BY <1>15 DEF FlowInv, Single, UniqRing
<1>17. \A d : InRing(d)' <=> (InRing(d) /\ d # c)
  <2>1. \A d : InRing(d)' <=> \E u \in AllRings : \E f \in ring'[u] : f.tag[2] = d
    BY <1>15 DEF InRing
  <2>2. \A u \in AllRings : \A f \in ring'[u] : f.tag[2] # c
    BY <1>2, <1>15, <1>16 DEF UniqRing
  <2> QED BY <1>2, <1>15, <2>1, <2>2 DEF InRing
<1>18. Single'
  <2>1. Uniq(done, DoneKey)'
    BY <1>1, <1>13, StaticKeys DEF Swapped
  <2> QED BY <1>1, <1>16, <2>1, PlaceFrames DEF FlowInv, Single
<1>19. Placed'
  <2>1. \A d : /\ (InNsq(d)' <=> InNsq(d)) /\ (InBatch(d)' <=> InBatch(d)) /\ (InResps(d)' <=> InResps(d))
               /\ (InSq(d)' <=> InSq(d)) /\ (UnderWay(d)' <=> UnderWay(d))
    BY <1>1, PlaceFrames, FlowFrames
  <2> QED BY <1>1, <1>5, <1>14, <1>17, <2>1 DEF FlowInv, Placed, OnlyOne
<1> QED BY <1>1, <1>18, <1>19, FlowFrames DEF FlowInv

\* Every step keeps the flow of commands.
LEMMA FlowNext == TypeInv /\ FlowInv /\ Owned(dep) /\ [Next]_uifVars => FlowInv'
<1> SUFFICES ASSUME TypeInv, FlowInv, Owned(dep), [Next]_uifVars PROVE FlowInv'
  OBVIOUS
<1>1. ASSUME NEW c \in todo, Issue(c) PROVE FlowInv'
  BY <1>1, FlowIssue
<1>2. ASSUME NEW t \in Workers, Work(t) PROVE FlowInv'
  <2>1. ASSUME Again(t) \/ NextRound(t) PROVE FlowInv'
    <3>1. UNCHANGED <<dep, todo, ans, nsq, batch, resps, sq, ring, done>>
      BY <2>1 DEF Again, NextRound, guestVars, uringVars
    <3> QED BY <3>1, FlowStill
  <2> QED BY <1>2, <2>1, FlowPoll, FlowReceive, FlowProduce, FlowSubmit, FlowKick, FlowReap DEF Work
<1>3. ASSUME NEW r \in AllRings, NEW e \in ring[r], DoIo(r, e) PROVE FlowInv'
  BY <1>3, FlowDoIo
<1>4. ASSUME UNCHANGED uifVars PROVE FlowInv'
  <2>1. UNCHANGED <<dep, todo, ans, nsq, batch, resps, sq, ring, done>>
    BY <1>4 DEF uifVars, guestVars, workerVars, uringVars
  <2> QED BY <2>1, FlowStill
<1> QED BY <1>1, <1>2, <1>3, <1>4 DEF Next, Io

\* Every response goes to the queue its command came from, and there is at
\* most one, for every program, number of threads, burst length and set of
\* commands, when each device is served by one worker: the queue index in a
\* tag is read with the sqids of the worker that made it.
THEOREM RightQueueHolds ==
    ASSUME \A d \in Deployments : Owned(d)
    PROVE  Spec => []RightQueue
<1>1. Init => TypeInv /\ FlowInv /\ Owned(dep)
  BY TypeInit, FlowInit DEF Init
<1>2. TypeInv /\ FlowInv /\ Owned(dep) /\ [Next]_uifVars => (TypeInv /\ FlowInv /\ Owned(dep))'
  <2>1. TypeInv' /\ TypeInv => Owned(dep)'
    BY DEF TypeInv, SysOK
  <2> QED BY <2>1, TypeNext, FlowNext
<1>3. FlowInv => RightQueue
  BY DEF FlowInv
<1> QED BY <1>1, <1>2, <1>3, PTL DEF Spec

(***************************************************************************)
(* What is acknowledged is on the device.                                  *)
(***************************************************************************)
LEMMA DiskFrames ==
    ASSUME dep' = dep
    PROVE  /\ disk' = disk /\ val' = val /\ AckedOnDisk => AckedOnDisk'
           /\ val' = val /\ ans' = ans /\ todo' = todo /\ Forgotten => Forgotten'
           /\ sq' = sq /\ ring' = ring /\ Prepared => Prepared'
           /\ disk' = disk /\ done' = done /\ resps' = resps /\ Performed => Performed'
           /\ \A c, w : Right(c, w)' <=> Right(c, w)
           /\ disk' = disk => \A c : OnDisk(c)' <=> OnDisk(c)
<1>1. disk' = disk /\ val' = val /\ AckedOnDisk => AckedOnDisk'
  BY Static DEF AckedOnDisk
<1>2. val' = val /\ ans' = ans /\ todo' = todo /\ Forgotten => Forgotten'
  BY Static, FlowFrames DEF Forgotten
<1>3. \A c, w : Right(c, w)' <=> Right(c, w)
  BY Static DEF Right
<1>4. disk' = disk => \A c : OnDisk(c)' <=> OnDisk(c)
  BY Static DEF OnDisk
<1>5. sq' = sq /\ ring' = ring /\ Prepared => Prepared'
  BY <1>3 DEF Prepared, AllRings
<1>6. disk' = disk /\ done' = done /\ resps' = resps /\ Performed => Performed'
  BY <1>4, Static DEF Performed, AllRings
<1> QED BY <1>1, <1>2, <1>3, <1>4, <1>5, <1>6

\* Commands that have been handled stay so.
LEMMA DirtierFrame ==
    ASSUME dep' = dep, todo' \subseteq todo, encdirty' = encdirty, Dirtier,
           \A d \in dep.cmds : InNsq(d)' \/ InBatch(d)' => InNsq(d) \/ InBatch(d) \/ d \in todo
    PROVE  Dirtier'
  BY Static DEF Dirtier

\* A command under way changes only blocks that the guest does not know and
\* that no other command under way is for.
LEMMA Touched ==
    ASSUME TypeInv, FlowInv, Forgotten, dep' = dep, NEW c \in dep.cmds, UnderWay(c), c.op # "read",
           NEW w \in Writes, DOMAIN w \subseteq Blocks(c), disk' = Over(disk, w)
    PROVE  /\ \A a \in Addrs : val[a] # Unknown => disk'[a] = disk[a]
           /\ \A d \in dep.cmds : UnderWay(d) /\ d # c => \A a \in Blocks(d) : disk'[a] = disk[a]
           /\ Right(c, w) => OnDisk(c)'
<1>1. dep \in Deployments
  BY DEF TypeInv, SysOK
<1>2. \A a \in Addrs : disk'[a] = IF a \in DOMAIN w THEN w[a] ELSE disk[a]
  BY OverIs DEF TypeInv
<1>3. \A d \in dep.cmds : Blocks(d) \subseteq Addrs
  BY <1>1, CommandIs
<1>4. \A a \in DOMAIN w : val[a] = Unknown
  <2>1. CASE Mutates(c)
    BY <2>1 DEF Forgotten
  <2>2. CASE ~Mutates(c)
    BY <1>1, <2>2, CommandIs DEF Mutates
  <2> QED BY <2>1, <2>2
<1>5. ASSUME NEW d \in dep.cmds, UnderWay(d), d # c, NEW a \in Blocks(d) PROVE disk'[a] = disk[a]
  <2>1. a \notin Blocks(c)
    BY <1>5 DEF FlowInv, Apart
  <2> QED BY <1>2, <1>3, <2>1
<1>6. ASSUME Right(c, w) PROVE OnDisk(c)'
  <2>1. \A a \in Blocks(c) : disk'[a] = w[a]
    BY <1>2, <1>3, <1>6 DEF Right
  <2> QED BY <1>6, <2>1, Static DEF OnDisk, Right
<1> QED BY <1>2, <1>4, <1>5, <1>6

\* What was on the device for other commands is still there.
LEMMA Untouched ==
    ASSUME TypeInv, dep' = dep, NEW d \in dep.cmds, \A a \in Blocks(d) : disk'[a] = disk[a], OnDisk(d)
    PROVE  OnDisk(d)'
  BY Static DEF OnDisk

\* A disk that changes only where nothing is promised keeps what was
\* acknowledged.
LEMMA StillAcked ==
    ASSUME dep' = dep, val' = val, AckedOnDisk, \A a \in Addrs : val[a] # Unknown => disk'[a] = disk[a]
    PROVE  AckedOnDisk'
  BY Static DEF AckedOnDisk

\* The guest is told of commands whose text is on the device.
LEMMA Acknowledged ==
    ASSUME TypeInv, FlowInv, AckedOnDisk, Forgotten, dep' = dep, todo' = todo, disk' = disk,
           NEW rs, Proper(rs), Post(rs),
           \A i \in DOMAIN rs : rs[i].st = "ok" /\ Mutates(rs[i].c) => OnDisk(rs[i].c)
    PROVE  AckedOnDisk' /\ Forgotten'
<1>1. ASSUME NEW i \in DOMAIN rs PROVE rs[i].c \in dep.cmds /\ UnderWay(rs[i].c) /\ KeyIn(rs, RespKey, rs[i].c)
  <2>1. rs[i] \in Response /\ UnderWay(rs[i].c)
    BY DEF Proper
  <2>2. rs[i].c \in dep.cmds /\ RespKey[rs[i]] = rs[i].c
    BY <2>1, Keys DEF Response
  <2> QED BY <2>1, <2>2 DEF KeyIn
<1>2. \A a \in Addrs : Told(rs, a) \/ val'[a] = val[a]
  BY <1>1, PostVal DEF TypeInv
<1>3. \A c \in dep.cmds : UnderWay(c)' <=> UnderWay(c) /\ ~KeyIn(rs, RespKey, c)
  BY Posting
<1>4. ASSUME NEW a \in Addrs, Told(rs, a) PROVE View(disk[a], a) = val'[a]
  <2>1. PICK i \in DOMAIN rs, j \in DOMAIN rs :
          /\ rs[i].st = "ok" /\ Mutates(rs[i].c) /\ a \in Blocks(rs[i].c)
          /\ Mutates(rs[j].c) /\ a \in Blocks(rs[j].c) /\ val'[a] = Text(rs[j].c, a)
    BY <1>4 DEF Told
  <2>2. rs[i].c = rs[j].c
    BY <1>1, <2>1 DEF FlowInv, Apart
  <2>3. OnDisk(rs[i].c)
    BY <2>1
  <2> QED BY <2>1, <2>2, <2>3 DEF OnDisk
<1>5. AckedOnDisk'
  BY <1>2, <1>4, Static DEF AckedOnDisk
<1>6. ASSUME NEW c \in dep.cmds, UnderWay(c)', Mutates(c), NEW a \in Blocks(c) PROVE val'[a] = Unknown
  <2>1. UnderWay(c) /\ ~KeyIn(rs, RespKey, c) /\ a \in Addrs
    BY <1>3, <1>6, CommandIs DEF TypeInv, SysOK
  <2>2. ~Told(rs, a)
    <3>1. SUFFICES ASSUME NEW i \in DOMAIN rs, a \in Blocks(rs[i].c) PROVE FALSE
      BY DEF Told
    <3>2. rs[i].c # c
      BY <1>1, <2>1
    <3> QED BY <1>1, <2>1, <3>1, <3>2 DEF FlowInv, Apart
  <2>3. val[a] = Unknown
    BY <1>6, <2>1 DEF Forgotten
  <2> QED BY <1>2, <2>1, <2>2, <2>3
<1>7. Forgotten'
  BY <1>6, Static DEF Forgotten, Mutates
<1> QED BY <1>5, <1>7

\* What is on the disk and on its way there at the start.
LEMMA DiskInit == ASSUME Init PROVE DiskInv
<1>1. AckedOnDisk
  BY DEF Init, AckedOnDisk
<1>2. \A c \in dep.cmds : ~UnderWay(c)
  BY DEF Init, UnderWay
<1>3. DOMAIN <<>> = {}
  OBVIOUS
<1>4. Prepared /\ Performed
  BY <1>3 DEF Init, Prepared, Performed
<1>5. Dirtier
  BY DEF Init, Dirtier
<1> QED BY <1>1, <1>2, <1>4, <1>5 DEF DiskInv, Forgotten

\* The guest issues a command: what is on the disk and on its way there.
LEMMA DiskIssue == ASSUME TypeInv, FlowInv, DiskInv, NEW c, Issue(c) PROVE DiskInv'
<1>1. /\ UNCHANGED <<dep, ans, disk, batch, resps, encdirty, sq, ring, done>> /\ c \in todo /\ todo' = todo \ {c}
      /\ c \in dep.cmds /\ dep \in Deployments
  BY DEF Issue, TypeInv, SysOK, workerVars, uringVars
<1>2. Prepared' /\ Performed'
  BY <1>1, DiskFrames DEF DiskInv
<1>3. Dirtier'
  <2>1. \A d : (InNsq(d)' <=> (InNsq(d) \/ d = c)) /\ (InBatch(d)' <=> InBatch(d))
    BY <1>1, FlowIssue, PlaceFrames
  <2> QED BY <1>1, <2>1, DirtierFrame DEF DiskInv
<1>4. val \in [Addrs -> Texts \ {Junk}] /\ Blocks(c) \subseteq Addrs
  BY <1>1, CommandIs DEF TypeInv, DataOK
<1>5. \A a \in Addrs : val'[a] = IF Mutates(c) /\ a \in Blocks(c) THEN Unknown ELSE val[a]
  <2>1. CASE Mutates(c)
    <3>1. val' = Over(val, [a \in Blocks(c) |-> Unknown])
      BY <2>1 DEF Issue, Mutates
    <3> QED BY <1>4, <2>1, <3>1 DEF Over
  <2>2. CASE ~Mutates(c)
    BY <2>2 DEF Issue, Mutates
  <2> QED BY <2>1, <2>2
<1>6. AckedOnDisk'
  BY <1>1, <1>5, Static DEF DiskInv, AckedOnDisk
<1>7. Forgotten'
  <2> SUFFICES ASSUME NEW d \in dep.cmds, UnderWay(d)', Mutates(d), NEW a \in Blocks(d) PROVE val'[a] = Unknown
    BY <1>1, Static DEF Forgotten, Mutates
  <2>1. a \in Addrs
    BY <1>1, CommandIs
  <2>2. d = c \/ UnderWay(d)
    BY <1>1 DEF UnderWay
  <2> QED BY <1>5, <2>1, <2>2 DEF DiskInv, Forgotten
<1> QED BY <1>2, <1>3, <1>6, <1>7 DEF DiskInv

\* Steps that change no data.
LEMMA DiskStill ==
    ASSUME TypeInv, DiskInv, UNCHANGED <<dep, todo, ans, val, disk, encdirty, resps, sq, ring, done>>,
           \A d \in dep.cmds : InNsq(d)' \/ InBatch(d)' => InNsq(d) \/ InBatch(d)
    PROVE  DiskInv'
<1>1. AckedOnDisk' /\ Forgotten' /\ Prepared' /\ Performed'
  BY DiskFrames DEF DiskInv
<1>2. Dirtier'
  BY DirtierFrame DEF DiskInv
<1> QED BY <1>1, <1>2 DEF DiskInv

\* A worker takes a burst from a ring: what is on the disk and on its way
\* there.
LEMMA DiskPoll == ASSUME TypeInv, FlowInv, DiskInv, NEW t \in Workers, Poll(t) PROVE DiskInv'
<1>1. UNCHANGED <<dep, todo, ans, val, disk, encdirty, resps, sq, ring, done>>
  BY DEF Poll, guestVars, uringVars
<1> QED BY <1>1, FlowPoll, DiskStill

\* The elements of a longer and of a shorter sequence.
LEMMA Elements ==
    ASSUME NEW X, NEW s \in Seq(X)
    PROVE  /\ \A e \in X : \A i \in DOMAIN Append(s, e) : Append(s, e)[i] = e \/ \E j \in DOMAIN s : Append(s, e)[i] = s[j]
           /\ \A n \in 0 .. Len(s) : \A i \in DOMAIN SubSeq(s, n + 1, Len(s)) :
                 \E j \in DOMAIN s : SubSeq(s, n + 1, Len(s))[i] = s[j]
<1>1. PICK S : S = {x \in X : \E j \in DOMAIN s : x = s[j]}
  OBVIOUS
<1>2. s \in Seq(S)
  BY <1>1, SeqOf
<1>3. ASSUME NEW e \in X, NEW z, z = Append(s, e), NEW i \in DOMAIN z PROVE z[i] = e \/ \E j \in DOMAIN s : z[i] = s[j]
  <2>1. PICK T : T = S \union {e}
    OBVIOUS
  <2>2. s \in Seq(T) /\ e \in T
    BY <1>1, <2>1, SeqOf
  <2>3. z \in Seq(T)
    BY <1>3, <2>2
  <2>4. z[i] \in T
    BY <2>3
  <2> QED BY <1>1, <2>1, <2>4
<1>4. ASSUME NEW n \in 0 .. Len(s), NEW z, z = SubSeq(s, n + 1, Len(s)), NEW i \in DOMAIN z PROVE \E j \in DOMAIN s : z[i] = s[j]
  <2>1. z \in Seq(S)
    BY <1>2, <1>4, CutIs
  <2>2. z[i] \in S
    BY <2>1
  <2> QED BY <1>1, <2>2
<1> QED BY <1>3, <1>4

\* What waits to be answered is under way.
LEMMA Waiting ==
    ASSUME TypeInv, FlowInv
    PROVE  /\ \A t \in Workers : \A i \in DOMAIN resps[t] : LET c == resps[t][i].c IN
                 c \in dep.cmds /\ InResps(c) /\ UnderWay(c) /\ ~InBatch(c) /\ ~InRing(c)
           /\ \A r \in AllRings : \A i \in DOMAIN done[r] : LET c == done[r][i].tag[2] IN
                 c \in dep.cmds /\ InDone(c) /\ UnderWay(c) /\ ~InBatch(c) /\ ~InRing(c)
<1>1. ASSUME NEW t \in Workers, NEW i \in DOMAIN resps[t]
      PROVE  LET c == resps[t][i].c IN c \in dep.cmds /\ InResps(c) /\ UnderWay(c) /\ ~InBatch(c) /\ ~InRing(c)
  <2>1. resps[t][i] \in Response /\ DOMAIN resps = Workers
    BY DEF TypeInv, BurstOK
  <2>2. PICK c \in dep.cmds : c = resps[t][i].c /\ RespKey[resps[t][i]] = c
    BY <2>1, Keys DEF Response
  <2>3. InResps(c)
    BY <2>1, <2>2 DEF InResps, Has, KeyIn
  <2> QED BY <2>2, <2>3 DEF FlowInv, Placed, OnlyOne
<1>2. ASSUME NEW r \in AllRings, NEW i \in DOMAIN done[r]
      PROVE  LET c == done[r][i].tag[2] IN c \in dep.cmds /\ InDone(c) /\ UnderWay(c) /\ ~InBatch(c) /\ ~InRing(c)
  <2>1. done[r][i] \in Completion /\ DOMAIN done = AllRings
    BY DEF TypeInv, UringOK
  <2>2. PICK c \in dep.cmds : c = done[r][i].tag[2] /\ DoneKey[done[r][i]] = c
    BY <2>1, Keys DEF Completion
  <2>3. InDone(c)
    BY <2>1, <2>2 DEF InDone, Has, KeyIn
  <2> QED BY <2>2, <2>3 DEF FlowInv, Placed, OnlyOne
<1> QED BY <1>1, <1>2

\* encryptor-sgx meets zeroes with a clean buffer.
LEMMA CleanBuffer ==
    ASSUME TypeInv, DiskInv, Sound(dep), NEW t \in Workers, NEW c \in dep.cmds, InBatch(c), Home(c) = t
    PROVE  CleanFor(t, c)
<1> SUFFICES ASSUME dep.prog = "encryptor_sgx", c.op = "zeroes", encdirty[t] # 0 PROVE FALSE
  BY DEF CleanFor
<1>1. PICK e \in dep.cmds : Mutates(e) /\ Home(e) = t /\ ~InBatch(e)
  BY DEF DiskInv, Dirtier
<1>2. e # c
  BY <1>1
<1>3. Home(e) # Home(c)
  BY <1>1, <1>2 DEF Sound, Home, Mutates
<1> QED BY <1>1, <1>3

\* A synchronous worker handles a command: what is on the disk and on its way
\* there.
LEMMA DiskReceive ==
    ASSUME TypeInv, FlowInv, DiskInv, Sound(dep), NEW t \in Workers, Receive(t) PROVE DiskInv'
<1>1. /\ UNCHANGED <<dep, todo, ans, val, nsq, sq, ring, done>> /\ pc[t] = "handle" /\ batch[t] # <<>>
      /\ batch' = [batch EXCEPT ![t] = Tail(batch[t])]
  BY DEF Receive, uringVars, TypeInv, BurstOK
<1>2. PICK c : c = Head(batch[t])
  OBVIOUS
<1>3. dep \in Deployments /\ c \in dep.cmds /\ Home(c) = t /\ sqids(t)[at[t]] \in Queues
  <2>1. /\ dep \in Deployments /\ at[t] \in DOMAIN sqids(t) /\ sqids(t)[at[t]] \in Queues /\ c \in dep.cmds
        /\ c.q = sqids(t)[at[t]]
    BY <1>1, <1>2, Handling
  <2> QED BY <2>1, WorkerIs DEF Home
<1>4. InBatch(c) /\ \A d : InBatch(d)' <=> (InBatch(d) /\ d # c)
  BY <1>1, <1>2, Taken
<1>5. UnderWay(c) /\ ~InNsq(c) /\ c \notin todo
  BY <1>3, <1>4 DEF FlowInv, Placed, OnlyOne, UnderWay
<1>6. PICK o \in Outcomes(t, c) :
         /\ resps' = [resps EXCEPT ![t] = Append(@, [q |-> sqids(t)[at[t]], c |-> c, st |-> o.st])]
         /\ IF c.op = "read"
              THEN buf' = [buf EXCEPT ![c.id] = Over(@, o.w)] /\ UNCHANGED disk
              ELSE disk' = Over(disk, o.w) /\ UNCHANGED buf
  BY <1>2 DEF Receive
<1>7. Typed(c, o) /\ Acks(c, o)
  BY <1>3, <1>4, OutcomeIs, CleanBuffer
<1>8. o.how = "reply"
  <2>1. ~loop.async
    BY DEF Receive
  <2> QED BY <1>7, <2>1 DEF Typed
<1>9. /\ \A a \in Addrs : val[a] # Unknown => disk'[a] = disk[a]
      /\ \A d \in dep.cmds : UnderWay(d) /\ d # c => \A a \in Blocks(d) : disk'[a] = disk[a]
      /\ o.st = "ok" /\ Mutates(c) => OnDisk(c)'
  <2>1. CASE c.op = "read"
    BY <1>6, <2>1 DEF Mutates
  <2>2. CASE c.op # "read"
    <3>1. o.w \in Writes /\ DOMAIN o.w \subseteq Blocks(c) /\ disk' = Over(disk, o.w)
      BY <1>6, <1>7, <2>2 DEF Typed
    <3>2. o.st = "ok" /\ Mutates(c) => Right(c, o.w)
      BY <1>7, <1>8 DEF Acks
    <3> QED BY <1>1, <1>3, <1>5, <2>2, <3>1, <3>2, Touched DEF DiskInv
  <2> QED BY <2>1, <2>2
<1>10. AckedOnDisk' /\ Forgotten' /\ Prepared'
  BY <1>1, <1>9, StillAcked, DiskFrames DEF DiskInv
<1>11. Performed'
  <2>1. ASSUME NEW d \in dep.cmds, UnderWay(d), ~InBatch(d), OnDisk(d) PROVE OnDisk(d)'
    BY <1>1, <1>4, <1>9, <2>1, Untouched
  <2>2. ASSUME NEW r \in AllRings, NEW i \in DOMAIN done[r], NEW d, d = done[r][i].tag[2], done[r][i].res >= 0, Mutates(d)
        PROVE  OnDisk(d)'
    BY <2>1, <2>2, Waiting DEF DiskInv, Performed
  <2>3. ASSUME NEW u \in Workers, NEW i \in DOMAIN resps[u], NEW d, d = resps[u][i].c, resps[u][i].st = "ok", Mutates(d)
        PROVE  OnDisk(d)'
    BY <2>1, <2>3, Waiting DEF DiskInv, Performed
  <2>4. PICK x : x = [q |-> sqids(t)[at[t]], c |-> c, st |-> o.st]
    OBVIOUS
  <2>5. x \in Response /\ x.c = c /\ x.st = o.st
    BY <1>3, <1>7, <2>4 DEF Response, Typed
  <2>6. PICK s \in Seq(Response) : s = resps[t] /\ resps \in [Workers -> Seq(Response)]
    BY DEF TypeInv, BurstOK
  <2>7. PICK z : z = Append(s, x)
    OBVIOUS
  <2>8. \A i \in DOMAIN z : z[i] = x \/ \E j \in DOMAIN s : z[i] = s[j]
    BY <2>5, <2>6, <2>7, Elements
  <2>9. resps' = [resps EXCEPT ![t] = z]
    BY <1>6, <2>4, <2>6, <2>7
  <2>10. ASSUME NEW u \in Workers, NEW i \in DOMAIN resps'[u], NEW d, d = resps'[u][i].c, resps'[u][i].st = "ok", Mutates(d)
         PROVE  OnDisk(d)'
    <3>1. CASE u # t
      BY <2>3, <2>6, <2>9, <2>10, <3>1
    <3>2. CASE u = t
      <4>1. resps'[u] = z
        BY <2>6, <2>9, <3>2
      <4>2. CASE z[i] = x
        BY <1>9, <2>5, <2>10, <4>1, <4>2
      <4>3. ASSUME NEW j \in DOMAIN s, z[i] = s[j] PROVE OnDisk(d)'
        BY <2>3, <2>6, <2>10, <3>2, <4>1, <4>3
      <4> QED BY <2>8, <2>10, <4>1, <4>2, <4>3
    <3> QED BY <3>1, <3>2
  <2> QED BY <1>1, <2>2, <2>10, Static DEF Performed, Mutates, AllRings
<1>12. Dirtier'
  <2> SUFFICES ASSUME NEW u \in Workers, encdirty'[u] # 0
               PROVE  \E e \in dep.cmds : Mutates(e) /\ Home(e) = u /\ e \notin todo /\ ~InNsq(e)' /\ ~InBatch(e)'
    BY <1>1, Static DEF Dirtier, Mutates
  <2>1. \A d : InNsq(d)' <=> InNsq(d)
    BY <1>1, PlaceFrames
  <2>2. CASE encdirty[u] # 0
    BY <1>4, <2>1, <2>2 DEF DiskInv, Dirtier
  <2>3. CASE encdirty[u] = 0
    <3>1. u = t /\ Dirtied(c) # 0
      <4>1. encdirty' = IF dep.prog = "encryptor_sgx" /\ Dirtied(c) > encdirty[t]
                          THEN [encdirty EXCEPT ![t] = Dirtied(c)] ELSE encdirty
        BY <1>2 DEF Receive
      <4>2. encdirty \in [Workers -> 0 .. Cardinality(Lbas)]
        BY DEF TypeInv, RegsOK
      <4> QED BY <2>3, <4>1, <4>2
    <3>2. Mutates(c)
      BY <3>1 DEF Dirtied, Mutates
    <3> QED BY <1>3, <1>4, <1>5, <2>1, <3>1, <3>2
  <2> QED BY <2>2, <2>3
<1> QED BY <1>10, <1>11, <1>12 DEF DiskInv

\* A worker posts its responses: what is on the disk and on its way there.
LEMMA DiskProduce == ASSUME TypeInv, FlowInv, DiskInv, NEW t \in Workers, Produce(t) PROVE DiskInv'
<1>1. /\ UNCHANGED <<dep, todo, nsq, disk, batch, encdirty, sq, ring, done>> /\ Post(resps[t])
      /\ resps' = [resps EXCEPT ![t] = <<>>] /\ resps \in [Workers -> Seq(Response)]
  BY DEF Produce, uringVars, TypeInv, BurstOK
<1>2. PICK rs : rs = resps[t]
  OBVIOUS
<1>3. Proper(rs) /\ Post(rs) /\ \A i \in DOMAIN rs : rs[i].st = "ok" /\ Mutates(rs[i].c) => OnDisk(rs[i].c)
  BY <1>1, <1>2, Answering DEF DiskInv, Performed
<1>4. AckedOnDisk' /\ Forgotten'
  BY <1>1, <1>3, Acknowledged DEF DiskInv
<1>5. Prepared'
  BY <1>1, DiskFrames DEF DiskInv
<1>6. Performed'
  <2>1. DOMAIN <<>> = {}
    OBVIOUS
  <2>2. \A u \in Workers : \A i \in DOMAIN resps'[u] : i \in DOMAIN resps[u] /\ resps'[u][i] = resps[u][i]
    BY <1>1, <2>1
  <2>3. \A d : OnDisk(d)' <=> OnDisk(d)
    BY <1>1, DiskFrames
  <2>4. \A u \in Workers : \A i \in DOMAIN resps'[u] :
           resps'[u][i].st = "ok" /\ Mutates(resps'[u][i].c) => OnDisk(resps'[u][i].c)
    BY <2>2 DEF DiskInv, Performed
  <2> QED BY <1>1, <2>3, <2>4, Static DEF DiskInv, Performed, Mutates, AllRings
<1>7. Dirtier'
  BY <1>1, PlaceFrames, DirtierFrame DEF DiskInv
<1> QED BY <1>4, <1>5, <1>6, <1>7 DEF DiskInv

\* An asynchronous worker submits a command: what is on the disk and on its
\* way there.
LEMMA DiskSubmit ==
    ASSUME TypeInv, FlowInv, DiskInv, Sound(dep), NEW t \in Workers, Submit(t) PROVE DiskInv'
<1>1. /\ UNCHANGED <<dep, todo, nsq, disk, encdirty, resps, ring, done>> /\ pc[t] = "handle" /\ loop.async
      /\ batch' = [batch EXCEPT ![t] = Tail(batch[t])]
  BY DEF Submit, TypeInv, BurstOK
<1>2. PICK c : c = Head(batch[t])
  OBVIOUS
<1>3. dep \in Deployments /\ batch[t] # <<>> /\ c \in dep.cmds /\ Home(c) = t
  BY <1>2, Submitting
<1>4. InBatch(c) /\ \A d : InBatch(d)' <=> (InBatch(d) /\ d # c)
  BY <1>1, <1>2, <1>3, Taken
<1>5. PICK o \in Outcomes(t, c) : Typed(c, o) /\ (SubmitQueue(c, o) \/ SubmitReply(c, o) \/ SubmitThrow(o))
  BY <1>2, Submitting
<1>6. Acks(c, o)
  BY <1>3, <1>4, OutcomeIs, CleanBuffer
<1>7. Performed' /\ Dirtier'
  <2>1. \A d \in dep.cmds : InNsq(d)' \/ InBatch(d)' => InNsq(d) \/ InBatch(d)
    BY <1>1, <1>4, PlaceFrames
  <2> QED BY <1>1, <2>1, DiskFrames, DirtierFrame DEF DiskInv
<1>8. CASE SubmitQueue(c, o)
  <2>1. PICK r \in AllRings, e \in Entry : e.tag[2] = c /\ e.w = o.w /\ sq' = [sq EXCEPT ![r] = Append(sq[r], e)]
    BY <1>8 DEF SubmitQueue
  <2>2. Mutates(c) => Right(c, e.w)
    BY <1>5, <1>6, <1>8, <2>1 DEF Acks, Typed, SubmitQueue
  <2>3. PICK s \in Seq(Entry) : s = sq[r] /\ sq \in [AllRings -> Seq(Entry)]
    BY <2>1 DEF TypeInv, UringOK
  <2>4. PICK z : z = Append(s, e)
    OBVIOUS
  <2>5. \A i \in DOMAIN z : z[i] = e \/ \E j \in DOMAIN s : z[i] = s[j]
    BY <2>1, <2>3, <2>4, Elements
  <2>6. ASSUME NEW u \in AllRings, NEW i \in DOMAIN sq'[u], NEW f, f = sq'[u][i], Mutates(f.tag[2]) PROVE Right(f.tag[2], f.w)
    <3>1. CASE u # r
      BY <2>1, <2>3, <2>6, <3>1 DEF DiskInv, Prepared
    <3>2. CASE u = r
      <4>1. sq'[u] = z
        BY <2>1, <2>3, <2>4, <3>2
      <4>2. CASE f = e
        BY <2>1, <2>2, <2>6, <4>2
      <4>3. ASSUME NEW j \in DOMAIN s, f = s[j] PROVE Right(f.tag[2], f.w)
        BY <2>1, <2>3, <2>6, <4>3 DEF DiskInv, Prepared
      <4> QED BY <2>5, <2>6, <4>1, <4>2, <4>3
    <3> QED BY <3>1, <3>2
  <2>7. Prepared'
    BY <1>1, <2>6, DiskFrames DEF DiskInv, Prepared, Mutates, AllRings
  <2>8. AckedOnDisk' /\ Forgotten'
    BY <1>1, <1>8, DiskFrames DEF DiskInv, SubmitQueue
  <2> QED BY <1>7, <2>7, <2>8 DEF DiskInv
<1>9. CASE SubmitReply(c, o)
  <2>1. PICK rs : rs = <<[q |-> c.q, c |-> c, st |-> o.st]>>
    OBVIOUS
  <2>2. UnderWay(c)
    BY <1>3, <1>4 DEF FlowInv, Placed
  <2>3. Proper(rs) /\ Post(rs) /\ \A i \in DOMAIN rs : rs[i].c = c /\ rs[i].st = o.st
    <3>1. Proper(rs) /\ DOMAIN rs = {1} /\ rs[1].c = c /\ rs[1].st = o.st
      BY <1>3, <1>5, <2>1, <2>2, OneReply DEF Typed
    <3> QED BY <1>9, <2>1, <3>1 DEF SubmitReply
  <2>4. \A i \in DOMAIN rs : ~(rs[i].st = "ok" /\ Mutates(rs[i].c))
    BY <1>1, <1>5, <1>9, <2>3 DEF Typed, SubmitReply
  <2>5. AckedOnDisk' /\ Forgotten'
    BY <1>1, <2>3, <2>4, Acknowledged DEF DiskInv
  <2>6. Prepared'
    BY <1>1, <1>9, DiskFrames DEF DiskInv, SubmitReply
  <2> QED BY <1>7, <2>5, <2>6 DEF DiskInv
<1>10. CASE SubmitThrow(o)
  <2>1. AckedOnDisk' /\ Forgotten' /\ Prepared'
    BY <1>1, <1>10, DiskFrames DEF DiskInv, SubmitThrow
  <2> QED BY <1>7, <2>1 DEF DiskInv
<1> QED BY <1>5, <1>8, <1>9, <1>10

\* A worker submits what was prepared: what is on the disk and on its way
\* there.
LEMMA DiskKick == ASSUME TypeInv, FlowInv, DiskInv, NEW t \in Workers, Kick(t) PROVE DiskInv'
<1>1. UNCHANGED <<dep, todo, ans, val, nsq, disk, encdirty, batch, resps, done>>
  BY DEF Kick, guestVars
<1>2. AckedOnDisk' /\ Forgotten' /\ Performed' /\ Dirtier'
  BY <1>1, DiskFrames, PlaceFrames, DirtierFrame DEF DiskInv
<1>3. PICK S : S = Kicked(t)
  OBVIOUS
<1>4. /\ ring' = [r \in AllRings |-> IF r \in S THEN ring[r] \union {sq[r][i] : i \in DOMAIN sq[r]} ELSE ring[r]]
      /\ sq' = [r \in AllRings |-> IF r \in S THEN <<>> ELSE sq[r]]
  BY <1>3 DEF Kick, TypeInv, UringOK
<1>5. DOMAIN <<>> = {}
  OBVIOUS
<1>6. \A r \in AllRings : /\ \A i \in DOMAIN sq'[r] : i \in DOMAIN sq[r] /\ sq'[r][i] = sq[r][i]
                          /\ \A e \in ring'[r] : e \in ring[r] \/ \E i \in DOMAIN sq[r] : e = sq[r][i]
  BY <1>4, <1>5
<1>7. ASSUME NEW r \in AllRings, NEW i \in DOMAIN sq'[r], Mutates(sq'[r][i].tag[2]) PROVE Right(sq'[r][i].tag[2], sq'[r][i].w)
  BY <1>6, <1>7 DEF DiskInv, Prepared
<1>8. ASSUME NEW r \in AllRings, NEW e \in ring'[r], Mutates(e.tag[2]) PROVE Right(e.tag[2], e.w)
  BY <1>6, <1>8 DEF DiskInv, Prepared
<1>9. Prepared'
  BY <1>1, <1>7, <1>8, DiskFrames DEF Prepared, Mutates, AllRings
<1> QED BY <1>2, <1>9 DEF DiskInv

\* A worker takes completions: what is on the disk and on its way there.
LEMMA DiskReap ==
    ASSUME TypeInv, FlowInv, DiskInv, Owned(dep), NEW t \in Workers, Reap(t) PROVE DiskInv'
<1>1. UNCHANGED <<dep, todo, nsq, disk, encdirty, batch, resps, sq, ring>>
  BY DEF Reap
<1>2. PICK r \in AllRings : \E n \in 0 .. Len(done[r]) :
             /\ at[t] \in DOMAIN Rings(t) /\ r = Rings(t)[at[t]]
             /\ Post(Reaped(t, r, n))
             /\ done' = [done EXCEPT ![r] = SubSeq(@, n + 1, Len(@))]
             /\ done[r] \in Seq(Completion)
  BY Reaping
<1>3. PICK n \in 0 .. Len(done[r]) :
             /\ at[t] \in DOMAIN Rings(t) /\ r = Rings(t)[at[t]]
             /\ Post(Reaped(t, r, n))
             /\ done' = [done EXCEPT ![r] = SubSeq(@, n + 1, Len(@))]
             /\ done[r] \in Seq(Completion)
  BY <1>2
<1>4. PICK rs : rs = Reaped(t, r, n)
  OBVIOUS
<1>5. /\ Proper(rs) /\ Post(rs) /\ DOMAIN rs = 1 .. n
      /\ \A k \in 1 .. n : /\ rs[k].c = done[r][k].tag[2] /\ k \in DOMAIN done[r]
                           /\ rs[k].st = IF done[r][k].res < 0 THEN "internal" ELSE "ok"
  BY <1>3, <1>4, Completing
<1>6. ASSUME NEW k \in DOMAIN rs, rs[k].st = "ok", Mutates(rs[k].c) PROVE OnDisk(rs[k].c)
  <2>1. PICK x \in Completion : x = done[r][k]
    BY <1>3, <1>5
  <2>2. x.res >= 0
    BY <1>5, <1>6, <2>1 DEF Completion
  <2> QED BY <1>5, <1>6, <2>1, <2>2 DEF DiskInv, Performed
<1>7. AckedOnDisk' /\ Forgotten'
  BY <1>1, <1>5, <1>6, Acknowledged DEF DiskInv
<1>8. Prepared' /\ Dirtier'
  BY <1>1, DiskFrames, PlaceFrames, DirtierFrame DEF DiskInv
<1>9. PICK s \in Seq(Completion) : s = done[r]
  BY <1>3
<1>10. PICK z : z = SubSeq(s, n + 1, Len(s))
  OBVIOUS
<1>11. \A i \in DOMAIN z : \E j \in DOMAIN s : z[i] = s[j]
  <2>1. n \in 0 .. Len(s)
    BY <1>3, <1>9
  <2>2. \A i \in DOMAIN SubSeq(s, n + 1, Len(s)) : \E j \in DOMAIN s : SubSeq(s, n + 1, Len(s))[i] = s[j]
    <3>1. s \in Seq(Completion)
      OBVIOUS
    <3> QED BY <2>1, <3>1, Elements, Zenon
  <2> QED BY <1>10, <2>2, Zenon
<1>12. done' = [done EXCEPT ![r] = z] /\ done \in [AllRings -> Seq(Completion)]
  BY <1>3, <1>9, <1>10 DEF TypeInv, UringOK
<1>13. Performed'
  <2>1. \A u \in AllRings : \A i \in DOMAIN done'[u] : \E j \in DOMAIN done[u] : done'[u][i] = done[u][j]
    BY <1>9, <1>11, <1>12
  <2>2. \A d : OnDisk(d)' <=> OnDisk(d)
    BY <1>1, DiskFrames
  <2>3. \A u \in AllRings : \A i \in DOMAIN done'[u] :
           done'[u][i].res >= 0 /\ Mutates(done'[u][i].tag[2]) => OnDisk(done'[u][i].tag[2])
    BY <2>1 DEF DiskInv, Performed
  <2> QED BY <1>1, <2>2, <2>3, Static DEF DiskInv, Performed, Mutates, AllRings
<1> QED BY <1>7, <1>8, <1>13, Zenon DEF DiskInv

\* The kernel performs an I/O: what is on the disk and on its way there.
LEMMA DiskDoIo ==
    ASSUME TypeInv, FlowInv, DiskInv, Sound(dep), NEW r \in AllRings, NEW e \in ring[r], DoIo(r, e) PROVE DiskInv'
<1>1. /\ UNCHANGED <<dep, todo, ans, val, nsq, encdirty, batch, resps, sq>>
      /\ ring' = [ring EXCEPT ![r] = ring[r] \ {e}] /\ ring \in [AllRings -> SUBSET Entry]
  BY DEF DoIo, guestVars, workerVars, TypeInv, UringOK
<1>2. PICK c \in dep.cmds : c = e.tag[2] /\ dep \in Deployments /\ e \in Entry /\ EntryOK(r, e)
  BY Performing
<1>3. PICK x \in IoResults(e), y \in Completion :
                /\ disk' = Over(disk, x.w) /\ y.tag[2] = c /\ y.res = x.res
                /\ x.w \in Writes /\ DOMAIN x.w \subseteq Blocks(c)
                /\ x.w = e.w \/ x.res = -1 \/ (x.res = 0 /\ "short" \in dep.faults /\ Counted(c))
                /\ done' = [done EXCEPT ![r] = Append(done[r], y)]
  BY <1>2, Performing
<1>4. InRing(c)
  BY <1>2 DEF InRing
<1>5. UnderWay(c) /\ c.op # "read" /\ loop.async
  BY <1>2, <1>4 DEF FlowInv, Placed, EntryOK, TagOK
<1>6. ~("short" \in dep.faults /\ Counted(c))
  BY <1>2, <1>5 DEF Sound, Counted, Sending, loop
<1>7. /\ \A a \in Addrs : val[a] # Unknown => disk'[a] = disk[a]
      /\ \A d \in dep.cmds : UnderWay(d) /\ d # c => \A a \in Blocks(d) : disk'[a] = disk[a]
      /\ Right(c, x.w) => OnDisk(c)'
  BY <1>1, <1>3, <1>5, Touched DEF DiskInv
<1>8. y.res >= 0 /\ Mutates(c) => OnDisk(c)'
  <2>1. Mutates(c) => Right(c, e.w)
    BY <1>2 DEF DiskInv, Prepared
  <2> QED BY <1>3, <1>6, <1>7, <2>1
<1>9. AckedOnDisk' /\ Forgotten' /\ Dirtier'
  BY <1>1, <1>7, StillAcked, DiskFrames, PlaceFrames, DirtierFrame DEF DiskInv
<1>10. Prepared'
  <2>1. \A u \in AllRings : \A f \in ring'[u] : f \in ring[u]
    BY <1>1
  <2>2. \A u \in AllRings : \A f \in ring'[u] : Mutates(f.tag[2]) => Right(f.tag[2], f.w)
    BY <2>1 DEF DiskInv, Prepared
  <2> QED BY <1>1, <2>2, DiskFrames DEF DiskInv, Prepared, Mutates, AllRings
<1>11. Performed'
  <2>1. ASSUME NEW d \in dep.cmds, UnderWay(d), ~InRing(d), OnDisk(d) PROVE OnDisk(d)'
    BY <1>1, <1>4, <1>7, <2>1, Untouched
  <2>2. ASSUME NEW u \in AllRings, NEW i \in DOMAIN done[u], NEW d, d = done[u][i].tag[2], done[u][i].res >= 0, Mutates(d)
        PROVE  OnDisk(d)'
    BY <2>1, <2>2, Waiting DEF DiskInv, Performed
  <2>3. ASSUME NEW u \in Workers, NEW i \in DOMAIN resps[u], NEW d, d = resps[u][i].c, resps[u][i].st = "ok", Mutates(d)
        PROVE  OnDisk(d)'
    BY <2>1, <2>3, Waiting DEF DiskInv, Performed
  <2>4. PICK s \in Seq(Completion) : s = done[r] /\ done \in [AllRings -> Seq(Completion)]
    BY DEF TypeInv, UringOK
  <2>5. PICK z : z = Append(s, y)
    OBVIOUS
  <2>6. \A i \in DOMAIN z : z[i] = y \/ \E j \in DOMAIN s : z[i] = s[j]
    BY <1>3, <2>4, <2>5, Elements
  <2>7. done' = [done EXCEPT ![r] = z]
    BY <1>3, <2>4, <2>5
  <2>8. ASSUME NEW u \in AllRings, NEW i \in DOMAIN done'[u], NEW d, d = done'[u][i].tag[2], done'[u][i].res >= 0, Mutates(d)
        PROVE  OnDisk(d)'
    <3>1. CASE u # r
      BY <2>2, <2>4, <2>7, <2>8, <3>1
    <3>2. CASE u = r
      <4>1. done'[u] = z
        BY <2>4, <2>7, <3>2
      <4>2. CASE z[i] = y
        BY <1>3, <1>8, <2>8, <4>1, <4>2
      <4>3. ASSUME NEW j \in DOMAIN s, z[i] = s[j] PROVE OnDisk(d)'
        BY <2>2, <2>4, <2>8, <3>2, <4>1, <4>3
      <4> QED BY <2>6, <2>8, <4>1, <4>2, <4>3
    <3> QED BY <3>1, <3>2
  <2> QED BY <1>1, <2>3, <2>8, Static DEF Performed, Mutates, AllRings
<1> QED BY <1>9, <1>10, <1>11 DEF DiskInv

\* Every step keeps what is on the disk and on its way there.
LEMMA DiskNext == TypeInv /\ FlowInv /\ DiskInv /\ Owned(dep) /\ Sound(dep) /\ [Next]_uifVars => DiskInv'
<1> SUFFICES ASSUME TypeInv, FlowInv, DiskInv, Owned(dep), Sound(dep), [Next]_uifVars PROVE DiskInv'
  OBVIOUS
<1>1. ASSUME NEW c \in todo, Issue(c) PROVE DiskInv'
  BY <1>1, DiskIssue
<1>2. ASSUME NEW t \in Workers, Work(t) PROVE DiskInv'
  <2>1. ASSUME Again(t) \/ NextRound(t) PROVE DiskInv'
    <3>1. UNCHANGED <<dep, todo, ans, val, disk, encdirty, nsq, batch, resps, sq, ring, done>>
      BY <2>1 DEF Again, NextRound, guestVars, uringVars
    <3> QED BY <3>1, PlaceFrames, DiskStill
  <2> QED BY <1>2, <2>1, DiskPoll, DiskReceive, DiskProduce, DiskSubmit, DiskKick, DiskReap DEF Work
<1>3. ASSUME NEW r \in AllRings, NEW e \in ring[r], DoIo(r, e) PROVE DiskInv'
  BY <1>3, DiskDoIo
<1>4. ASSUME UNCHANGED uifVars PROVE DiskInv'
  <2>1. UNCHANGED <<dep, todo, ans, val, disk, encdirty, nsq, batch, resps, sq, ring, done>>
    BY <1>4 DEF uifVars, guestVars, workerVars, uringVars
  <2> QED BY <2>1, PlaceFrames, DiskStill
<1> QED BY <1>1, <1>2, <1>3, <1>4 DEF Next, Io

\* What the guest has been told is written is on the device in the form in
\* which it is read back, for every program, number of threads and set of
\* commands, when no failure or command is met that the program acknowledges
\* without having written it.
THEOREM AckedOnDiskHolds ==
    ASSUME \A d \in Deployments : Owned(d) /\ Sound(d)
    PROVE  Spec => []AckedOnDisk
<1>1. Init => TypeInv /\ FlowInv /\ DiskInv /\ Owned(dep) /\ Sound(dep)
  BY TypeInit, FlowInit, DiskInit DEF Init
<1>2. TypeInv /\ FlowInv /\ DiskInv /\ Owned(dep) /\ Sound(dep) /\ [Next]_uifVars
        => (TypeInv /\ FlowInv /\ DiskInv /\ Owned(dep) /\ Sound(dep))'
  <2>1. TypeInv' => (Owned(dep) /\ Sound(dep))'
    BY DEF TypeInv, SysOK
  <2> QED BY <2>1, TypeNext, FlowNext, DiskNext
<1>3. DiskInv => AckedOnDisk
  BY DEF DiskInv
<1> QED BY <1>1, <1>2, <1>3, PTL DEF Spec

(***************************************************************************)
(* What reads return.                                                      *)
(***************************************************************************)
AsRead(c)    == [a \in Blocks(c) |-> disk[a]]
AsPlain(c)   == [a \in Blocks(c) |-> encrypt(View(disk[a], a), Clear)]

\* ReadInv by the names of what a buffer holds.
LEMMA ReadIs ==
    ReadInv <=>
      /\ buf = [i \in Ids |-> buf[i]]
      /\ \A c \in dep.cmds : c.op = "read" /\ (InNsq(c) \/ InBatch(c)) => buf[c.id] = AsRead(c)
      /\ \A t \in Workers : \A i \in DOMAIN resps[t] : resps[t][i].c.op = "read" /\ resps[t][i].st = "ok" =>
            buf[resps[t][i].c.id] = AsPlain(resps[t][i].c)
  BY DEF ReadInv, AsRead, AsPlain

\* A buffer that is left alone, of blocks that are left alone.
LEMMA SameData ==
    ASSUME dep' = dep, NEW c, \A a \in Blocks(c) : disk'[a] = disk[a]
    PROVE  AsRead(c)' = AsRead(c) /\ AsPlain(c)' = AsPlain(c)
<1>1. AsRead(c)' = AsRead(c)
  BY Static DEF AsRead
<1>2. AsPlain(c)' = AsPlain(c)
  BY Static DEF AsPlain, encrypt
<1> QED BY <1>1, <1>2

\* A read in the host's form is decrypted into its text.
LEMMA Decrypting ==
    ASSUME NEW c, ~Sending, buf[c.id] = AsRead(c), NEW w, w = Decrypted(c)
    PROVE  Over(buf[c.id], w) = AsPlain(c)
<1>1. w = [a \in Blocks(c) |-> encrypt(decrypt(AsRead(c)[a], a[2]), Clear)]
  BY DEF Decrypted
<1>2. \A a \in Blocks(c) : AsRead(c)[a] = disk[a] /\ View(disk[a], a) = decrypt(disk[a], a[2])
  BY DEF AsRead, View
<1>3. w = AsPlain(c) /\ DOMAIN w = Blocks(c) /\ DOMAIN AsRead(c) = Blocks(c)
  BY <1>1, <1>2 DEF AsPlain, AsRead
<1>4. PICK f : f = AsRead(c) /\ DOMAIN f = Blocks(c)
  BY <1>3
<1>5. Over(f, w) = [x \in Blocks(c) |-> w[x]]
  BY <1>3, <1>4 DEF Over
<1>6. w = [x \in Blocks(c) |-> w[x]]
  BY <1>1
<1> QED BY <1>3, <1>4, <1>5, <1>6

\* Steps that leave the buffers of commands not yet answered, and the blocks
\* they are for.
LEMMA ReadFrame ==
    ASSUME TypeInv, FlowInv, ReadInv, dep' = dep, buf' = [i \in Ids |-> buf'[i]],
           \A c \in dep.cmds : c.op = "read" /\ (InNsq(c)' \/ InBatch(c)') =>
               \/ buf'[c.id] = AsRead(c)'
               \/ /\ InNsq(c) \/ InBatch(c)
                  /\ buf'[c.id] = buf[c.id] /\ \A a \in Blocks(c) : disk'[a] = disk[a],
           \A t \in Workers : \A i \in DOMAIN resps'[t] :
               resps'[t][i].c.op = "read" /\ resps'[t][i].st = "ok" =>
               \/ \A c : c = resps'[t][i].c => buf'[c.id] = AsPlain(c)'
               \/ \E j \in DOMAIN resps[t] : \E c \in dep.cmds :
                     /\ resps'[t][i] = resps[t][j] /\ c = resps[t][j].c
                     /\ buf'[c.id] = buf[c.id] /\ \A a \in Blocks(c) : disk'[a] = disk[a]
    PROVE  ReadInv'
<1>1. buf' = [i \in Ids' |-> buf'[i]]
  BY StaticShapes
<1>2. ASSUME NEW c \in dep.cmds, c.op = "read", InNsq(c)' \/ InBatch(c)' PROVE buf'[c.id] = AsRead(c)'
  <2>1. CASE buf'[c.id] = AsRead(c)'
    BY <2>1
  <2>2. CASE /\ InNsq(c) \/ InBatch(c)
             /\ buf'[c.id] = buf[c.id] /\ \A a \in Blocks(c) : disk'[a] = disk[a]
    BY <1>2, <2>2, SameData, ReadIs
  <2> QED BY <1>2, <2>1, <2>2
<1>3. ASSUME NEW t \in Workers, NEW i \in DOMAIN resps'[t], NEW c, c = resps'[t][i].c, c.op = "read", resps'[t][i].st = "ok"
      PROVE  buf'[c.id] = AsPlain(c)'
  <2>1. CASE \A d : d = resps'[t][i].c => buf'[d.id] = AsPlain(d)'
    BY <1>3, <2>1
  <2>2. ASSUME NEW j \in DOMAIN resps[t], resps'[t][i] = resps[t][j], c = resps[t][j].c,
               buf'[c.id] = buf[c.id], \A a \in Blocks(c) : disk'[a] = disk[a]
        PROVE  buf'[c.id] = AsPlain(c)'
    <3>1. buf[c.id] = AsPlain(c)
      BY <1>3, <2>2, ReadIs
    <3> QED BY <2>2, <3>1, SameData
  <2> QED BY <1>3, <2>1, <2>2
<1>4. (ReadInv <=>
      /\ buf = [i \in Ids |-> buf[i]]
      /\ \A c \in dep.cmds : c.op = "read" /\ (InNsq(c) \/ InBatch(c)) => buf[c.id] = AsRead(c)
      /\ \A t \in Workers : \A i \in DOMAIN resps[t] : resps[t][i].c.op = "read" /\ resps[t][i].st = "ok" =>
            buf[resps[t][i].c.id] = AsPlain(resps[t][i].c))'
  BY DEF ReadInv, AsRead, AsPlain
<1> QED BY <1>1, <1>2, <1>3, <1>4, Static

\* Steps that change neither buffers nor the device.
LEMMA ReadStill ==
    ASSUME TypeInv, FlowInv, ReadInv, UNCHANGED <<dep, buf, disk>>,
           \A d \in dep.cmds : InNsq(d)' \/ InBatch(d)' => InNsq(d) \/ InBatch(d),
           \A t \in Workers : \A i \in DOMAIN resps'[t] : i \in DOMAIN resps[t] /\ resps'[t][i] = resps[t][i]
    PROVE  ReadInv'
<1>1. buf' = [i \in Ids |-> buf'[i]]
  BY DEF ReadInv
<1>2. \A t \in Workers : \A i \in DOMAIN resps[t] : resps[t][i].c \in dep.cmds
  BY Waiting
<1> QED BY <1>1, <1>2, ReadFrame

\* What the buffers of reads hold at the start.
LEMMA ReadInit == ASSUME Init PROVE ReadInv
<1>1. DOMAIN <<>> = {}
  OBVIOUS
<1>2. buf = [i \in Ids |-> buf[i]]
  BY DEF Init, Ids
<1>3. /\ \A x \in DOMAIN nsq : nsq[x] = <<>>
      /\ \A x \in DOMAIN batch : batch[x] = <<>>
      /\ \A x \in Workers : resps[x] = <<>>
  BY DEF Init
<1>4. \A c : ~InNsq(c) /\ ~InBatch(c)
  BY <1>1, <1>3 DEF InNsq, InBatch, Has, KeyIn
<1> QED BY <1>1, <1>2, <1>3, <1>4, ReadIs

\* The guest issues a command: what the buffers of reads hold.
LEMMA ReadIssue == ASSUME TypeInv, FlowInv, ReadInv, NEW c, Issue(c) PROVE ReadInv'
<1>1. /\ UNCHANGED <<dep, ans, disk, batch, resps>> /\ c \in todo /\ c \in dep.cmds /\ dep \in Deployments
      /\ \A d, e \in dep.cmds : d.id = e.id => d = e
  BY Deployed DEF Issue, TypeInv, SysOK, workerVars
<1>2. buf = [i \in Ids |-> buf[i]] /\ c.id \in Ids /\ \A d \in dep.cmds : d.id \in Ids
  BY <1>1, ReadIs DEF Ids
<1>3. /\ buf' = [i \in Ids |-> buf'[i]]
      /\ \A d \in dep.cmds : d # c => buf'[d.id] = buf[d.id]
      /\ c.op = "read" => buf'[c.id] = AsRead(c)
  <2>1. CASE c.op = "read"
    <3>1. buf' = [buf EXCEPT ![c.id] = AsRead(c)]
      BY <2>1 DEF Issue, AsRead
    <3>2. PICK m : m = AsRead(c)
      OBVIOUS
    <3>3. buf' = [i \in Ids |-> IF i = c.id THEN m ELSE buf[i]]
      BY <1>2, <3>1, <3>2
    <3> QED BY <1>1, <1>2, <3>2, <3>3
  <2>2. CASE c.op # "read"
    BY <1>2, <2>2 DEF Issue
  <2> QED BY <2>1, <2>2
<1>4. AsRead(c)' = AsRead(c)
  BY <1>1, SameData
<1>5. \A d : (InNsq(d)' <=> (InNsq(d) \/ d = c)) /\ (InBatch(d)' <=> InBatch(d))
  BY <1>1, FlowIssue, PlaceFrames
<1>6. ~UnderWay(c)
  BY <1>1 DEF UnderWay
<1>7. \A t \in Workers : \A i \in DOMAIN resps[t] : resps[t][i].c \in dep.cmds /\ resps[t][i].c # c
  BY <1>6, Waiting
<1> QED BY <1>1, <1>3, <1>4, <1>5, <1>7, ReadFrame

\* A worker takes a burst from a ring: what the buffers of reads hold.
LEMMA ReadPoll == ASSUME TypeInv, FlowInv, ReadInv, NEW t \in Workers, Poll(t) PROVE ReadInv'
<1>1. UNCHANGED <<dep, buf, disk, resps>>
  BY DEF Poll, guestVars
<1> QED BY <1>1, FlowPoll, ReadStill

\* A synchronous worker handles a command: what the buffers of reads hold.
LEMMA ReadReceive == ASSUME TypeInv, FlowInv, DiskInv, ReadInv, NEW t \in Workers, Receive(t) PROVE ReadInv'
<1>1. /\ UNCHANGED <<dep, nsq>> /\ pc[t] = "handle" /\ batch[t] # <<>>
      /\ batch' = [batch EXCEPT ![t] = Tail(batch[t])]
  BY DEF Receive, TypeInv, BurstOK
<1>2. PICK c : c = Head(batch[t])
  OBVIOUS
<1>3. dep \in Deployments /\ c \in dep.cmds /\ sqids(t)[at[t]] \in Queues
      /\ \A d, e \in dep.cmds : d.id = e.id => d = e
  BY <1>1, <1>2, Handling, Deployed
<1>4. InBatch(c) /\ UnderWay(c) /\ ~InNsq(c) /\ \A d : InBatch(d)' <=> (InBatch(d) /\ d # c)
  BY <1>1, <1>2, <1>3, Taken DEF FlowInv, Placed, OnlyOne
<1>5. PICK o \in Outcomes(t, c) :
         /\ resps' = [resps EXCEPT ![t] = Append(@, [q |-> sqids(t)[at[t]], c |-> c, st |-> o.st])]
         /\ IF c.op = "read"
              THEN buf' = [buf EXCEPT ![c.id] = Over(@, o.w)] /\ UNCHANGED disk
              ELSE disk' = Over(disk, o.w) /\ UNCHANGED buf
  BY <1>2 DEF Receive
<1>6. Typed(c, o) /\ ~loop.async
  BY <1>3, OutcomeIs DEF Receive
<1>7. buf = [i \in Ids |-> buf[i]] /\ c.id \in Ids /\ \A d \in dep.cmds : d.id \in Ids
  BY <1>3, ReadIs DEF Ids
<1>8. /\ buf' = [i \in Ids |-> buf'[i]]
      /\ \A d \in dep.cmds : d # c => buf'[d.id] = buf[d.id]
      /\ \A d \in dep.cmds : UnderWay(d) /\ d # c => \A a \in Blocks(d) : disk'[a] = disk[a]
      /\ c.op = "read" /\ o.st = "ok" => buf'[c.id] = AsPlain(c)'
  <2>1. CASE c.op = "read"
    <3>1. PICK m : m = Over(buf[c.id], o.w)
      OBVIOUS
    <3>2. disk' = disk /\ buf' = [i \in Ids |-> IF i = c.id THEN m ELSE buf[i]]
      BY <1>5, <1>7, <2>1, <3>1
    <3>3. ASSUME o.st = "ok" PROVE m = AsPlain(c)'
      <4>1. ~Sending /\ o.w = Decrypted(c)
        BY <1>6, <2>1, <3>3 DEF Typed
      <4>2. buf[c.id] = AsRead(c)
        BY <1>3, <1>4, <2>1, ReadIs
      <4>3. m = AsPlain(c)
        BY <3>1, <4>1, <4>2, Decrypting
      <4> QED BY <1>1, <3>2, <4>3, SameData
    <3> QED BY <1>3, <1>7, <2>1, <3>2, <3>3
  <2>2. CASE c.op # "read"
    <3>1. o.w \in Writes /\ DOMAIN o.w \subseteq Blocks(c) /\ disk' = Over(disk, o.w) /\ buf' = buf
      BY <1>5, <1>6, <2>2 DEF Typed
    <3> QED BY <1>1, <1>3, <1>4, <1>7, <2>2, <3>1, Touched DEF DiskInv
  <2> QED BY <2>1, <2>2
<1>9. ASSUME NEW d \in dep.cmds, InNsq(d)' \/ InBatch(d)'
      PROVE  /\ InNsq(d) \/ InBatch(d)
             /\ buf'[d.id] = buf[d.id] /\ \A a \in Blocks(d) : disk'[a] = disk[a]
  <2>1. (InNsq(d) \/ InBatch(d)) /\ d # c
    BY <1>1, <1>4, <1>9, PlaceFrames
  <2>2. UnderWay(d)
    BY <2>1 DEF FlowInv, Placed
  <2> QED BY <1>8, <2>1, <2>2
<1>10. PICK x : x = [q |-> sqids(t)[at[t]], c |-> c, st |-> o.st]
  OBVIOUS
<1>11. x \in Response /\ x.c = c /\ x.st = o.st
  BY <1>3, <1>6, <1>10 DEF Response, Typed
<1>12. PICK s \in Seq(Response) : s = resps[t] /\ resps \in [Workers -> Seq(Response)]
  BY DEF TypeInv, BurstOK
<1>13. PICK z : z = Append(s, x)
  OBVIOUS
<1>14. \A i \in DOMAIN z : z[i] = x \/ \E j \in DOMAIN s : z[i] = s[j]
  BY <1>11, <1>12, <1>13, Elements
<1>15. resps' = [resps EXCEPT ![t] = z]
  BY <1>5, <1>10, <1>12, <1>13
<1>16. ASSUME NEW u \in Workers, NEW j \in DOMAIN resps[u]
       PROVE  \E d \in dep.cmds : /\ d = resps[u][j].c
                                  /\ buf'[d.id] = buf[d.id] /\ \A a \in Blocks(d) : disk'[a] = disk[a]
  <2>1. PICK d \in dep.cmds : d = resps[u][j].c /\ UnderWay(d) /\ ~InBatch(d)
    BY Waiting
  <2> QED BY <1>4, <1>8, <2>1
<1>17. ASSUME NEW u \in Workers, NEW i \in DOMAIN resps'[u], resps'[u][i].c.op = "read", resps'[u][i].st = "ok"
       PROVE  \/ \A d : d = resps'[u][i].c => buf'[d.id] = AsPlain(d)'
              \/ \E j \in DOMAIN resps[u] : \E d \in dep.cmds :
                    /\ resps'[u][i] = resps[u][j] /\ d = resps[u][j].c
                    /\ buf'[d.id] = buf[d.id] /\ \A a \in Blocks(d) : disk'[a] = disk[a]
  <2>1. CASE \E j \in DOMAIN resps[u] : resps'[u][i] = resps[u][j]
    BY <1>16, <2>1
  <2>2. CASE u = t /\ resps'[u][i] = x
    <3>1. c.op = "read" /\ o.st = "ok"
      BY <1>11, <1>17, <2>2
    <3>2. buf'[c.id] = AsPlain(c)'
      BY <1>8, <3>1
    <3>3. \A d : d = c => buf'[d.id] = AsPlain(d)'
      BY <3>2
    <3> QED BY <1>11, <2>2, <3>3
  <2> QED BY <1>12, <1>14, <1>15, <1>17, <2>1, <2>2
<1> QED BY <1>1, <1>8, <1>9, <1>17, ReadFrame

\* A worker posts its responses: what the buffers of reads hold.
LEMMA ReadProduce == ASSUME TypeInv, FlowInv, ReadInv, NEW t \in Workers, Produce(t) PROVE ReadInv'
<1>1. /\ UNCHANGED <<dep, buf, disk, nsq, batch>> /\ resps' = [resps EXCEPT ![t] = <<>>]
      /\ resps \in [Workers -> Seq(Response)]
  BY DEF Produce, TypeInv, BurstOK
<1>2. DOMAIN <<>> = {}
  OBVIOUS
<1>3. \A u \in Workers : \A i \in DOMAIN resps'[u] : i \in DOMAIN resps[u] /\ resps'[u][i] = resps[u][i]
  BY <1>1, <1>2
<1> QED BY <1>1, <1>3, PlaceFrames, ReadStill

\* An asynchronous worker submits a command: what the buffers of reads hold.
LEMMA ReadSubmit == ASSUME TypeInv, FlowInv, ReadInv, NEW t \in Workers, Submit(t) PROVE ReadInv'
<1>1. /\ UNCHANGED <<dep, nsq, disk, resps>> /\ pc[t] = "handle"
      /\ batch' = [batch EXCEPT ![t] = Tail(batch[t])]
  BY DEF Submit, TypeInv, BurstOK
<1>2. PICK c : c = Head(batch[t])
  OBVIOUS
<1>3. dep \in Deployments /\ batch[t] # <<>> /\ c \in dep.cmds /\ \A d, e \in dep.cmds : d.id = e.id => d = e
  BY <1>2, Submitting, Deployed
<1>4. InBatch(c) /\ ~InNsq(c) /\ \A d : InBatch(d)' <=> (InBatch(d) /\ d # c)
  BY <1>1, <1>2, <1>3, Taken DEF FlowInv, Placed, OnlyOne
<1>5. PICK o \in Outcomes(t, c) : SubmitQueue(c, o) \/ SubmitReply(c, o) \/ SubmitThrow(o)
  BY <1>2, Submitting
<1>6. buf = [i \in Ids |-> buf[i]] /\ c.id \in Ids /\ \A d \in dep.cmds : d.id \in Ids
  BY <1>3, ReadIs DEF Ids
<1>7. buf' = [i \in Ids |-> buf'[i]] /\ \A d \in dep.cmds : d # c => buf'[d.id] = buf[d.id]
  <2>1. CASE buf' = buf
    BY <1>6, <2>1
  <2>2. CASE buf' = [buf EXCEPT ![c.id] = Over(@, o.w)]
    <3>1. PICK m : m = Over(buf[c.id], o.w)
      OBVIOUS
    <3>2. buf' = [i \in Ids |-> IF i = c.id THEN m ELSE buf[i]]
      BY <1>6, <2>2, <3>1
    <3> QED BY <1>3, <1>6, <3>2
  <2> QED BY <1>5, <2>1, <2>2 DEF SubmitQueue, SubmitReply, SubmitThrow
<1>8. \A d : InNsq(d)' <=> InNsq(d)
  BY <1>1, PlaceFrames
<1>9. \A u \in Workers : \A i \in DOMAIN resps[u] : resps[u][i].c \in dep.cmds /\ resps[u][i].c # c
  BY <1>4, Waiting
<1> QED BY <1>1, <1>4, <1>7, <1>8, <1>9, ReadFrame

\* The kernel performs an I/O: what the buffers of reads hold.
LEMMA ReadDoIo ==
    ASSUME TypeInv, FlowInv, DiskInv, ReadInv, NEW r \in AllRings, NEW e \in ring[r], DoIo(r, e) PROVE ReadInv'
<1>1. UNCHANGED <<dep, buf, nsq, batch, resps>>
  BY DEF DoIo, guestVars, workerVars
<1>2. PICK c \in dep.cmds : c = e.tag[2] /\ EntryOK(r, e)
  BY Performing
<1>3. PICK x \in IoResults(e) : disk' = Over(disk, x.w) /\ x.w \in Writes /\ DOMAIN x.w \subseteq Blocks(c)
  BY <1>2, Performing
<1>4. InRing(c) /\ c.op # "read"
  BY <1>2 DEF InRing, EntryOK, TagOK
<1>5. UnderWay(c) /\ ~InNsq(c) /\ ~InBatch(c)
  BY <1>4 DEF FlowInv, Placed, OnlyOne
<1>6. \A d \in dep.cmds : UnderWay(d) /\ d # c => \A a \in Blocks(d) : disk'[a] = disk[a]
  BY <1>1, <1>3, <1>4, <1>5, Touched DEF DiskInv
<1>7. ASSUME NEW d \in dep.cmds, InNsq(d)' \/ InBatch(d)'
      PROVE  (InNsq(d) \/ InBatch(d)) /\ \A a \in Blocks(d) : disk'[a] = disk[a]
  <2>1. (InNsq(d) \/ InBatch(d)) /\ d # c
    BY <1>1, <1>5, <1>7, PlaceFrames
  <2>2. UnderWay(d)
    BY <2>1 DEF FlowInv, Placed
  <2> QED BY <1>6, <2>1, <2>2
<1>8. ASSUME NEW u \in Workers, NEW j \in DOMAIN resps[u]
      PROVE  \E d \in dep.cmds : d = resps[u][j].c /\ \A a \in Blocks(d) : disk'[a] = disk[a]
  <2>1. PICK d \in dep.cmds : d = resps[u][j].c /\ UnderWay(d) /\ ~InRing(d)
    BY Waiting
  <2> QED BY <1>4, <1>6, <2>1
<1>9. buf' = [i \in Ids |-> buf'[i]]
  BY <1>1, ReadIs
<1> QED BY <1>1, <1>7, <1>8, <1>9, ReadFrame

\* Every step keeps what the buffers of reads hold.
LEMMA ReadNext == TypeInv /\ FlowInv /\ DiskInv /\ ReadInv /\ [Next]_uifVars => ReadInv'
<1> SUFFICES ASSUME TypeInv, FlowInv, DiskInv, ReadInv, [Next]_uifVars PROVE ReadInv'
  OBVIOUS
<1>1. ASSUME NEW c \in todo, Issue(c) PROVE ReadInv'
  BY <1>1, ReadIssue
<1>2. ASSUME NEW t \in Workers, Work(t) PROVE ReadInv'
  <2>1. ASSUME Again(t) \/ NextRound(t) \/ Kick(t) \/ Reap(t) PROVE ReadInv'
    <3>1. UNCHANGED <<dep, buf, disk, nsq, batch, resps>>
      BY <2>1 DEF Again, NextRound, Kick, Reap, guestVars, uringVars
    <3> QED BY <3>1, PlaceFrames, ReadStill, Zenon
  <2> QED BY <1>2, <2>1, ReadPoll, ReadReceive, ReadProduce, ReadSubmit DEF Work
<1>3. ASSUME NEW r \in AllRings, NEW e \in ring[r], DoIo(r, e) PROVE ReadInv'
  BY <1>3, ReadDoIo
<1>4. ASSUME UNCHANGED uifVars PROVE ReadInv'
  <2>1. UNCHANGED <<dep, buf, disk, nsq, batch, resps>>
    BY <1>4 DEF uifVars, guestVars, workerVars, uringVars
  <2> QED BY <2>1, PlaceFrames, ReadStill
<1> QED BY <1>1, <1>2, <1>3, <1>4 DEF Next, Io

\* A read that a step answers with success.
Returned(c) == c.op = "read" /\ ans[c.id] = <<>> /\ ans'[c.id] # <<>> /\ ans'[c.id][1].st = "ok"
Returns(c)  == \A a \in Blocks(c) : val[a] # Unknown => buf'[c.id][a] = encrypt(val[a], Clear)

\* The plaintext of what is on the device is what the guest knows to be there.
LEMMA PlainIsKnown ==
    ASSUME TypeInv, AckedOnDisk, NEW c \in dep.cmds, buf'[c.id] = AsPlain(c)
    PROVE  Returns(c)
<1>1. Blocks(c) \subseteq Addrs
  BY CommandIs DEF TypeInv, SysOK
<1>2. \A a \in Blocks(c) : buf'[c.id][a] = encrypt(View(disk[a], a), Clear)
  BY DEF AsPlain
<1> QED BY <1>1, <1>2 DEF Returns, AckedOnDisk

\* A command that becomes answered with success is one of the responses just
\* posted.
LEMMA ReturnedBy ==
    ASSUME TypeInv, FlowInv, dep' = dep, todo' = todo, NEW rs, Proper(rs), Post(rs), NEW c \in dep.cmds, Returned(c)
    PROVE  \E i \in DOMAIN rs : rs[i].c = c /\ rs[i].st = "ok"
<1>1. PICK i \in DOMAIN rs : rs[i].c = c /\ ans'[c.id] = <<Answer(rs[i])>>
  <2>1. ans'[c.id] # ans[c.id]
    BY DEF Returned
  <2> QED BY <2>1, Posting
<1>2. <<Answer(rs[i])>>[1] = Answer(rs[i]) /\ Answer(rs[i]).st = rs[i].st
  BY DEF Answer
<1> QED BY <1>1, <1>2 DEF Returned

\* A read that becomes answered with success has its text in the buffer.
LEMMA ReadStep ==
    ASSUME TypeInv, FlowInv, DiskInv, ReadInv, Owned(dep), [Next]_uifVars, NEW c \in dep.cmds, Returned(c)
    PROVE  Returns(c)
<1>1. ans' # ans
  BY Zenon DEF Returned
<1>2. PICK t \in Workers : Produce(t) \/ Submit(t) \/ Reap(t)
  BY <1>1 DEF Next, Io, Work, Issue, Poll, Receive, Again, Kick, NextRound, DoIo, guestVars, uifVars
<1>3. CASE Produce(t)
  <2>1. UNCHANGED <<dep, todo, buf>> /\ Post(resps[t])
    BY <1>3 DEF Produce
  <2>2. PICK i \in DOMAIN resps[t] : resps[t][i].c = c /\ resps[t][i].st = "ok"
    BY <2>1, Answering, ReturnedBy
  <2>3. buf[c.id] = AsPlain(c)
    BY <2>2, ReadIs DEF Returned
  <2> QED BY <2>1, <2>3, PlainIsKnown DEF DiskInv
<1>4. CASE Submit(t)
  <2>1. PICK d : d = Head(batch[t])
    OBVIOUS
  <2>2. dep \in Deployments /\ batch[t] # <<>> /\ d \in dep.cmds
    BY <1>4, <2>1, Submitting
  <2>3. UNCHANGED <<dep, todo>> /\ pc[t] = "handle" /\ batch' = [batch EXCEPT ![t] = Tail(batch[t])]
    BY <1>4 DEF Submit, TypeInv, BurstOK
  <2>4. InBatch(d) /\ UnderWay(d)
    BY <2>1, <2>2, <2>3, Taken DEF FlowInv, Placed
  <2>5. PICK o \in Outcomes(t, d) : Typed(d, o) /\ (SubmitQueue(d, o) \/ SubmitReply(d, o) \/ SubmitThrow(o))
    BY <1>4, <2>1, Submitting
  <2>6. SubmitReply(d, o)
    BY <1>1, <2>5 DEF SubmitQueue, SubmitThrow
  <2>7. PICK rs : rs = <<[q |-> d.q, c |-> d, st |-> o.st]>>
    OBVIOUS
  <2>8. Proper(rs) /\ Post(rs) /\ DOMAIN rs = {1} /\ rs[1].c = d /\ rs[1].st = o.st
    BY <2>2, <2>4, <2>5, <2>6, <2>7, OneReply DEF SubmitReply, Typed
  <2>9. c = d /\ o.st = "ok"
    BY <2>3, <2>8, ReturnedBy
  <2>10. ~Sending /\ o.w = Decrypted(c) /\ c.op = "read"
    BY <2>5, <2>6, <2>9 DEF Typed, SubmitReply, Returned
  <2>11. buf[c.id] = AsRead(c) /\ buf = [i \in Ids |-> buf[i]]
    BY <2>4, <2>9, <2>10, ReadIs
  <2>12. Over(buf[c.id], o.w) = AsPlain(c)
    BY <2>10, <2>11, Decrypting
  <2>13. buf'[c.id] = Over(buf[c.id], o.w)
    <3>1. buf' = [buf EXCEPT ![c.id] = Over(buf[c.id], o.w)]
      BY <2>6, <2>9, <2>10 DEF SubmitReply
    <3>2. c.id \in DOMAIN buf
      BY <2>11 DEF Ids
    <3> QED BY <3>1, <3>2
  <2> QED BY <2>12, <2>13, PlainIsKnown DEF DiskInv
<1>5. CASE Reap(t)
  <2>1. UNCHANGED <<dep, todo>>
    BY <1>5 DEF Reap
  <2>2. PICK r \in AllRings : \E n \in 0 .. Len(done[r]) :
             /\ at[t] \in DOMAIN Rings(t) /\ r = Rings(t)[at[t]]
             /\ Post(Reaped(t, r, n))
             /\ done' = [done EXCEPT ![r] = SubSeq(@, n + 1, Len(@))]
             /\ done[r] \in Seq(Completion)
    BY <1>5, Reaping
  <2>3. PICK n \in 0 .. Len(done[r]) : at[t] \in DOMAIN Rings(t) /\ r = Rings(t)[at[t]] /\ Post(Reaped(t, r, n))
    BY <2>2
  <2>4. PICK rs : rs = Reaped(t, r, n)
    OBVIOUS
  <2>5. Proper(rs) /\ Post(rs) /\ \A k \in DOMAIN rs : rs[k].c = done[r][k].tag[2] /\ k \in DOMAIN done[r]
    <3>1. /\ Proper(rs) /\ DOMAIN rs = 1 .. n
          /\ \A k \in 1 .. n : rs[k].c = done[r][k].tag[2] /\ k \in DOMAIN done[r]
      BY <2>2, <2>3, <2>4, Completing
    <3> QED BY <2>3, <2>4, <3>1
  <2>6. PICK k \in DOMAIN rs : rs[k].c = c
    BY <2>1, <2>5, ReturnedBy
  <2>7. c.op # "read"
    <3>1. k \in DOMAIN done[r] /\ done[r][k].tag[2] = c
      BY <2>5, <2>6
    <3>2. TagOK(r, done[r][k].tag)
      BY <2>2, <3>1 DEF TypeInv, UringOK
    <3> QED BY <3>1, <3>2 DEF TagOK
  <2> QED BY <2>7, Zenon DEF Returned
<1> QED BY <1>2, <1>3, <1>4, <1>5

\* A read that is answered with success has the last acknowledged plaintext
\* in the guest's buffer: each block is decrypted with its own address, from
\* what the host queue read before the command reached the program.
THEOREM ReadReturnsHolds ==
    ASSUME \A d \in Deployments : Owned(d) /\ Sound(d)
    PROVE  Spec => ReadReturns
<1> DEFINE I == TypeInv /\ FlowInv /\ DiskInv /\ ReadInv /\ Owned(dep) /\ Sound(dep)
           A == \A c \in dep.cmds :
                  (c.op = "read" /\ ans[c.id] = <<>> /\ ans'[c.id] # <<>> /\ ans'[c.id][1].st = "ok") =>
                      \A a \in Blocks(c) : val[a] # Unknown => buf'[c.id][a] = encrypt(val[a], Clear)
<1>1. Init => I
  BY TypeInit, FlowInit, DiskInit, ReadInit DEF Init
<1>2. I /\ [Next]_uifVars => I'
  <2>1. TypeInv' => (Owned(dep) /\ Sound(dep))'
    BY DEF TypeInv, SysOK
  <2> QED BY <2>1, TypeNext, FlowNext, DiskNext, ReadNext
<1>3. I /\ [Next]_uifVars => [A]_uifVars
  BY ReadStep DEF Returned, Returns
<1> QED BY <1>1, <1>2, <1>3, PTL DEF Spec, ReadReturns

=============================================================================
