---------------------------- MODULE XcowReplyProofs ----------------------------
(***************************************************************************)
(* Proofs about what the XCOW server answers: the work queue is drained,   *)
(* no command is answered twice, and a write is acknowledged with the      *)
(* cluster that is read from then on.                                      *)
(***************************************************************************)
EXTENDS XcowSrvProofs

(***************************************************************************)
(* Requests within one cluster.                                            *)
(***************************************************************************)
SingleCluster == \A rq \in Requests : Len(rq.blks) <= 1

\* Then every continuation is a reply, behind a lock.
Waiting == cur = Idle /\ \A d \in wq : d.kind = "reply" /\ clock[d.v]

\* A drained queue leaves nothing behind.
LEMMA WaitingStep == ASSUME SingleCluster, SrvInv, Waiting, [SrvNext]_allVars PROVE Waiting'
<1>0. clock \in [Vblk -> BOOLEAN] /\ \A d \in wq : d.v \in Vblk
  BY DEF SrvInv, SrvTypes, WorkType
<1>1. ASSUME NEW c \in Cmd, NEW rq \in Requests, Submit(c, rq) PROVE Waiting'
  <2>1. ASSUME rq.op \in {"read", "write"} PROVE Len(rq.blks) = 1 /\ rq.blks[1] \in Vblk
    <3>1. Len(rq.blks) \in Nat /\ Len(rq.blks) >= 1 /\ rq.blks[1] \in Vblk
      BY <2>1, ReqBlks
    <3>2. Len(rq.blks) <= 1
      BY DEF SingleCluster
    <3>3. PICK n \in Nat : n = Len(rq.blks)
      BY <3>1
    <3>4. n >= 1 /\ n <= 1
      BY <3>1, <3>2, <3>3, Zenon
    <3>5. n = 1
      BY <3>4
    <3> QED BY <3>1, <3>3, <3>5
  <2>2. CASE UNCHANGED <<cur, clock, wq>>
    BY <2>2 DEF Waiting, Idle
  <2>3. CASE WriteAlloc(c, rq)
    <3>1. UNCHANGED <<cur, wq>> /\ \A v \in Vblk : clock[v] => clock'[v]
      BY <1>0, <2>1, <2>3 DEF WriteAlloc, Lock
    <3> QED BY <1>0, <3>1 DEF Waiting, Idle
  <2>4. CASE WriteQueued(c, rq)
    <3>1. PICK v \in Vblk : v = rq.blks[1]
      BY <2>1, <2>4 DEF WriteQueued
    <3>2. UNCHANGED <<cur, clock>> /\ clock[v] /\ wq' = wq \union {Cont("reply", c, v)}
      BY <2>4, <3>1 DEF WriteQueued
    <3>3. Cont("reply", c, v).kind = "reply" /\ Cont("reply", c, v).v = v
      BY DEF Cont
    <3> QED BY <3>2, <3>3 DEF Waiting, Idle
  <2>5. CASE WriteMany(c, rq)
    <3>1. Len(rq.blks) > 1 /\ Len(rq.blks) = 1
      BY <2>1, <2>5 DEF WriteMany
    <3> QED BY <3>1
  <2> QED
    BY <1>1, <2>2, <2>3, <2>4, <2>5
       DEF Submit, ReadOne, ReadMany, Flush, Snapshot, WriteReady, WriteThrows
<1>2. CASE WritePiece
  BY <1>2 DEF WritePiece, PieceAlloc, PieceQueued, PieceReady, PieceThrows, Waiting
<1>3. ASSUME NEW io \in ring, NEW ok \in BOOLEAN, AllocDone(io, ok) PROVE Waiting'
  <2>1. UNCHANGED cur /\ clock' = [clock EXCEPT ![io.t.v] = FALSE]
    BY <1>3 DEF AllocDone
  <2>2. PICK D \in Drained(io.t.v, ok) : wq' = wq \ D
    BY <1>3 DEF AllocDone
  <2>3. D = {d \in wq : d.v = io.t.v}
    BY <2>2 DEF Drained, Waiting
  <2> QED BY <1>0, <2>1, <2>2, <2>3 DEF Waiting, Idle
<1>4. ASSUME NEW io \in ring, NEW ok \in BOOLEAN, RwDone(io, ok) PROVE Waiting'
  BY <1>4 DEF RwDone, Waiting, Idle
<1>5. CASE UNCHANGED allVars
  BY <1>5 DEF allVars, srvVars, Waiting, Idle
<1> QED BY <1>1, <1>2, <1>3, <1>4, <1>5 DEF SrvNext, Complete

\* With requests within one cluster, an unlock leaves no work behind it.
\* (A write over several clusters ends the drain loop early.)
THEOREM QueueDrainedHolds == SingleCluster => (SrvSpec => []QueueDrained)
<1> SUFFICES ASSUME SingleCluster PROVE SrvSpec => []QueueDrained
  OBVIOUS
<1>1. SrvInit => Waiting
  BY DEF SrvInit, Waiting
<1>2. SrvInv /\ Waiting /\ [SrvNext]_allVars => Waiting'
  BY WaitingStep
<1>3. Waiting => QueueDrained
  BY DEF Waiting, QueueDrained
<1> QED BY <1>1, <1>2, <1>3, SrvInvariant, PTL DEF SrvSpec

(***************************************************************************)
(* One reply per command.                                                  *)
(***************************************************************************)

\* What still counts against command c's ticket: continuations that will
\* write, and reads, writes and fsyncs in flight.
PendW(c) == {d \in wq : d.kind = "io" /\ d.c = c}
SqI(c)   == {io \in sq : ~IsAlloc(io) /\ io.tag = c}
RingI(c) == {io \in ring : ~IsAlloc(io) /\ io.tag = c}
PendI(c) == SqI(c) \union RingI(c)

\* What will answer c by itself: a continuation that replies, an allocation
\* for c alone.
Later(c) == {d \in wq : d.kind = "reply" /\ d.c = c}
Own(c)   == {io \in sq \union ring : IsAlloc(io) /\ io.tag = c}

\* Nothing of c is pending.
Rest(c) == PendW(c) = {} /\ SqI(c) = {} /\ RingI(c) = {} /\ cur.c # c

\* The ticket counts what is pending.
TicketCount(c) ==
    /\ count[c] \in Nat
    /\ IsFiniteSet(PendW(c)) /\ IsFiniteSet(PendI(c))
    /\ Cardinality(PendW(c)) + Cardinality(PendI(c)) <= count[c]

\* c's I/O is kicked as a whole.
TicketKick(c) == (SqI(c) = {} \/ RingI(c) = {}) /\ (cur.c = c => RingI(c) = {})

\* Who answers c.
TicketReply(c) ==
    /\ req[c] = None => Rest(c) /\ sent[c] = <<>> /\ Later(c) = {} /\ Own(c) = {}
    /\ Later(c) # {} \/ Own(c) # {} => Rest(c) /\ sent[c] = <<>>
    /\ Later(c) = {} \/ Own(c) = {}
    /\ \A x, y \in Later(c) : x = y
    /\ \A x, y \in Own(c) : x = y
    /\ sent[c] # <<>> => ~sent[c][1].ok \/ (Rest(c) /\ Len(sent[c]) = 1)

Ticket(c) == TicketCount(c) /\ TicketKick(c) /\ TicketReply(c)

\* A step that has nothing to do with c, but may kick its I/O.
LEMMA TicketSame ==
    ASSUME NEW c \in Cmd, Ticket(c),
           PendW(c)' = PendW(c), Later(c)' = Later(c), PendI(c)' = PendI(c), Own(c)' = Own(c),
           UNCHANGED <<count[c], sent[c], req[c]>>,
           cur' = cur \/ (cur.c # c /\ cur'.c # c),
           \/ SqI(c)' = {} /\ cur'.c # c
           \/ SqI(c)' = SqI(c) /\ RingI(c)' = RingI(c)
    PROVE  Ticket(c)'
<1>1. TicketCount(c)'
  BY DEF Ticket, TicketCount
<1>2. TicketKick(c)'
  BY DEF Ticket, TicketKick
<1>3. Rest(c)' <=> Rest(c)
  BY DEF Rest, PendI
<1>4. TicketReply(c)'
  BY <1>3 DEF Ticket, TicketReply
<1> QED BY <1>1, <1>2, <1>4 DEF Ticket

\* A new command: nothing of it is pending.
LEMMA TicketNew ==
    ASSUME SrvInv, NEW c \in Cmd, NEW rq \in Requests, Take(c, rq), Ticket(c)
    PROVE  /\ Rest(c) /\ sent[c] = <<>> /\ Later(c) = {} /\ Own(c) = {}
           /\ cur = Idle /\ req'[c] # None /\ \A x \in Cmd : x # c => req'[x] = req[x]
<1>1. req \in [Cmd -> Requests \union {None}] /\ req' = [req EXCEPT ![c] = rq]
  BY DEF SrvInv, SrvTypes, Take
<1>2. rq # None
  BY RequestAssumption DEF None
<1> QED BY <1>1, <1>2 DEF Take, Ticket, TicketReply

Tickets == DOMAIN count = Cmd /\ \A c \in Cmd : Ticket(c)

\* A handler of command c leaves the tickets of the others alone.
LEMMA TicketOthers ==
    ASSUME SrvInv, Tickets, NEW c \in Cmd,
           cur = Idle \/ cur.c = c, cur' = Idle \/ cur'.c = c,
           NEW ios, Kick(ios) \/ Stage(ios), \A io \in ios : io.tag \in {c, NoCmd},
           NEW cs, wq' = wq \union cs, \A d \in cs : d.c = c,
           \A x \in Cmd : x # c => UNCHANGED <<count[x], sent[x], req[x]>>
    PROVE  \A x \in Cmd : x # c => Ticket(x)'
<1> SUFFICES ASSUME NEW x \in Cmd, x # c PROVE Ticket(x)'
  OBVIOUS
<1>1. Ticket(x) /\ SrvTypes /\ x # NoCmd
  BY RequestAssumption DEF Tickets, SrvInv
<1>2. cur.c # x /\ cur'.c # x
  BY <1>1 DEF Idle
<1>3. (\A io \in ios : io.tag # x) /\ (\A d \in cs : d.c # x)
  BY <1>1
<1>4. PendW(x)' = PendW(x) /\ Later(x)' = Later(x)
  BY <1>3 DEF PendW, Later
<1>5. PendI(x)' = PendI(x) /\ Own(x)' = Own(x)
  BY <1>3 DEF PendI, SqI, RingI, Own, Kick, Stage, IsAlloc
<1>6. \/ SqI(x)' = {}
      \/ SqI(x)' = SqI(x) /\ RingI(x)' = RingI(x)
  BY <1>3 DEF SqI, RingI, Kick, Stage, IsAlloc
<1> QED BY <1>1, <1>2, <1>4, <1>5, <1>6, TicketSame

\* An answer at once.
LEMMA TicketAnswer ==
    ASSUME SrvInv, NEW c \in Cmd, NEW rq \in Requests, Take(c, rq), Tickets,
           NEW r \in ReplyType, Send(c, r), UNCHANGED <<cur, count, wq, sq, ring>>
    PROVE  Tickets'
<1>1. Ticket(c)
  BY DEF Tickets
<1>2. /\ Rest(c) /\ sent[c] = <<>> /\ Later(c) = {} /\ Own(c) = {}
      /\ cur = Idle /\ req'[c] # None /\ \A x \in Cmd : x # c => req'[x] = req[x]
  BY <1>1, TicketNew
<1>3. sent \in [Cmd -> Seq(ReplyType)]
  BY DEF SrvInv, SrvTypes
<1>4. sent'[c] = Append(sent[c], r) /\ \A x \in Cmd : x # c => sent'[x] = sent[x]
  BY <1>3 DEF Send
<1>5. Len(sent'[c]) = 1
  BY <1>2, <1>4
<1>6. Ticket(c)'
  <2>1. /\ PendW(c)' = PendW(c) /\ Later(c)' = Later(c) /\ Own(c)' = Own(c)
        /\ SqI(c)' = SqI(c) /\ RingI(c)' = RingI(c) /\ PendI(c)' = PendI(c)
    BY DEF PendW, Later, Own, SqI, RingI, PendI, IsAlloc
  <2>2. Rest(c)'
    BY <1>2, <2>1 DEF Rest
  <2>3. TicketCount(c)' /\ TicketKick(c)'
    BY <1>1, <2>1 DEF Ticket, TicketCount, TicketKick
  <2>4. TicketReply(c)'
    BY <1>2, <1>5, <2>1, <2>2 DEF TicketReply
  <2> QED BY <2>3, <2>4 DEF Ticket
<1>7. \A x \in Cmd : x # c => Ticket(x)'
  <2>1. Stage({}) /\ wq' = wq \union {}
    BY DEF Stage
  <2>2. \A x \in Cmd : x # c => UNCHANGED <<count[x], sent[x], req[x]>>
    BY <1>2, <1>4
  <2>3. cur' = Idle
    BY <1>2
  <2> QED BY <1>2, <2>1, <2>2, <2>3, TicketOthers
<1> QED BY <1>6, <1>7 DEF Tickets

\* I/O whose ticket counts it.
LEMMA TicketSubmit ==
    ASSUME SrvInv, NEW c \in Cmd, NEW rq \in Requests, Take(c, rq), Tickets,
           NEW ios, Kick(ios), \A io \in ios : ~IsAlloc(io) /\ io.tag = c, IsFiniteSet(ios),
           count' = [count EXCEPT ![c] = Cardinality(ios)], UNCHANGED <<cur, wq, sent>>
    PROVE  Tickets'
<1>1. Ticket(c) /\ DOMAIN count = Cmd
  BY DEF Tickets
<1>2. /\ Rest(c) /\ sent[c] = <<>> /\ Later(c) = {} /\ Own(c) = {}
      /\ cur = Idle /\ req'[c] # None /\ \A x \in Cmd : x # c => req'[x] = req[x]
  BY <1>1, TicketNew
<1>3. cur'.c # c /\ cur' = Idle
  BY <1>2, RequestAssumption DEF Idle
<1>4. Ticket(c)'
  <2>1. /\ PendW(c)' = {} /\ Later(c)' = {} /\ Own(c)' = {} /\ SqI(c)' = {} /\ PendI(c)' = ios
    BY <1>2 DEF PendW, Later, Own, SqI, RingI, PendI, IsAlloc, Kick, Rest
  <2>2. count'[c] = Cardinality(ios) /\ Cardinality(ios) \in Nat
    BY <1>1, FS_CardinalityType
  <2>3. TicketCount(c)'
    BY <2>1, <2>2, FS_EmptySet DEF TicketCount
  <2>4. TicketKick(c)'
    BY <1>3, <2>1 DEF TicketKick
  <2>5. TicketReply(c)'
    BY <1>2, <2>1 DEF TicketReply
  <2> QED BY <2>3, <2>4, <2>5 DEF Ticket
<1>5. \A x \in Cmd : x # c => Ticket(x)'
  <2>1. PICK cs : cs = {}
    OBVIOUS
  <2>2. wq' = wq \union cs /\ \A d \in cs : d.c = c
    BY <2>1
  <2>3. \A io \in ios : io.tag \in {c, NoCmd}
    OBVIOUS
  <2>4. \A x \in Cmd : x # c => UNCHANGED <<count[x], sent[x], req[x]>>
    BY <1>1, <1>2
  <2> QED BY <1>2, <1>3, <2>2, <2>3, <2>4, TicketOthers
<1> QED BY <1>1, <1>4, <1>5 DEF Tickets

\* A command that will be answered by an allocation or a continuation.
LEMMA TicketLater ==
    ASSUME SrvInv, NEW c \in Cmd, NEW rq \in Requests, Take(c, rq), Tickets,
           NEW ios, Kick(ios) \/ Stage(ios), \A io \in ios : IsAlloc(io) /\ io.tag = c,
           NEW cs, wq' = wq \union cs, \A d \in cs : d.kind = "reply" /\ d.c = c,
           \/ cs = {} /\ \A x, y \in ios : x = y
           \/ ios = {} /\ \A x, y \in cs : x = y,
           UNCHANGED <<cur, count, sent>>
    PROVE  Tickets'
<1>1. Ticket(c) /\ DOMAIN count = Cmd
  BY DEF Tickets
<1>2. /\ Rest(c) /\ sent[c] = <<>> /\ Later(c) = {} /\ Own(c) = {}
      /\ cur = Idle /\ req'[c] # None /\ \A x \in Cmd : x # c => req'[x] = req[x]
  BY <1>1, TicketNew
<1>3. cur'.c # c /\ cur' = Idle
  BY <1>2, RequestAssumption DEF Idle
<1>4. Ticket(c)'
  <2>1. PendW(c)' = {} /\ Later(c)' = cs
    BY <1>2 DEF PendW, Later, Rest
  <2>2. Own(c)' = ios /\ SqI(c)' = {} /\ RingI(c)' = {} /\ PendI(c)' = {}
    BY <1>2 DEF Own, SqI, RingI, PendI, IsAlloc, Kick, Stage, Rest
  <2>3. TicketCount(c)'
    BY <1>1, <2>1, <2>2, FS_EmptySet DEF Ticket, TicketCount
  <2>4. TicketKick(c)'
    BY <2>2 DEF TicketKick
  <2>5. Rest(c)'
    BY <1>3, <2>1, <2>2 DEF Rest
  <2>6. TicketReply(c)'
    BY <1>2, <2>1, <2>2, <2>5 DEF TicketReply
  <2> QED BY <2>3, <2>4, <2>6 DEF Ticket
<1>5. \A x \in Cmd : x # c => Ticket(x)'
  <2>1. \A x \in Cmd : x # c => UNCHANGED <<count[x], sent[x], req[x]>>
    BY <1>2
  <2> QED BY <1>2, <1>3, <2>1, TicketOthers
<1> QED BY <1>1, <1>4, <1>5 DEF Tickets

\* The first element of a sequence that grows.
LEMMA AppendFirst ==
    ASSUME NEW S, NEW s \in Seq(S), NEW r \in S
    PROVE  /\ Append(s, r) # <<>>
           /\ s = <<>> => Append(s, r)[1] = r /\ Len(Append(s, r)) = 1
           /\ s # <<>> => Append(s, r)[1] = s[1]
<1>1. Len(s) \in Nat /\ Append(s, r) \in Seq(S) /\ Len(Append(s, r)) = Len(s) + 1
  OBVIOUS
<1>2. \A z \in Seq(S) : z = <<>> => Len(z) = 0
  OBVIOUS
<1>3. Append(s, r) # <<>>
  BY <1>1, <1>2
<1>4. ASSUME s = <<>> PROVE Append(s, r)[1] = r /\ Len(Append(s, r)) = 1
  <2>1. Len(s) = 0
    BY <1>2, <1>4
  <2>2. Append(s, r)[Len(s) + 1] = r
    OBVIOUS
  <2> QED BY <1>1, <2>1, <2>2
<1>5. ASSUME s # <<>> PROVE Append(s, r)[1] = s[1]
  <2>1. Len(s) >= 1
    BY <1>5
  <2>2. 1 \in 1 .. Len(s)
    BY <1>1, <2>1
  <2> QED BY <2>2
<1> QED BY <1>3, <1>4, <1>5

\* One more element.
LEMMA OneMore ==
    ASSUME NEW S, NEW x, IsFiniteSet(S)
    PROVE  /\ IsFiniteSet(S \union {x}) /\ Cardinality(S) \in Nat
           /\ Cardinality(S \union {x}) \in Nat /\ Cardinality(S \union {x}) <= Cardinality(S) + 1
<1>1. Cardinality(S) \in Nat /\ IsFiniteSet(S \union {x})
  BY FS_CardinalityType, FS_AddElement
<1>2. Cardinality(S \union {x}) = IF x \in S THEN Cardinality(S) ELSE Cardinality(S) + 1
  BY FS_AddElement
<1> QED BY <1>1, <1>2

\* One element less, at least.
LEMMA OneLess ==
    ASSUME NEW S, NEW x \in S, IsFiniteSet(S), NEW T \in SUBSET (S \ {x})
    PROVE  /\ IsFiniteSet(T) /\ Cardinality(S) \in Nat /\ Cardinality(T) \in Nat
           /\ Cardinality(T) <= Cardinality(S) - 1
<1>1. /\ IsFiniteSet(S \ {x}) /\ Cardinality(S \ {x}) = Cardinality(S) - 1
      /\ Cardinality(S) \in Nat
  BY FS_RemoveElement, FS_CardinalityType
<1>2. IsFiniteSet(T) /\ Cardinality(T) <= Cardinality(S \ {x})
  BY <1>1, FS_Subset
<1>3. Cardinality(T) \in Nat
  BY <1>2, FS_CardinalityType
<1> QED BY <1>1, <1>2, <1>3

\* One iteration over several clusters: its piece is counted.
LEMMA TicketPiece ==
    ASSUME SrvInv, Tickets, cur # Idle, NEW ios, Piece(ios), NEW cs, wq' = wq \union cs,
           NEW w,
           \/ /\ cs = {w} /\ w.kind = "io" /\ w.c = cur.c
              /\ \A io \in ios : IsAlloc(io) /\ io.tag = NoCmd
           \/ cs = {} /\ ios = {w} /\ ~IsAlloc(w) /\ w.tag = cur.c
    PROVE  Tickets'
<1>1. PICK c \in Cmd : c = cur.c
  BY CurLeft
<1>2. Ticket(c) /\ DOMAIN count = Cmd /\ c # NoCmd
  BY RequestAssumption DEF Tickets
<1>3. /\ count' = [count EXCEPT ![c] = count[c] + 1] /\ UNCHANGED <<req, sent>>
      /\ \/ Stage(ios) /\ cur'.c = c
         \/ Kick(ios) /\ cur' = Idle
  BY <1>1 DEF Piece
<1>4. Later(c) = {} /\ Own(c) = {} /\ RingI(c) = {} /\ ~Rest(c)
  BY <1>1, <1>2 DEF Ticket, TicketReply, TicketKick, Rest
<1>5. req[c] # None /\ (sent[c] # <<>> => ~sent[c][1].ok)
  BY <1>2, <1>4 DEF Ticket, TicketReply
<1>6. Later(c)' = {} /\ Own(c)' = {}
  BY <1>1, <1>2, <1>3, <1>4 DEF Later, Own, Stage, Kick, IsAlloc
<1>7. TicketKick(c)'
  <2>1. \/ RingI(c)' = {}
        \/ SqI(c)' = {} /\ cur'.c # c
    BY <1>2, <1>3, <1>4 DEF SqI, RingI, Stage, Kick, IsAlloc, Idle
  <2> QED BY <2>1 DEF TicketKick
<1>8. \/ PendW(c)' = PendW(c) \union {w} /\ PendI(c)' = PendI(c)
      \/ PendW(c)' = PendW(c) /\ PendI(c)' = PendI(c) \union {w}
  BY <1>1, <1>2, <1>3 DEF PendW, PendI, SqI, RingI, Stage, Kick, IsAlloc
<1>9. TicketCount(c)'
  <2>1. /\ count[c] \in Nat /\ IsFiniteSet(PendW(c)) /\ IsFiniteSet(PendI(c))
        /\ Cardinality(PendW(c)) + Cardinality(PendI(c)) <= count[c]
    BY <1>2 DEF Ticket, TicketCount
  <2>2. count'[c] = count[c] + 1
    BY <1>2, <1>3
  <2>3. Cardinality(PendW(c)) \in Nat /\ Cardinality(PendI(c)) \in Nat
    BY <2>1, FS_CardinalityType
  <2>4. IsFiniteSet(PendW(c))' /\ IsFiniteSet(PendI(c))'
    BY <1>8, <2>1, OneMore
  <2>5. Cardinality(PendW(c))' + Cardinality(PendI(c))' <= count[c] + 1
    <3>1. CASE PendW(c)' = PendW(c) \union {w} /\ PendI(c)' = PendI(c)
      <4>1. /\ Cardinality(PendW(c) \union {w}) \in Nat
            /\ Cardinality(PendW(c) \union {w}) <= Cardinality(PendW(c)) + 1
        BY <2>1, OneMore
      <4>2. Cardinality(PendW(c) \union {w}) + Cardinality(PendI(c)) <= count[c] + 1
        BY <2>1, <2>3, <4>1
      <4> QED BY <3>1, <4>2
    <3>2. CASE PendW(c)' = PendW(c) /\ PendI(c)' = PendI(c) \union {w}
      <4>1. /\ Cardinality(PendI(c) \union {w}) \in Nat
            /\ Cardinality(PendI(c) \union {w}) <= Cardinality(PendI(c)) + 1
        BY <2>1, OneMore
      <4>2. Cardinality(PendW(c)) + Cardinality(PendI(c) \union {w}) <= count[c] + 1
        BY <2>1, <2>3, <4>1
      <4> QED BY <3>2, <4>2
    <3> QED BY <1>8, <3>1, <3>2
  <2> QED BY <2>1, <2>2, <2>4, <2>5 DEF TicketCount
<1>10. TicketReply(c)'
  BY <1>3, <1>5, <1>6 DEF TicketReply
<1>11. \A x \in Cmd : x # c => Ticket(x)'
  <2>1. \A x \in Cmd : x # c => UNCHANGED <<count[x], sent[x], req[x]>>
    BY <1>2, <1>3
  <2>2. (\A io \in ios : io.tag \in {c, NoCmd}) /\ (\A d \in cs : d.c = c)
    BY <1>1
  <2> QED BY <1>1, <1>3, <2>1, <2>2, TicketOthers
<1> QED BY <1>2, <1>3, <1>7, <1>9, <1>10, <1>11 DEF Tickets, Ticket

\* An iteration throws: the command is answered with an error.
LEMMA TicketThrows == ASSUME SrvInv, Tickets, PieceThrows PROVE Tickets'
<1>1. PICK c \in Cmd : c = cur.c
  BY CurLeft DEF PieceThrows
<1>2. Ticket(c) /\ c # NoCmd /\ sent \in [Cmd -> Seq(ReplyType)]
  BY RequestAssumption DEF Tickets, SrvInv, SrvTypes
<1>3. /\ sent' = [sent EXCEPT ![c] = Append(sent[c], Plain(FALSE))] /\ cur' = Idle
      /\ UNCHANGED <<req, count, wq, sq, ring>>
  BY <1>1 DEF PieceThrows, Send
<1>4. Later(c) = {} /\ Own(c) = {} /\ RingI(c) = {} /\ ~Rest(c)
  BY <1>1, <1>2 DEF Ticket, TicketReply, TicketKick, Rest
<1>5. req[c] # None /\ (sent[c] # <<>> => ~sent[c][1].ok)
  BY <1>2, <1>4 DEF Ticket, TicketReply
<1>6. sent'[c] # <<>> /\ ~sent'[c][1].ok
  <2>1. sent'[c] = Append(sent[c], Plain(FALSE)) /\ sent[c] \in Seq(ReplyType)
    BY <1>2, <1>3
  <2>2. Plain(FALSE) \in ReplyType /\ ~Plain(FALSE).ok
    BY Replies DEF Plain, Reply
  <2>3. PICK r \in ReplyType : r = Plain(FALSE) /\ ~r.ok
    BY <2>2
  <2>4. /\ Append(sent[c], r) # <<>>
        /\ sent[c] = <<>> => Append(sent[c], r)[1] = r
        /\ sent[c] # <<>> => Append(sent[c], r)[1] = sent[c][1]
    BY <2>1, AppendFirst
  <2> QED BY <1>5, <2>1, <2>3, <2>4
<1>7. /\ PendW(c)' = PendW(c) /\ Later(c)' = {} /\ Own(c)' = {}
      /\ SqI(c)' = SqI(c) /\ RingI(c)' = {} /\ PendI(c)' = PendI(c)
  BY <1>3, <1>4 DEF PendW, Later, Own, SqI, RingI, PendI, IsAlloc
<1>8. Ticket(c)'
  BY <1>2, <1>3, <1>5, <1>6, <1>7 DEF Ticket, TicketCount, TicketKick, TicketReply
<1>9. \A x \in Cmd : x # c => Ticket(x)'
  <2>1. \A x \in Cmd : x # c => UNCHANGED <<count[x], sent[x], req[x]>>
    BY <1>2, <1>3
  <2>2. Stage({}) /\ wq' = wq \union {}
    BY <1>3 DEF Stage
  <2>3. cur.c = c /\ cur' = Idle
    BY <1>1, <1>3
  <2> QED BY <2>1, <2>2, <2>3, TicketOthers
<1> QED BY <1>3, <1>8, <1>9 DEF Tickets

\* A read, write or fsync completes: the last one counted answers.
LEMMA TicketRw ==
    ASSUME SrvInv, Tickets, NEW io \in ring, NEW ok \in BOOLEAN, RwDone(io, ok)
    PROVE  Tickets'
<1>1. PICK c \in Cmd : c = io.tag
  BY DEF SrvInv, SrvTypes, RwDone
<1>2. Ticket(c) /\ c # NoCmd /\ sent \in [Cmd -> Seq(ReplyType)] /\ DOMAIN count = Cmd
  BY RequestAssumption DEF Tickets, SrvInv, SrvTypes
<1>3. /\ cur = Idle /\ ~IsAlloc(io) /\ ring' = ring \ {io} /\ UNCHANGED <<req, cur, wq, sq>>
      /\ count' = [count EXCEPT ![c] = count[c] - 1]
      /\ sent' = IF count[c] = 1 THEN [sent EXCEPT ![c] = Append(sent[c], Plain(ok))] ELSE sent
  BY <1>1 DEF RwDone
<1>4. io \in RingI(c) /\ io \in PendI(c) /\ SqI(c) = {}
  BY <1>1, <1>2, <1>3 DEF RingI, PendI, Ticket, TicketKick
<1>5. Later(c) = {} /\ Own(c) = {} /\ ~Rest(c) /\ req[c] # None /\ (sent[c] # <<>> => ~sent[c][1].ok)
  BY <1>2, <1>4 DEF Ticket, TicketReply, Rest
<1>6. /\ PendW(c)' = PendW(c) /\ Later(c)' = {} /\ Own(c)' = {}
      /\ SqI(c)' = {} /\ PendI(c)' = PendI(c) \ {io} /\ RingI(c)' = PendI(c) \ {io}
  BY <1>3, <1>4, <1>5 DEF PendW, Later, Own, SqI, RingI, PendI, IsAlloc
<1>7. /\ count[c] \in Nat /\ IsFiniteSet(PendW(c)) /\ IsFiniteSet(PendI(c))
      /\ Cardinality(PendW(c)) + Cardinality(PendI(c)) <= count[c]
      /\ Cardinality(PendW(c)) \in Nat
  BY <1>2, FS_CardinalityType DEF Ticket, TicketCount
<1>8. /\ IsFiniteSet(PendI(c)') /\ Cardinality(PendI(c)) \in Nat /\ Cardinality(PendI(c)') \in Nat
      /\ Cardinality(PendI(c)') <= Cardinality(PendI(c)) - 1
  BY <1>4, <1>6, <1>7, OneLess
<1>9. count'[c] = count[c] - 1
  BY <1>2, <1>3
<1>10. count'[c] \in Nat /\ Cardinality(PendW(c)) + Cardinality(PendI(c)') <= count'[c]
  BY <1>7, <1>8, <1>9
<1>11. TicketCount(c)'
  BY <1>6, <1>7, <1>8, <1>10 DEF TicketCount
<1>12. TicketKick(c)'
  BY <1>2, <1>3, <1>6 DEF TicketKick, Idle
<1>13. ASSUME count[c] # 1 PROVE Ticket(c)'
  <2>1. sent' = sent /\ req' = req
    BY <1>3, <1>13
  <2>2. TicketReply(c)'
    BY <1>5, <1>6, <2>1 DEF TicketReply
  <2> QED BY <1>11, <1>12, <2>2 DEF Ticket
<1>14. ASSUME count[c] = 1 PROVE Ticket(c)'
  <2>1. PendW(c) = {} /\ PendI(c)' = {}
    <3>1. Cardinality(PendW(c)) = 0 /\ Cardinality(PendI(c)') = 0
      BY <1>7, <1>8, <1>9, <1>10, <1>14
    <3> QED BY <1>7, <1>8, <3>1, FS_EmptySet
  <2>2. Rest(c)'
    BY <1>2, <1>3, <1>6, <2>1 DEF Rest, Idle
  <2>3. sent'[c] = Append(sent[c], Plain(ok)) /\ sent[c] \in Seq(ReplyType) /\ Plain(ok) \in ReplyType
    BY <1>2, <1>3, <1>14, Replies
  <2>4. CASE sent[c] = <<>>
    <3>1. Len(sent'[c]) = 1 /\ req' = req
      BY <1>3, <2>3, <2>4, AppendFirst
    <3>2. TicketReply(c)'
      BY <1>5, <1>6, <2>2, <3>1 DEF TicketReply
    <3> QED BY <1>11, <1>12, <3>2 DEF Ticket
  <2>5. CASE sent[c] # <<>>
    <3>2. sent'[c][1] = sent[c][1] /\ req' = req
      BY <1>3, <2>3, <2>5, AppendFirst
    <3>3. TicketReply(c)'
      BY <1>5, <1>6, <2>5, <3>2 DEF TicketReply
    <3> QED BY <1>11, <1>12, <3>3 DEF Ticket
  <2> QED BY <2>4, <2>5
<1>15. ASSUME NEW x \in Cmd, x # c PROVE Ticket(x)'
  <2>1. Ticket(x) /\ UNCHANGED <<count[x], sent[x], req[x], cur>>
    BY <1>2, <1>3, <1>15 DEF Tickets
  <2>2. PendW(x)' = PendW(x) /\ Later(x)' = Later(x)
    BY <1>3 DEF PendW, Later
  <2>3. SqI(x)' = SqI(x) /\ RingI(x)' = RingI(x) /\ Own(x)' = Own(x)
    BY <1>1, <1>3, <1>15 DEF SqI, RingI, Own, IsAlloc
  <2>4. PendI(x)' = PendI(x)
    BY <2>3 DEF PendI
  <2> QED BY <2>1, <2>2, <2>3, <2>4, TicketSame
<1> QED BY <1>2, <1>3, <1>13, <1>14, <1>15 DEF Tickets

\* What the completion of an allocation does to the ticket of a command.
LEMMA DrainOne ==
    ASSUME NEW v, NEW D \in Drained(v, TRUE), {d \in D : d.kind = "io"} # {}
    PROVE  \E d \in wq : {x \in D : x.kind = "io"} = {d}
<1> DEFINE queue  == {d \in wq : d.v = v}
           writes == {d \in queue : d.kind = "io"}
<1>1. D \subseteq queue
  BY DEF Drained
<1>2. writes # {}
  BY <1>1
<1>3. D \in {R \union {d} : R \in SUBSET (queue \ writes), d \in writes}
  BY <1>2 DEF Drained
<1>4. PICK R \in SUBSET (queue \ writes) : \E d \in writes : D = R \union {d}
  BY <1>3
<1>5. PICK d \in writes : D = R \union {d}
  BY <1>4
<1> QED BY <1>5

\* An allocation completes: its own command and the replies of the queue are
\* answered, and one write of the queue (or none) is submitted.
LEMMA TicketAlloc ==
    ASSUME SrvInv, Tickets, NEW io \in ring, NEW ok \in BOOLEAN, AllocDone(io, ok)
    PROVE  Tickets'
<1>1. IsAlloc(io) /\ UNCHANGED <<req, cur>> /\ cur = Idle
  BY DEF AllocDone
<1>2. PICK D \in Drained(io.t.v, ok) :
          LET writes  == {d \in D : d.kind = "io"}
              replies == IF ok THEN D \ writes ELSE D
              ios     == {Rw(d.c, l0'[d.m][l0_off(d.v)].off) : d \in writes}
          IN  /\ wq' = wq \ D
              /\ sent' = [c \in Cmd |->
                    IF c = io.tag THEN Append(sent[c], Paddr(ok, io.t.out))
                    ELSE IF \E d \in replies : d.c = c
                    THEN Append(sent[c], ContReply(CHOOSE d \in replies : d.c = c, ok))
                    ELSE sent[c]]
              /\ \/ /\ ok /\ writes # {}
                    /\ ring' = (ring \ {io}) \union sq \union ios /\ sq' = {}
                    /\ UNCHANGED count
                 \/ /\ ~(ok /\ writes # {})
                    /\ ring' = ring \ {io} /\ UNCHANGED sq
                    /\ count' = [c \in Cmd |->
                          IF \E d \in writes : d.c = c THEN count[c] - 1 ELSE count[c]]
  BY DEF AllocDone
<1> DEFINE writes  == {d \in D : d.kind = "io"}
           replies == IF ok THEN D \ writes ELSE D
           ios     == {Rw(d.c, l0'[d.m][l0_off(d.v)].off) : d \in writes}
           reply(c) == CHOOSE d \in replies : d.c = c
<1>3. D \subseteq wq /\ \A d \in wq : d.kind \in {"reply", "io"} /\ d.c \in Cmd
  BY DrainedQueued DEF SrvInv, SrvTypes, WorkType
<1>4. /\ wq' = wq \ D
      /\ \A c \in Cmd : sent'[c] =
            IF c = io.tag THEN Append(sent[c], Paddr(ok, io.t.out))
            ELSE IF \E d \in replies : d.c = c THEN Append(sent[c], ContReply(reply(c), ok))
            ELSE sent[c]
      /\ \/ /\ ok /\ writes # {}
            /\ ring' = (ring \ {io}) \union sq \union ios /\ sq' = {}
            /\ UNCHANGED count
         \/ /\ ~(ok /\ writes # {})
            /\ ring' = ring \ {io} /\ UNCHANGED sq
            /\ count' = [c \in Cmd |->
                  IF \E d \in writes : d.c = c THEN count[c] - 1 ELSE count[c]]
  BY <1>2
<1>5. /\ writes \subseteq D /\ replies \subseteq D
      /\ \A d \in writes : d.kind = "io"
      /\ \A d \in D : d.kind = "io" => d \in writes
      /\ ok => \A d \in replies : d.kind # "io"
  OBVIOUS
<1>6. \A x \in ios : ~IsAlloc(x) /\ \E d \in writes : x.tag = d.c
  BY DEF Rw, IsAlloc
<1>7. ok /\ writes # {} => \E d \in wq : writes = {d} /\ \E x : ios = {x} /\ x.tag = d.c
  <2> SUFFICES ASSUME ok, writes # {} PROVE \E d \in wq : writes = {d} /\ \E x : ios = {x} /\ x.tag = d.c
    OBVIOUS
  <2>0. D \in Drained(io.t.v, TRUE)
    BY <1>2
  <2>1. PICK d \in wq : writes = {d}
    BY <2>0, DrainOne
  <2>2. ios = {Rw(d.c, l0'[d.m][l0_off(d.v)].off)}
    BY <2>1
  <2>3. PICK x : x = Rw(d.c, l0'[d.m][l0_off(d.v)].off)
    OBVIOUS
  <2>4. ios = {x} /\ x.tag = d.c
    BY <2>2, <2>3 DEF Rw
  <2> QED BY <2>1, <2>4
<1> HIDE DEF writes, replies, ios, reply
<1>8. ASSUME NEW c \in Cmd PROVE Ticket(c)'
  <2>1. Ticket(c) /\ c # NoCmd /\ cur'.c # c /\ cur.c # c /\ sent[c] \in Seq(ReplyType)
    BY <1>1, RequestAssumption DEF Tickets, Idle, SrvInv, SrvTypes
  <2>2. /\ PendW(c)' = PendW(c) \ writes
        /\ Later(c)' = Later(c) \ D
    BY <1>3, <1>4, <1>5 DEF PendW, Later
  <2>3. Own(c)' = Own(c) \ {io}
    <3>1. io \notin sq
      BY <1>1 DEF SrvInv, Ledger
    <3> QED BY <1>1, <1>4, <1>6, <3>1 DEF Own
  <2>4. /\ count[c] \in Nat /\ IsFiniteSet(PendW(c)) /\ IsFiniteSet(PendI(c))
        /\ Cardinality(PendW(c)) + Cardinality(PendI(c)) <= count[c]
        /\ Cardinality(PendW(c)) \in Nat /\ Cardinality(PendI(c)) \in Nat
    BY <2>1, FS_CardinalityType DEF Ticket, TicketCount
  <2>5. \A d \in writes : d.c = c => d \in PendW(c)
    BY <1>3, <1>5 DEF PendW
  <2>6. TicketCount(c)' /\ TicketKick(c)' /\ (Rest(c) => Rest(c)')
    <3>1. CASE ok /\ writes # {}
      <4>1. PICK d \in wq : writes = {d} /\ \E x : ios = {x} /\ x.tag = d.c
        BY <1>7, <3>1
      <4>2. PICK x : ios = {x} /\ x.tag = d.c /\ ~IsAlloc(x)
        BY <1>6, <4>1
      <4>3. ring' = (ring \ {io}) \union sq \union {x} /\ sq' = {} /\ count' = count
        BY <1>4, <3>1, <4>2
      <4>4. SqI(c)' = {} /\ RingI(c)' = PendI(c)'
        BY <4>3 DEF SqI, PendI
      <4>5. CASE d.c = c
        <5>1. d \in PendW(c) /\ PendW(c)' = PendW(c) \ {d} /\ PendI(c)' = PendI(c) \union {x}
          BY <1>1, <2>2, <2>5, <4>1, <4>2, <4>3, <4>5 DEF SqI, RingI, PendI, IsAlloc
        <5>2. /\ IsFiniteSet(PendW(c)') /\ Cardinality(PendW(c)') \in Nat
              /\ Cardinality(PendW(c)') <= Cardinality(PendW(c)) - 1
          BY <2>4, <5>1, OneLess
        <5>3. /\ IsFiniteSet(PendI(c)') /\ Cardinality(PendI(c)') \in Nat
              /\ Cardinality(PendI(c)') <= Cardinality(PendI(c)) + 1
          <6>1. /\ IsFiniteSet(PendI(c) \union {x}) /\ Cardinality(PendI(c) \union {x}) \in Nat
                /\ Cardinality(PendI(c) \union {x}) <= Cardinality(PendI(c)) + 1
            BY <2>4, OneMore
          <6> QED BY <5>1, <6>1
        <5>4. Cardinality(PendW(c)') + Cardinality(PendI(c)') <= count[c]
          BY <2>4, <5>2, <5>3
        <5>5. TicketCount(c)'
          BY <2>4, <4>3, <5>2, <5>3, <5>4 DEF TicketCount
        <5>6. TicketKick(c)' /\ ~Rest(c)
          BY <2>1, <4>4, <5>1 DEF TicketKick, Rest
        <5> QED BY <5>5, <5>6
      <4>6. CASE d.c # c
        <5>1. d \notin PendW(c)
          BY <4>6 DEF PendW
        <5>2. PendW(c)' = PendW(c) /\ PendI(c)' = PendI(c)
          BY <1>1, <2>2, <4>1, <4>2, <4>3, <4>6, <5>1 DEF SqI, RingI, PendI, IsAlloc
        <5>3. TicketCount(c)'
          BY <2>4, <4>3, <5>2 DEF TicketCount
        <5>4. TicketKick(c)'
          BY <2>1, <4>4 DEF TicketKick
        <5>5. Rest(c) => Rest(c)'
          BY <2>1, <4>4, <5>2 DEF Rest, PendI
        <5> QED BY <5>3, <5>4, <5>5
      <4> QED BY <4>5, <4>6
    <3>2. CASE ~(ok /\ writes # {})
      <4>1. /\ ring' = ring \ {io} /\ sq' = sq
            /\ count'[c] = IF \E d \in writes : d.c = c THEN count[c] - 1 ELSE count[c]
        BY <1>4, <3>2
      <4>2. SqI(c)' = SqI(c) /\ RingI(c)' = RingI(c)
        BY <1>1, <4>1 DEF SqI, RingI, IsAlloc
      <4>3. PendI(c)' = PendI(c)
        BY <4>2 DEF PendI
      <4>4. TicketKick(c)'
        BY <2>1, <4>2 DEF TicketKick, Ticket
      <4>5. Rest(c) => Rest(c)'
        BY <2>1, <2>2, <4>2 DEF Rest
      <4>6. CASE \E d \in writes : d.c = c
        <5>1. PICK d \in writes : d.c = c
          BY <4>6
        <5>2. d \in PendW(c) /\ PendW(c)' \in SUBSET (PendW(c) \ {d})
          BY <2>2, <2>5, <5>1
        <5>3. /\ IsFiniteSet(PendW(c)') /\ Cardinality(PendW(c)') \in Nat
              /\ Cardinality(PendW(c)') <= Cardinality(PendW(c)) - 1
          BY <2>4, <5>2, OneLess
        <5>4. count'[c] = count[c] - 1
          BY <4>1, <5>1
        <5>5. count'[c] \in Nat /\ Cardinality(PendW(c)') + Cardinality(PendI(c)) <= count'[c]
          BY <2>4, <5>3, <5>4
        <5>6. TicketCount(c)'
          BY <2>4, <4>3, <5>3, <5>5 DEF TicketCount
        <5> QED BY <4>4, <4>5, <5>6
      <4>7. CASE ~\E d \in writes : d.c = c
        <5>1. PendW(c)' = PendW(c)
          BY <2>2, <4>7 DEF PendW
        <5>2. count'[c] = count[c]
          BY <4>1, <4>7
        <5>3. TicketCount(c)'
          BY <2>4, <4>3, <5>1, <5>2 DEF TicketCount
        <5> QED BY <4>4, <4>5, <5>3
      <4> QED BY <4>6, <4>7
    <3> QED BY <3>1, <3>2
  <2>7. TicketReply(c)'
    <3>1. CASE c = io.tag
      <4>1. io \in Own(c)
        BY <1>1, <3>1 DEF Own
      <4>2. Rest(c) /\ sent[c] = <<>> /\ Own(c)' = {} /\ Later(c)' = {} /\ req[c] # None
        BY <2>1, <2>2, <2>3, <4>1 DEF Ticket, TicketReply
      <4>3. sent'[c] = Append(<<>>, Paddr(ok, io.t.out))
        BY <1>4, <3>1, <4>2
      <4>4. Len(sent'[c]) = 1
        BY <4>3
      <4> QED BY <1>1, <2>6, <4>2, <4>4 DEF TicketReply
    <3>2. CASE c # io.tag /\ \E d \in replies : d.c = c
      <4>1. PICK d \in replies : d = reply(c) /\ d.c = c
        BY <3>2 DEF reply
      <4>2. sent'[c] = Append(sent[c], ContReply(d, ok)) /\ d \in wq /\ d \in D
        BY <1>3, <1>4, <1>5, <3>2, <4>1
      <4>3. CASE d.kind = "reply"
        <5>1. d \in Later(c)
          BY <4>1, <4>2, <4>3 DEF Later
        <5>2. Rest(c) /\ sent[c] = <<>> /\ Own(c)' = {} /\ Later(c)' = {} /\ req[c] # None
          BY <2>1, <2>2, <2>3, <4>2, <5>1 DEF Ticket, TicketReply
        <5>3. Len(sent'[c]) = 1
          BY <4>2, <5>2
        <5> QED BY <1>1, <2>6, <5>2, <5>3 DEF TicketReply
      <4>4. CASE d.kind = "io"
        <5>1. ~ok /\ d \in PendW(c) /\ ContReply(d, ok) = Plain(ok)
          BY <1>5, <4>1, <4>2, <4>4 DEF PendW, ContReply
        <5>2. ~Rest(c)
          BY <5>1 DEF Rest
        <5>3. /\ Own(c) = {} /\ Later(c) = {} /\ req[c] # None
              /\ sent[c] # <<>> => ~sent[c][1].ok
          BY <2>1, <5>2 DEF Ticket, TicketReply
        <5>4. Plain(ok) \in ReplyType /\ ~Plain(ok).ok
          BY <5>1, Replies DEF Plain, Reply
        <5>5. sent'[c] # <<>> /\ ~sent'[c][1].ok
          BY <2>1, <4>2, <5>1, <5>3, <5>4, AppendFirst
        <5>6. Own(c)' = {} /\ Later(c)' = {} /\ req'[c] # None
          BY <1>1, <2>2, <2>3, <5>3
        <5> QED BY <5>5, <5>6 DEF TicketReply
      <4> QED BY <1>3, <4>2, <4>3, <4>4
    <3>3. CASE c # io.tag /\ ~\E d \in replies : d.c = c
      <4>1. sent'[c] = sent[c] /\ req'[c] = req[c]
        BY <1>1, <1>4, <3>3
      <4>2. Own(c)' \subseteq Own(c) /\ Later(c)' \subseteq Later(c)
        BY <2>2, <2>3
      <4> QED BY <2>1, <2>6, <4>1, <4>2 DEF Ticket, TicketReply
    <3> QED BY <3>1, <3>2, <3>3
  <2> QED BY <2>6, <2>7 DEF Ticket
<1>9. DOMAIN count' = Cmd
  BY <1>4 DEF Tickets
<1> QED BY <1>8, <1>9 DEF Tickets

\* The clusters a multi-cluster read fetches are finitely many.
LEMMA ReadsFinite ==
    ASSUME NEW n \in Nat, NEW f
    PROVE  IsFiniteSet({f[b] : b \in 1 .. n})
<1> DEFINE T == {f[b] : b \in 1 .. n}
           g == [b \in 1 .. n |-> f[b]]
<1>1. IsFiniteSet(1 .. n)
  BY FS_Interval
<1>2. g \in Surjection(1 .. n, T)
  BY DEF Surjection
<1> QED BY <1>1, <1>2, FS_Surjection

\* Every step keeps the tickets.
LEMMA TicketsStep == ASSUME SrvInv, Tickets, [SrvNext]_allVars PROVE Tickets'
<1>1. ASSUME NEW c \in Cmd, NEW rq \in Requests, Submit(c, rq) PROVE Tickets'
  <2>1. CASE \E r \in ReplyType : Take(c, rq) /\ Send(c, r) /\ UNCHANGED <<cur, count, wq, sq, ring>>
    BY <2>1, TicketAnswer
  <2>2. CASE ReadOne(c, rq)
    <3>1. rq.blks[1] \in Vblk
      BY <2>2, ReqBlks DEF ReadOne
    <3>2. translate_read(head, rq.blks[1]) \in Entry
      BY <3>1, HeldIsSafe DEF SrvInv, HeldSafe
    <3> QED BY <2>1, <2>2, <3>2, Replies DEF ReadOne
  <2>3. CASE ReadMany(c, rq)
    <3> DEFINE tls == {translate_read(head, rq.blks[b]) : b \in 1 .. Len(rq.blks)}
               ios == {Rw(c, tl.off) : tl \in {x \in tls : valid(x)}}
    <3>1. Take(c, rq) /\ UNCHANGED <<cur, wq>>
      BY <2>3 DEF ReadMany
    <3>2. \/ ios = {} /\ Send(c, Plain(TRUE)) /\ UNCHANGED <<count, sq, ring>>
          \/ /\ count' = [count EXCEPT ![c] = Cardinality(ios)]
             /\ Kick(ios) /\ sent' = sent
      BY <2>3 DEF ReadMany
    <3>3. \A io \in ios : ~IsAlloc(io) /\ io.tag = c
      BY DEF Rw, IsAlloc
    <3>4. IsFiniteSet(ios)
      <4>1. PICK n \in Nat : n = Len(rq.blks)
        BY <2>3, ReqBlks DEF ReadMany
      <4>2. PICK f : f = [b \in 1 .. n |-> Rw(c, translate_read(head, rq.blks[b]).off)]
        OBVIOUS
      <4>3. IsFiniteSet({f[b] : b \in 1 .. n})
        BY ReadsFinite
      <4>4. ios \in SUBSET {f[b] : b \in 1 .. n}
        BY <4>1, <4>2
      <4> QED BY <4>3, <4>4, FS_Subset
    <3> HIDE DEF ios
    <3> QED BY <2>1, <3>1, <3>2, <3>3, <3>4, Replies, TicketSubmit
  <2>4. CASE Flush(c, rq)
    <3>1. PICK io : io = Rw(c, 0)
      OBVIOUS
    <3>2. ~IsAlloc(io) /\ io.tag = c
      BY <3>1 DEF Rw, IsAlloc
    <3>3. IsFiniteSet({io}) /\ Cardinality({io}) = 1
      BY FS_Singleton
    <3>4. /\ Take(c, rq) /\ count' = [count EXCEPT ![c] = Cardinality({io})]
          /\ Kick({io}) /\ UNCHANGED <<cur, wq, sent>>
      BY <2>4, <3>1, <3>3 DEF Flush
    <3> QED BY <3>2, <3>3, <3>4, TicketSubmit
  <2>5. CASE Snapshot(c, rq)
    BY <2>1, <2>5, Replies DEF Snapshot
  <2>6. CASE WriteAlloc(c, rq)
    <3>1. PICK v \in Vblk : v = rq.blks[1] /\ BeginTx(v)
      BY <2>6, ReqBlks DEF WriteAlloc
    <3>2. PICK t \in Tx : t # NoTx /\ tx' \ tx = {t}
      BY <3>1, Began
    <3>3. PICK a : a = Alloc(c, t)
      OBVIOUS
    <3>4. IsAlloc(a) /\ a.tag = c /\ {Alloc(c, u) : u \in tx' \ tx} = {a}
      BY <3>2, <3>3 DEF Alloc, IsAlloc
    <3>5. Take(c, rq) /\ Kick({a}) /\ UNCHANGED <<cur, count, sent>> /\ wq' = wq \union {}
      BY <2>6, <3>4 DEF WriteAlloc
    <3>6. PICK ios, cs : ios = {a} /\ cs = {}
      OBVIOUS
    <3>7. (\A io \in ios : IsAlloc(io) /\ io.tag = c) /\ \A x, y \in ios : x = y
      BY <3>4, <3>6
    <3>8. (\A d \in cs : d.kind = "reply" /\ d.c = c) /\ Kick(ios) /\ wq' = wq \union cs
      BY <3>5, <3>6
    <3> QED BY <3>5, <3>6, <3>7, <3>8, TicketLater
  <2>7. CASE WriteQueued(c, rq)
    <3>1. PICK d : d = Cont("reply", c, rq.blks[1])
      OBVIOUS
    <3>2. d.kind = "reply" /\ d.c = c
      BY <3>1 DEF Cont
    <3>3. Take(c, rq) /\ Stage({}) /\ UNCHANGED <<cur, count, sent>> /\ wq' = wq \union {d}
      BY <2>7, <3>1 DEF WriteQueued, Stage
    <3>4. PICK ios, cs : ios = {} /\ cs = {d}
      OBVIOUS
    <3>5. (\A x \in cs : x.kind = "reply" /\ x.c = c) /\ \A x, y \in cs : x = y
      BY <3>2, <3>4
    <3>6. (\A io \in ios : IsAlloc(io) /\ io.tag = c) /\ Stage(ios) /\ wq' = wq \union cs
      BY <3>3, <3>4
    <3> QED BY <3>3, <3>4, <3>5, <3>6, TicketLater
  <2>8. CASE WriteReady(c, rq)
    <3>1. PICK v \in Vblk : v = rq.blks[1] /\ tx_write_prep(v)
      BY <2>8, ReqBlks DEF WriteReady
    <3>2. NewEntry(v) \in Entry
      BY <3>1, Prep
    <3> QED BY <2>1, <2>8, <3>1, <3>2, Replies DEF WriteReady
  <2>9. CASE WriteThrows(c, rq)
    BY <2>1, <2>9, Replies DEF WriteThrows
  <2>10. CASE WriteMany(c, rq)
    <3>1. Ticket(c) /\ Take(c, rq) /\ cur'.c = c /\ UNCHANGED <<count, wq, sq, ring, sent>>
      BY <2>10 DEF WriteMany, Tickets
    <3>2. /\ Rest(c) /\ sent[c] = <<>> /\ Later(c) = {} /\ Own(c) = {}
          /\ cur = Idle /\ req'[c] # None /\ \A x \in Cmd : x # c => req'[x] = req[x]
      BY <3>1, TicketNew
    <3>3. /\ PendW(c)' = {} /\ Later(c)' = {} /\ Own(c)' = {} /\ sent'[c] = <<>>
          /\ SqI(c)' = {} /\ RingI(c)' = {} /\ PendI(c)' = PendI(c) /\ PendW(c)' = PendW(c)
      BY <3>1, <3>2 DEF PendW, Later, Own, SqI, RingI, PendI, IsAlloc, Rest
    <3>4. TicketCount(c)' /\ TicketKick(c)'
      BY <3>1, <3>3 DEF Ticket, TicketCount, TicketKick
    <3>5. TicketReply(c)'
      BY <3>2, <3>3 DEF TicketReply
    <3>6. Stage({}) /\ wq' = wq \union {}
      BY <3>1 DEF Stage
    <3>7. \A x \in Cmd : x # c => UNCHANGED <<count[x], sent[x], req[x]>>
      BY <3>1, <3>2
    <3>8. \A x \in Cmd : x # c => Ticket(x)'
      BY <3>1, <3>2, <3>6, <3>7, TicketOthers
    <3> QED BY <3>1, <3>4, <3>5, <3>8 DEF Tickets, Ticket
  <2> QED
    BY <1>1, <2>2, <2>3, <2>4, <2>5, <2>6, <2>7, <2>8, <2>9, <2>10 DEF Submit
<1>2. CASE PieceAlloc
  <2>1. PICK v \in Vblk, c \in Cmd : v = cur.blks[1] /\ c = cur.c /\ BeginTx(v)
    BY <1>2, CurLeft DEF PieceAlloc
  <2>2. PICK t \in Tx : t # NoTx /\ tx' \ tx = {t}
    BY <2>1, Began
  <2>3. PICK a, w : a = Alloc(NoCmd, t) /\ w = Cont("io", c, v)
    OBVIOUS
  <2>4. /\ IsAlloc(a) /\ a.tag = NoCmd /\ {Alloc(NoCmd, u) : u \in tx' \ tx} = {a}
        /\ w.kind = "io" /\ w.c = c
    BY <2>2, <2>3 DEF Alloc, IsAlloc, Cont
  <2>5. cur # Idle /\ Piece({a}) /\ wq' = wq \union {w}
    BY <1>2, <2>1, <2>3, <2>4 DEF PieceAlloc
  <2> QED BY <2>1, <2>4, <2>5, TicketPiece
<1>3. CASE PieceQueued
  <2>1. PICK w : w = Cont("io", cur.c, cur.blks[1])
    OBVIOUS
  <2>2. w.kind = "io" /\ w.c = cur.c
    BY <2>1 DEF Cont
  <2>3. cur # Idle /\ Piece({}) /\ wq' = wq \union {w}
    BY <1>3, <2>1 DEF PieceQueued
  <2>4. PICK ios, cs : ios = {} /\ cs = {w}
    OBVIOUS
  <2>5. (\A io \in ios : IsAlloc(io) /\ io.tag = NoCmd) /\ Piece(ios) /\ wq' = wq \union cs
    BY <2>3, <2>4
  <2> QED BY <2>2, <2>3, <2>4, <2>5, TicketPiece
<1>4. CASE PieceReady
  <2>1. PICK w : w = Rw(cur.c, NewEntry(cur.blks[1]).off)
    OBVIOUS
  <2>2. ~IsAlloc(w) /\ w.tag = cur.c
    BY <2>1 DEF Rw, IsAlloc
  <2>3. cur # Idle /\ Piece({w}) /\ wq' = wq \union {}
    BY <1>4, <2>1 DEF PieceReady
  <2> QED BY <2>2, <2>3, TicketPiece
<1>5. CASE PieceThrows
  BY <1>5, TicketThrows
<1>6. ASSUME NEW io \in ring, Complete(io) PROVE Tickets'
  BY <1>6, TicketAlloc, TicketRw DEF Complete
<1>7. CASE UNCHANGED allVars
  <2>1. UNCHANGED <<req, cur, count, wq, sq, ring, sent>>
    BY <1>7 DEF allVars, srvVars
  <2>2. ASSUME NEW c \in Cmd PROVE Ticket(c)'
    <3>1. /\ PendW(c)' = PendW(c) /\ Later(c)' = Later(c) /\ PendI(c)' = PendI(c)
          /\ Own(c)' = Own(c) /\ SqI(c)' = SqI(c) /\ RingI(c)' = RingI(c)
      BY <2>1 DEF PendW, Later, Own, SqI, RingI, PendI, IsAlloc
    <3> QED BY <2>1, <3>1, TicketSame DEF Tickets
  <2> QED BY <2>1, <2>2 DEF Tickets
<1> QED BY <1>1, <1>2, <1>3, <1>4, <1>5, <1>6, <1>7 DEF SrvNext, WritePiece

\* Whatever completes, fails or throws in whatever order, a command is
\* answered once, unless its first answer is an error.
THEOREM OneReplyHolds == SrvSpec => []OneReply
<1>1. SrvInit => Tickets
  <2> SUFFICES ASSUME SrvInit PROVE Tickets
    OBVIOUS
  <2>1. DOMAIN count = Cmd /\ \A c \in Cmd : count[c] = 0 /\ sent[c] = <<>> /\ cur.c # c
    BY RequestAssumption DEF SrvInit, Idle
  <2>2. ASSUME NEW c \in Cmd PROVE Ticket(c)
    <3>1. /\ PendW(c) = {} /\ Later(c) = {} /\ Own(c) = {} /\ SqI(c) = {} /\ RingI(c) = {}
          /\ PendI(c) = {}
      BY DEF SrvInit, PendW, Later, Own, SqI, RingI, PendI
    <3>2. TicketCount(c)
      BY <2>1, <3>1, FS_EmptySet DEF TicketCount
    <3> QED BY <2>1, <3>1, <3>2 DEF Ticket, TicketKick, TicketReply, Rest
  <2> QED BY <2>1, <2>2 DEF Tickets
<1>2. SrvInv /\ Tickets /\ [SrvNext]_allVars => Tickets'
  BY TicketsStep
<1>3. SrvInv /\ Tickets => OneReply
  <2> SUFFICES ASSUME SrvInv, Tickets, NEW c \in Cmd, Len(sent[c]) > 1 PROVE ~sent[c][1].ok
    BY DEF OneReply
  <2>1. sent[c] \in Seq(ReplyType) /\ TicketReply(c)
    BY DEF SrvInv, SrvTypes, Tickets, Ticket
  <2>2. sent[c] # <<>> /\ Len(sent[c]) # 1
    <3>1. \A z \in Seq(ReplyType) : z = <<>> => Len(z) = 0
      OBVIOUS
    <3>2. PICK n \in Nat : n = Len(sent[c])
      BY <2>1
    <3>0. n > 1
      BY <3>2, Zenon
    <3>3. n # 0 /\ n # 1
      BY <3>0
    <3> QED BY <2>1, <3>1, <3>2, <3>3
  <2> QED BY <2>1, <2>2 DEF TicketReply
<1> QED BY <1>1, <1>2, <1>3, SrvInvariant, PTL DEF SrvSpec

(***************************************************************************)
(* Writes are acknowledged with the cluster that is read from then on, as  *)
(* long as no snapshot is taken while they wait.                           *)
(***************************************************************************)
NoSnapshots == \A rq \in Requests : rq.op # "snapshot"

\* A transaction will commit into the newest snapshot's table.
TxCurrent == \A t \in tx : t.sn = head /\ needs_alloc(l0[t.m][l0_off(t.v)])

\* Allocations and continuations answer for the address asked.
AsksFor ==
    /\ \A io \in sq \union ring :
          IsAlloc(io) /\ io.tag \in Cmd => req[io.tag] # None /\ req[io.tag].blks[1] = io.t.v
    /\ \A d \in wq : /\ req[d.c] # None /\ req[d.c].blks[1] = d.v
                     /\ d.m # 0 /\ Ref(head, l1_off(d.v)) = encode(d.m, TRUE)

AckInv == SrvInv /\ Waiting /\ TxCurrent /\ AsksFor

\* Two addresses in the same place of the same table are one.
LEMMA SameAddress ==
    ASSUME NEW a \in Vblk, NEW b \in Vblk, l1_off(a) = l1_off(b), l0_off(a) = l0_off(b)
    PROVE  a = b
<1>1. a \in Nat /\ b \in Nat /\ PerCluster \in Nat /\ PerCluster >= 1
  BY SizeAssumption DEF Vblk
<1>2. /\ a = PerCluster * l1_off(a) + l0_off(a)
      /\ b = PerCluster * l1_off(b) + l0_off(b)
  BY <1>1, DivMod DEF l1_off, l0_off
<1> QED BY <1>2, Zenon

\* What a transaction of the newest snapshot refers to.
LEMMA TxTable ==
    ASSUME SrvInv, NEW t \in tx
    PROVE  /\ t.v \in Vblk /\ t.m \in Meta /\ t.m \in Nat /\ t.m # 0 /\ t.m < hwm /\ hwm \in Nat
           /\ t.out \in Nat /\ t.out # 0
           /\ t.sn \in 1 .. head /\ Ref(t.sn, l1_off(t.v)) = encode(t.m, TRUE)
<1>1. TypeOK /\ XcowInv /\ RefsTyped
  BY RefType DEF SrvInv, FileInv
<1>2. t.v \in Vblk /\ t.m \in Meta /\ t.out \in Nat
  BY <1>1 DEF TypeOK, Tx
<1>3. /\ t.sn \in 1 .. head /\ t.m # 0 /\ Ref(t.sn, l1_off(t.v)) = encode(t.m, TRUE)
      /\ 0 < t.out
  BY <1>1 DEF XcowInv, TxOwn
<1>4. Ref(t.sn, l1_off(t.v)).off < hwm /\ Ref(t.sn, l1_off(t.v)).off \in Nat /\ hwm \in Nat
  BY <1>1, <1>2, <1>3, Indices DEF XcowInv, RootsOwn, RefsTyped
<1>5. t.m = Ref(t.sn, l1_off(t.v)).off
  BY <1>3 DEF encode
<1>6. t.m \in Nat /\ t.m < hwm /\ hwm \in Nat
  BY <1>4, <1>5
<1>7. t.out # 0
  BY <1>2, <1>3
<1> QED BY <1>2, <1>3, <1>6, <1>7

\* Preparing a table leaves the entries of the transactions alone.
LEMMA PrepCurrent ==
    ASSUME SrvInv, NEW v \in Vblk, OwnL0(v), NEW t \in tx
    PROVE  l0'[t.m][l0_off(t.v)] = l0[t.m][l0_off(t.v)]
<1>1. t.m # hwm
  <2>1. t.m \in Nat /\ hwm \in Nat /\ t.m < hwm
    BY TxTable
  <2> QED BY <2>1
<1>2. CASE UNCHANGED l0
  BY <1>2
<1>3. CASE \E f : l0' = [l0 EXCEPT ![hwm] = f]
  <2>1. PICK f : l0' = [l0 EXCEPT ![hwm] = f]
    BY <1>3
  <2>2. t.m \in Meta /\ l0 \in [Meta -> [L0Idx -> Entry]]
    BY TxTable DEF SrvInv, FileInv, TypeOK
  <2> QED BY <1>1, <2>1, <2>2
<1> QED BY <1>2, <1>3 DEF OwnL0

\* Ending one transaction leaves the entries of the others alone.
LEMMA CommitCurrent ==
    ASSUME AckInv, NEW t \in tx, tx_write_commit(t) \/ Abort(t), NEW u \in tx, u # t
    PROVE  l0'[u.m][l0_off(u.v)] = l0[u.m][l0_off(u.v)]
<1>1. /\ t.v \in Vblk /\ u.v \in Vblk /\ t.m \in Meta /\ u.m \in Meta /\ t.m # 0 /\ u.m # 0
      /\ Ref(head, l1_off(t.v)) = encode(t.m, TRUE) /\ Ref(head, l1_off(u.v)) = encode(u.m, TRUE)
      /\ head \in 1 .. head
  BY TxTable DEF AckInv, TxCurrent
<1>2. t.v # u.v
  BY DEF AckInv, SrvInv, Ledger
<1>3. u.m # t.m \/ l0_off(u.v) # l0_off(t.v)
  <2> SUFFICES ASSUME u.m = t.m, l0_off(u.v) = l0_off(t.v) PROVE FALSE
    OBVIOUS
  <2>1. l1_off(t.v) \in L1Idx /\ l1_off(u.v) \in L1Idx
    BY <1>1, Indices
  <2>2. valid(Ref(head, l1_off(t.v))) /\ valid(Ref(head, l1_off(u.v)))
    BY <1>1 DEF valid, encode
  <2>3. l1_off(t.v) = l1_off(u.v)
    BY <1>1, <2>1, <2>2 DEF AckInv, SrvInv, FileInv, XcowInv, L0Order
  <2> QED BY <1>1, <1>2, <2>3, SameAddress
<1>4. l0 \in [Meta -> [L0Idx -> Entry]]
  BY DEF AckInv, SrvInv, FileInv, TypeOK
<1>5. l0_off(t.v) \in L0Idx /\ l0_off(u.v) \in L0Idx
  BY <1>1, Indices
<1>6. CASE l0' = l0
  BY <1>6
<1>7. CASE l0' = [l0 EXCEPT ![t.m] = [l0[t.m] EXCEPT ![l0_off(t.v)] = encode(t.out, TRUE)]]
  BY <1>1, <1>3, <1>4, <1>5, <1>7
<1> QED BY <1>6, <1>7 DEF tx_write_commit, Abort

\* A step that keeps the newest snapshot keeps what is asked for.
LEMMA AsksStep ==
    ASSUME AckInv, FileMove, head' = head,
           \A c \in Cmd : req[c] # None => req'[c] = req[c],
           \A io \in sq' \union ring' :
              \/ io \in sq \union ring
              \/ IsAlloc(io) /\ io.tag \in Cmd =>
                    req'[io.tag] # None /\ req'[io.tag].blks[1] = io.t.v,
           \A d \in wq' :
              \/ d \in wq
              \/ /\ req'[d.c] # None /\ req'[d.c].blks[1] = d.v
                 /\ d.m # 0 /\ Ref(head, l1_off(d.v))' = encode(d.m, TRUE)
    PROVE  AsksFor'
<1>1. SrvInv /\ StepKeeps /\ RefsTyped
  BY FileNext, RefType DEF AckInv, SrvInv, FileMove, FileInv
<1>2. ASSUME NEW d \in wq'
      PROVE  /\ req'[d.c] # None /\ req'[d.c].blks[1] = d.v
             /\ d.m # 0 /\ Ref(head, l1_off(d.v))' = encode(d.m, TRUE)
  <2>1. CASE d \in wq
    <3>1. d.c \in Cmd /\ d.v \in Vblk
      BY <1>1, <2>1 DEF SrvInv, SrvTypes, WorkType
    <3>2. /\ req[d.c] # None /\ req[d.c].blks[1] = d.v
          /\ d.m # 0 /\ Ref(head, l1_off(d.v)) = encode(d.m, TRUE)
      BY <2>1 DEF AckInv, AsksFor
    <3>3. PICK k \in 1 .. head : k = head
      BY <1>1 DEF RefsTyped
    <3>4. /\ l1_off(d.v) \in L1Idx /\ valid(Ref(k, l1_off(d.v))) /\ Ref(k, l1_off(d.v)).w
          /\ k <= Len(snaps')
      BY <1>1, <3>1, <3>2, <3>3, Indices DEF valid, encode, head, RefsTyped
    <3>5. Ref(k, l1_off(d.v))' = Ref(k, l1_off(d.v))
      BY <1>1, <3>4 DEF StepKeeps, TablesKept
    <3>6. Ref(head, l1_off(d.v))' = Ref(k, l1_off(d.v))'
      BY <3>3 DEF Ref
    <3> QED BY <3>1, <3>2, <3>3, <3>5, <3>6
  <2> QED BY <1>2, <2>1
<1>3. ASSUME NEW io \in sq' \union ring', IsAlloc(io), io.tag \in Cmd
      PROVE  req'[io.tag] # None /\ req'[io.tag].blks[1] = io.t.v
  BY <1>3 DEF AckInv, AsksFor
<1> QED BY <1>2, <1>3 DEF AsksFor, IsAlloc, None

\* What AckedWhereRead asks of a step.
Acked(c) == Len(sent'[c]) > Len(sent[c]) /\ req'[c].op = "write" => Resolved(c)'

\* No reply to c.
LEMMA AckedSame == ASSUME SrvInv, NEW c \in Cmd, sent'[c] = sent[c] PROVE Acked(c)
<1>1. sent[c] \in Seq(ReplyType)
  BY DEF SrvInv, SrvTypes
<1>2. PICK n \in Nat : n = Len(sent[c])
  BY <1>1
<1>3. ~(n > n)
  OBVIOUS
<1> QED BY <1>2, <1>3 DEF Acked

\* A reply to c that either names no cluster or the right one.
LEMMA AckedReply ==
    ASSUME SrvInv, NEW c \in Cmd, NEW r \in ReplyType, sent'[c] = Append(sent[c], r),
           r.ok /\ r.fwd => translate_read(head, req[c].blks[1])'.off = r.cl
    PROVE  Acked(c)
<1>1. sent[c] \in Seq(ReplyType)
  BY DEF SrvInv, SrvTypes
<1>2. sent'[c][Len(sent'[c])] = r
  BY <1>1
<1> QED BY <1>2 DEF Acked, Resolved

\* One reply to c, which names no cluster.
LEMMA AckedPlain ==
    ASSUME SrvInv, NEW c \in Cmd, NEW r \in ReplyType, Send(c, r), ~r.fwd
    PROVE  \A x \in Cmd : Acked(x)
<1>1. sent \in [Cmd -> Seq(ReplyType)] /\ sent' = [sent EXCEPT ![c] = Append(sent[c], r)]
  BY DEF SrvInv, SrvTypes, Send
<1>2. sent'[c] = Append(sent[c], r) /\ \A x \in Cmd : x # c => sent'[x] = sent[x]
  BY <1>1
<1>3. Acked(c)
  BY <1>2, AckedReply
<1> QED BY <1>2, <1>3, AckedSame

\* The entry of the newest snapshot's own table is what is read.
LEMMA OwnTable ==
    ASSUME NEW v \in Vblk, NEW m, m # 0, Ref(head, l1_off(v))' = encode(m, TRUE)
    PROVE  translate_read(head, v)' = l0'[m][l0_off(v)]
<1>1. Ref(head, l1_off(v))'.off = m
  BY DEF encode
<1> QED BY <1>1 DEF translate_read, Leaf, valid

\* Transactions that stay current.
LEMMA CurrentStep ==
    ASSUME AckInv, head' = head,
           \A t \in tx' : \/ t \in tx /\ l0'[t.m][l0_off(t.v)] = l0[t.m][l0_off(t.v)]
                          \/ t.sn = head /\ needs_alloc(l0'[t.m][l0_off(t.v)])
    PROVE  TxCurrent'
<1> SUFFICES ASSUME NEW t \in tx' PROVE t.sn = head' /\ needs_alloc(l0'[t.m][l0_off(t.v)])
  BY DEF TxCurrent
<1> QED BY DEF AckInv, TxCurrent

\* A handler that begins no allocation and queues nothing.
LEMMA AckQuiet ==
    ASSUME AckInv, FileMove, UNCHANGED <<snaps, tx, wq>>,
           \A t \in tx : l0'[t.m][l0_off(t.v)] = l0[t.m][l0_off(t.v)],
           \A c \in Cmd : req[c] # None => req'[c] = req[c],
           \A io \in sq' \union ring' : io \in sq \union ring \/ ~IsAlloc(io)
    PROVE  TxCurrent' /\ AsksFor'
<1>1. head' = head
  BY DEF head
<1>2. TxCurrent'
  BY <1>1, CurrentStep
<1>3. AsksFor'
  BY <1>1, AsksStep
<1> QED BY <1>2, <1>3

\* Taking a command changes no other request.
LEMMA TakeKeepsReq ==
    ASSUME SrvInv, NEW c \in Cmd, NEW rq \in Requests, Take(c, rq)
    PROVE  /\ req'[c] = rq /\ rq # None /\ \A x \in Cmd : req[x] # None => req'[x] = req[x]
<1>1. req \in [Cmd -> Requests \union {None}] /\ req' = [req EXCEPT ![c] = rq] /\ req[c] = None
  BY DEF SrvInv, SrvTypes, Take
<1>2. rq # None
  BY RequestAssumption DEF None
<1> QED BY <1>1, <1>2

\* The handlers.
LEMMA AckSubmit ==
    ASSUME SingleCluster, NoSnapshots, AckInv, NEW c \in Cmd, NEW rq \in Requests, Submit(c, rq)
    PROVE  TxCurrent' /\ AsksFor' /\ \A x \in Cmd : Acked(x)
<1>1. SrvInv /\ [SrvNext]_allVars
  BY DEF AckInv, SrvNext
<1>2. FileMove
  BY <1>1, SrvStep
<1>3. Take(c, rq)
  BY DEF Submit, ReadOne, ReadMany, Flush, Snapshot, WriteAlloc, WriteQueued, WriteReady,
         WriteThrows, WriteMany
<1>4. /\ req'[c] = rq /\ rq # None /\ \A x \in Cmd : req[x] # None => req'[x] = req[x]
  BY <1>1, <1>3, TakeKeepsReq
<1>5. CASE ReadOne(c, rq)
  <2>1. UNCHANGED <<snaps, tx, wq, l0, sq, ring>>
    BY <1>5 DEF ReadOne, vars
  <2>2. TxCurrent' /\ AsksFor'
    BY <1>2, <1>4, <2>1, AckQuiet
  <2>3. rq.op = "read" /\ \A x \in Cmd : x # c => sent'[x] = sent[x]
    BY <1>1, <1>5 DEF ReadOne, Send, SrvInv, SrvTypes
  <2>4. Acked(c)
    BY <1>4, <2>3 DEF Acked
  <2> QED BY <1>1, <2>2, <2>3, <2>4, AckedSame
<1>6. CASE ReadMany(c, rq)
  <2>1. UNCHANGED <<snaps, tx, wq, l0>>
    BY <1>6 DEF ReadMany, vars
  <2>2. \A io \in sq' \union ring' : io \in sq \union ring \/ ~IsAlloc(io)
    <3> DEFINE tls == {translate_read(head, rq.blks[b]) : b \in 1 .. Len(rq.blks)}
               ios == {Rw(c, tl.off) : tl \in {x \in tls : valid(x)}}
    <3>1. UNCHANGED <<sq, ring>> \/ Kick(ios)
      BY <1>6 DEF ReadMany
    <3>2. \A io \in ios : ~IsAlloc(io)
      BY DEF Rw, IsAlloc
    <3> HIDE DEF ios
    <3> QED BY <3>1, <3>2 DEF Kick
  <2>3. TxCurrent' /\ AsksFor'
    BY <1>2, <1>4, <2>1, <2>2, AckQuiet
  <2>4. sent' = sent \/ Send(c, Plain(TRUE))
    BY <1>6 DEF ReadMany
  <2> QED BY <1>1, <2>3, <2>4, AckedSame, AckedPlain, Replies
<1>7. CASE Flush(c, rq)
  <2>1. UNCHANGED <<snaps, tx, wq, l0, sent>>
    BY <1>7 DEF Flush, vars
  <2>2. \A io \in sq' \union ring' : io \in sq \union ring \/ ~IsAlloc(io)
    BY <1>7 DEF Flush, Kick, Rw, IsAlloc
  <2> QED BY <1>1, <1>2, <1>4, <2>1, <2>2, AckQuiet, AckedSame
<1>8. CASE Snapshot(c, rq)
  BY <1>8 DEF Snapshot, NoSnapshots
<1>9. CASE WriteMany(c, rq)
  <2>1. PICK n \in Nat : n = Len(rq.blks)
    BY <1>9, ReqBlks DEF WriteMany
  <2>2. n > 1 /\ n <= 1
    BY <1>9, <2>1, Zenon DEF WriteMany, SingleCluster
  <2> QED BY <2>2
<1>10. CASE WriteThrows(c, rq)
  <2>1. UNCHANGED <<snaps, tx, wq, sq, ring>> /\ Send(c, Plain(FALSE))
    BY <1>10 DEF WriteThrows, Throws, tx_write_prep, vars
  <2>2. rq.blks[1] \in Vblk /\ (l0' = l0 \/ OwnL0(rq.blks[1]))
    BY <1>10, ReqBlks DEF WriteThrows, Throws, tx_write_prep, vars
  <2>3. \A t \in tx : l0'[t.m][l0_off(t.v)] = l0[t.m][l0_off(t.v)]
    BY <1>1, <2>2, PrepCurrent
  <2>4. TxCurrent' /\ AsksFor'
    BY <1>2, <1>4, <2>1, <2>3, AckQuiet
  <2> QED BY <1>1, <2>1, <2>4, AckedPlain, Replies
<1>11. CASE WriteReady(c, rq)
  <2>1. PICK v \in Vblk : v = rq.blks[1] /\ OwnL0(v) /\ tx_write_prep(v)
    BY <1>11, ReqBlks DEF WriteReady, tx_write_prep
  <2>2. UNCHANGED <<snaps, tx, wq, sq, ring>> /\ Send(c, Entry_(TRUE, NewEntry(v)))
    BY <1>11, <2>1 DEF WriteReady, tx_write_prep
  <2>3. \A t \in tx : l0'[t.m][l0_off(t.v)] = l0[t.m][l0_off(t.v)]
    BY <1>1, <2>1, PrepCurrent
  <2>4. TxCurrent' /\ AsksFor'
    BY <1>2, <1>4, <2>2, <2>3, AckQuiet
  <2>5. TypeOK /\ XcowInv /\ KeepsList
    BY <1>1, <2>2, SameList DEF SrvInv, FileInv
  <2>6. PICK m \in Meta : m = NewTable(v) /\ m # 0 /\ Ref(head, l1_off(v))' = encode(m, TRUE)
    <3>1. NewTable(v) \in Meta /\ NewTable(v) # 0 /\ Ref(head, l1_off(v))' = encode(NewTable(v), TRUE)
      BY <2>1, <2>5, OwnStep
    <3> QED BY <3>1
  <2>7. translate_read(head, v)' = NewEntry(v)
    BY <2>6, OwnTable DEF NewEntry
  <2>8. NewEntry(v) \in Entry
    BY <1>1, <2>1, Prep
  <2>9. PICK r \in ReplyType : r = Entry_(TRUE, NewEntry(v)) /\ r.cl = NewEntry(v).off
    BY <2>8, Replies
  <2>10. sent'[c] = Append(sent[c], r) /\ \A x \in Cmd : x # c => sent'[x] = sent[x]
    BY <1>1, <2>2, <2>9 DEF Send, SrvInv, SrvTypes
  <2>11. translate_read(head, req[c].blks[1])'.off = r.cl
    BY <1>4, <2>1, <2>7, <2>9
  <2>12. Acked(c)
    BY <1>1, <2>10, <2>11, AckedReply
  <2> QED BY <1>1, <2>4, <2>10, <2>12, AckedSame
<1>12. CASE WriteAlloc(c, rq)
  <2>1. PICK v \in Vblk : v = rq.blks[1] /\ OwnL0(v) /\ BeginTx(v)
    BY <1>12, ReqBlks DEF WriteAlloc, BeginTx
  <2>2. PICK t \in Tx :
           /\ t.v = v /\ t # NoTx /\ t \notin tx
           /\ tx' = tx \union {t} /\ tx' \ tx = {t}
           /\ t = [v |-> v, m |-> NewTable(v), out |-> snaps[head].disk_hwm, sn |-> head]
    BY <1>1, <2>1, Began
  <2>3. /\ Kick({Alloc(c, u) : u \in tx' \ tx}) /\ UNCHANGED <<wq, sent>>
    BY <1>12 DEF WriteAlloc
  <2>4. PICK a \in IoType : a = Alloc(c, t) /\ a.t = t /\ a.tag = c
    BY AllocIo
  <2>5. {Alloc(c, u) : u \in tx' \ tx} = {a}
    BY <2>2, <2>4
  <2>6. sq' = {} /\ ring' = ring \union sq \union {a}
    BY <2>3, <2>5 DEF Kick
  <2>7. head' = head
    BY <1>1, <2>1, TakeKeeps DEF SrvInv, FileInv, BeginTx, KeepsList, head
  <2>8. t.sn = head /\ t.m = NewTable(v)
    BY <2>2
  <2>9. needs_alloc(l0'[t.m][l0_off(t.v)])
    BY <2>1, <2>2, <2>8 DEF BeginTx, NewEntry
  <2>10. TxCurrent'
    <3>1. \A u \in tx : l0'[u.m][l0_off(u.v)] = l0[u.m][l0_off(u.v)]
      BY <1>1, <2>1, PrepCurrent
    <3> QED BY <2>2, <2>7, <2>8, <2>9, <3>1, CurrentStep
  <2>11. AsksFor'
    <3>1. \A io \in sq' \union ring' : io \in sq \union ring \/ io = a
      BY <2>6
    <3>2. req'[a.tag] # None /\ req'[a.tag].blks[1] = a.t.v
      BY <1>4, <2>1, <2>2, <2>4
    <3> QED BY <1>2, <1>4, <2>3, <2>7, <3>1, <3>2, AsksStep
  <2> QED BY <1>1, <2>3, <2>10, <2>11, AckedSame
<1>13. CASE WriteQueued(c, rq)
  <2>1. PICK v \in Vblk : v = rq.blks[1] /\ OwnL0(v)
    BY <1>13, ReqBlks DEF WriteQueued, tx_write_prep
  <2>2. UNCHANGED <<snaps, tx, sq, ring, sent>> /\ wq' = wq \union {Cont("reply", c, v)}
    BY <1>13, <2>1 DEF WriteQueued, tx_write_prep
  <2>3. TypeOK /\ XcowInv /\ KeepsList /\ head' = head
    BY <1>1, <2>2, SameList DEF SrvInv, FileInv, head
  <2>4. PICK m \in Meta : m = NewTable(v) /\ m # 0 /\ Ref(head, l1_off(v))' = encode(m, TRUE)
    <3>1. NewTable(v) \in Meta /\ NewTable(v) # 0 /\ Ref(head, l1_off(v))' = encode(NewTable(v), TRUE)
      BY <2>1, <2>3, OwnStep
    <3> QED BY <3>1
  <2>5. PICK d : d = [kind |-> "reply", c |-> c, v |-> v, m |-> m]
    OBVIOUS
  <2>6. wq' = wq \union {d} /\ d.c = c /\ d.v = v /\ d.m = m
    BY <2>2, <2>4, <2>5 DEF Cont
  <2>7. /\ req'[d.c] # None /\ req'[d.c].blks[1] = d.v
        /\ d.m # 0 /\ Ref(head, l1_off(d.v))' = encode(d.m, TRUE)
    BY <1>4, <2>1, <2>4, <2>6
  <2>8. AsksFor'
    BY <1>2, <1>4, <2>2, <2>3, <2>6, <2>7, AsksStep
  <2>9. TxCurrent'
    <3>1. \A u \in tx : l0'[u.m][l0_off(u.v)] = l0[u.m][l0_off(u.v)]
      BY <1>1, <2>1, PrepCurrent
    <3> QED BY <2>2, <2>3, <3>1, CurrentStep
  <2> QED BY <1>1, <2>2, <2>8, <2>9, AckedSame
<1> QED
  BY <1>5, <1>6, <1>7, <1>8, <1>9, <1>10, <1>11, <1>12, <1>13 DEF Submit

\* An allocation completes: its entry was still to be set, so that the
\* cluster it filled is what is read from now on.
LEMMA AckAlloc ==
    ASSUME SingleCluster, AckInv, NEW io \in ring, NEW ok \in BOOLEAN, AllocDone(io, ok)
    PROVE  TxCurrent' /\ AsksFor' /\ \A x \in Cmd : Acked(x)
<1>1. SrvInv /\ Waiting /\ [SrvNext]_allVars
  BY DEF AckInv, SrvNext, Complete
<1>2. FileMove /\ IsAlloc(io) /\ io.t \in tx
  BY <1>1, SrvStep DEF AllocDone, SrvInv, Ledger
<1>3. PICK t \in tx : t = io.t
  BY <1>2
<1>4. /\ IF ok THEN tx_write_commit(t) ELSE Abort(t)
      /\ UNCHANGED <<req, cur>>
  BY <1>3 DEF AllocDone
<1>5. tx' = tx \ {t} /\ UNCHANGED <<hwm, root, snaps>> /\ head' = head
  BY <1>4 DEF tx_write_commit, Abort, head
<1>6. TxCurrent'
  <2>1. \A u \in tx' : u \in tx /\ l0'[u.m][l0_off(u.v)] = l0[u.m][l0_off(u.v)]
    BY <1>4, <1>5, CommitCurrent
  <2> QED BY <1>5, <2>1, CurrentStep
<1>7. PICK D \in Drained(io.t.v, ok) :
          LET writes  == {d \in D : d.kind = "io"}
              replies == IF ok THEN D \ writes ELSE D
              ios     == {Rw(d.c, l0'[d.m][l0_off(d.v)].off) : d \in writes}
          IN  /\ wq' = wq \ D
              /\ sent' = [c \in Cmd |->
                    IF c = io.tag THEN Append(sent[c], Paddr(ok, io.t.out))
                    ELSE IF \E d \in replies : d.c = c
                    THEN Append(sent[c], ContReply(CHOOSE d \in replies : d.c = c, ok))
                    ELSE sent[c]]
              /\ \/ /\ ok /\ writes # {}
                    /\ ring' = (ring \ {io}) \union sq \union ios /\ sq' = {}
                    /\ UNCHANGED count
                 \/ /\ ~(ok /\ writes # {})
                    /\ ring' = ring \ {io} /\ UNCHANGED sq
                    /\ count' = [c \in Cmd |->
                          IF \E d \in writes : d.c = c THEN count[c] - 1 ELSE count[c]]
  BY DEF AllocDone
<1> DEFINE writes  == {d \in D : d.kind = "io"}
           replies == IF ok THEN D \ writes ELSE D
           reply(c) == CHOOSE d \in replies : d.c = c
<1>8. D \subseteq wq
  BY DrainedQueued
<1>9. writes = {}
  BY <1>1, <1>8 DEF Waiting
<1>10. /\ wq' = wq \ D /\ ring' = ring \ {io} /\ sq' = sq
       /\ \A c \in Cmd : sent'[c] =
            IF c = io.tag THEN Append(sent[c], Paddr(ok, io.t.out))
            ELSE IF \E d \in replies : d.c = c THEN Append(sent[c], ContReply(reply(c), ok))
            ELSE sent[c]
       /\ replies \subseteq D
  BY <1>7, <1>9
<1>11. AsksFor'
  <2>1. \A x \in sq' \union ring' : x \in sq \union ring
    BY <1>10
  <2>2. \A d \in wq' : d \in wq
    BY <1>10
  <2> QED BY <1>2, <1>4, <1>5, <2>1, <2>2, AsksStep
<1> HIDE DEF writes, replies, reply
<1>12. ASSUME NEW c \in Cmd, c = io.tag PROVE Acked(c)
  <2>1. sent'[c] = Append(sent[c], Paddr(ok, io.t.out))
    BY <1>10, <1>12
  <2>2. /\ t.v \in Vblk /\ t.m \in Meta /\ t.m # 0 /\ t.out \in Nat
        /\ Ref(t.sn, l1_off(t.v)) = encode(t.m, TRUE) /\ t.sn = head
        /\ needs_alloc(l0[t.m][l0_off(t.v)])
    BY <1>1, TxTable DEF AckInv, TxCurrent
  <2>3. PICK r \in ReplyType : r = Paddr(ok, io.t.out) /\ r.cl = t.out /\ r.ok = ok
    BY <1>3, <2>2, Replies DEF Paddr, Reply
  <2>4. req'[c].blks[1] = t.v
    BY <1>2, <1>3, <1>4, <1>12 DEF AckInv, AsksFor
  <2>5. ASSUME ok PROVE translate_read(head, t.v)'.off = t.out
    <3>1. l0' = [l0 EXCEPT ![t.m] = [l0[t.m] EXCEPT ![l0_off(t.v)] = encode(t.out, TRUE)]]
      BY <1>4, <2>2, <2>5 DEF tx_write_commit
    <3>2. l0 \in [Meta -> [L0Idx -> Entry]] /\ l0_off(t.v) \in L0Idx
      BY <1>1, <2>2, Indices DEF SrvInv, FileInv, TypeOK
    <3>3. l0'[t.m][l0_off(t.v)] = encode(t.out, TRUE)
      BY <2>2, <3>1, <3>2
    <3>4. Ref(head, l1_off(t.v))' = encode(t.m, TRUE)
      BY <1>5, <2>2 DEF Ref
    <3>5. translate_read(head, t.v)' = l0'[t.m][l0_off(t.v)]
      BY <2>2, <3>4, OwnTable
    <3> QED BY <3>3, <3>5 DEF encode
  <2>6. r.ok /\ r.fwd => translate_read(head, req[c].blks[1])'.off = r.cl
    BY <2>3, <2>4, <2>5
  <2> QED BY <1>1, <2>1, <2>3, <2>6, AckedReply
<1>13. ASSUME NEW c \in Cmd, c # io.tag, \E d \in replies : d.c = c PROVE Acked(c)
  <2>1. PICK d \in replies : d = reply(c) /\ d.c = c
    BY <1>13 DEF reply
  <2>2. sent'[c] = Append(sent[c], ContReply(d, ok)) /\ d \in wq /\ d.v \in Vblk /\ d.m \in Meta
    <3>1. sent'[c] = Append(sent[c], ContReply(d, ok))
      BY <1>10, <1>13, <2>1
    <3>2. d \in wq
      BY <1>8, <1>10, <2>1
    <3>3. d \in WorkType
      BY <1>1, <3>2 DEF SrvInv, SrvTypes
    <3> QED BY <3>1, <3>2, <3>3 DEF WorkType
  <2>3. /\ req'[c].blks[1] = d.v
        /\ d.m # 0 /\ Ref(head, l1_off(d.v)) = encode(d.m, TRUE)
    BY <1>4, <2>1, <2>2 DEF AckInv, AsksFor
  <2>4. Ref(head, l1_off(d.v))' = encode(d.m, TRUE)
    BY <1>5, <2>3 DEF Ref
  <2>5. translate_read(head, d.v)' = l0'[d.m][l0_off(d.v)]
    BY <2>2, <2>3, <2>4, OwnTable
  <2>6. d.kind = "reply"
    BY <1>1, <2>2 DEF Waiting
  <2>7. l0'[d.m][l0_off(d.v)] \in Entry
    <3>1. l0_off(d.v) \in L0Idx
      BY <2>2, Indices
    <3>2. l0' \in [Meta -> [L0Idx -> Entry]]
      BY <1>1, <1>2, MoveKeeps DEF FileInv, TypeOK
    <3> QED BY <2>2, <3>1, <3>2
  <2>8. PICK r \in ReplyType : r = ContReply(d, ok) /\ r.cl = l0'[d.m][l0_off(d.v)].off
    <3>1. ContReply(d, ok) = Entry_(ok, l0'[d.m][l0_off(d.v)])
      BY <2>6 DEF ContReply
    <3> QED BY <2>7, <3>1, Replies
  <2>9. translate_read(head, req[c].blks[1])'.off = r.cl
    BY <2>3, <2>5, <2>8
  <2> QED BY <1>1, <2>2, <2>8, <2>9, AckedReply
<1>14. ASSUME NEW c \in Cmd, c # io.tag, ~\E d \in replies : d.c = c PROVE Acked(c)
  <2>1. sent'[c] = sent[c]
    BY <1>10, <1>14
  <2> QED BY <1>1, <2>1, AckedSame
<1> QED BY <1>6, <1>11, <1>12, <1>13, <1>14

\* A read, write or fsync completes: the reply names no cluster.
LEMMA AckRw ==
    ASSUME AckInv, NEW io \in ring, NEW ok \in BOOLEAN, RwDone(io, ok)
    PROVE  TxCurrent' /\ AsksFor' /\ \A x \in Cmd : Acked(x)
<1>1. SrvInv /\ [SrvNext]_allVars
  BY DEF AckInv, SrvNext, Complete
<1>2. FileMove /\ io.tag \in Cmd
  BY <1>1, SrvStep DEF RwDone, SrvInv, SrvTypes
<1>3. UNCHANGED <<snaps, tx, wq, l0, sq, req>> /\ ring' = ring \ {io}
  BY DEF RwDone, vars
<1>4. TxCurrent' /\ AsksFor'
  BY <1>2, <1>3, AckQuiet
<1>5. sent' = sent \/ Send(io.tag, Plain(ok))
  BY DEF RwDone, Send
<1> QED BY <1>1, <1>2, <1>4, <1>5, AckedSame, AckedPlain, Replies

\* A step of the server.
LEMMA AckStep ==
    ASSUME SingleCluster, NoSnapshots, AckInv, [SrvNext]_allVars
    PROVE  AckInv' /\ \A c \in Cmd : Acked(c)
<1>1. SrvInv /\ Waiting /\ SrvInv' /\ Waiting'
  BY SrvStep, WaitingStep DEF AckInv
<1>2. CASE WritePiece
  BY <1>1, <1>2 DEF WritePiece, PieceAlloc, PieceQueued, PieceReady, PieceThrows, Waiting
<1>3. CASE UNCHANGED allVars
  <2>1. UNCHANGED <<snaps, tx, wq, l0, sq, ring, req, sent>> /\ UNCHANGED vars
    BY <1>3 DEF allVars, srvVars, vars
  <2>2. TxCurrent' /\ AsksFor'
    BY <1>1, <2>1, AckQuiet, StutterMove
  <2> QED BY <1>1, <2>1, <2>2, AckedSame DEF AckInv
<1>4. ASSUME NEW c \in Cmd, NEW rq \in Requests, Submit(c, rq)
      PROVE  TxCurrent' /\ AsksFor' /\ \A x \in Cmd : Acked(x)
  BY <1>4, AckSubmit
<1>5. ASSUME NEW io \in ring, Complete(io)
      PROVE  TxCurrent' /\ AsksFor' /\ \A x \in Cmd : Acked(x)
  BY <1>5, AckAlloc, AckRw DEF Complete
<1> QED BY <1>1, <1>2, <1>3, <1>4, <1>5 DEF SrvNext, AckInv

\* With requests within one cluster and no snapshot command, a write is
\* acknowledged with the cluster that reads of its address use from then
\* on.  (With a snapshot command it is not: run XcowSrvLost.)
THEOREM AckedWhereReadHolds == SingleCluster /\ NoSnapshots => (SrvSpec => AckedWhereRead)
<1> SUFFICES ASSUME SingleCluster, NoSnapshots PROVE SrvSpec => AckedWhereRead
  OBVIOUS
<1>1. SrvInit => AckInv
  BY SrvStart DEF AckInv, SrvInit, Waiting, TxCurrent, AsksFor
<1>2. AckInv /\ [SrvNext]_allVars => AckInv'
  BY AckStep
<1>3. AckInv /\ [SrvNext]_allVars =>
         [\A c \in Cmd :
            Len(sent'[c]) > Len(sent[c]) /\ req'[c].op = "write" => Resolved(c)']_allVars
  BY AckStep DEF Acked
<1> QED BY <1>1, <1>2, <1>3, PTL DEF SrvSpec, AckedWhereRead
=============================================================================
