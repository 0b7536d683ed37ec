------------------------------ MODULE LbaCache ------------------------------
(***************************************************************************)
(* The translation cache of the XCOW program (lbacache.hpp, and its kernel *)
(* twin nmbpf_xcow): a set-associative map from clusters of the virtual    *)
(* disk to clusters of the data disk, with bit-PLRU replacement.           *)
(*                                                                         *)
(* cache_tag, cache_plba and the VALID and WRITABLE bits of cache_meta are *)
(* the fields of ways; the MRU bits of cache_meta are mru.  Addresses are  *)
(* cluster numbers: a range lies in one cluster (the functions return      *)
(* early for any other), and the offset in the cluster is added unchanged. *)
(*                                                                         *)
(* The maps are BPF_MAP_TYPE_PERCPU_ARRAY: every processor has a copy of   *)
(* its own, and the program sees that of the processor it runs on.  ways   *)
(* and mru are that copy; copies holds those of the other processors,      *)
(* which no operation of the cache touches.                                *)
(***************************************************************************)
EXTENDS Integers

CONSTANTS
    Lines,   \* XCACHE_LINES
    Assoc,   \* XCACHE_ASSOC
    Cpus     \* the processors iothreads are bound to

ASSUME CacheAssumption ==
    /\ Lines \in Nat /\ Lines >= 1
    /\ Assoc \in Nat /\ Assoc >= 1
    /\ 0 \in Cpus

VARIABLES
    ways,    \* ways[l][i]: valid and writable bits, tag and physical cluster
    mru,     \* mru[l]: the ways of line l marked recently used
    cpu,     \* the processor the program runs on
    copies   \* the maps of the other processors, as they were left

otherCpus == <<cpu, copies>>
cacheVars == <<ways, mru, otherCpus>>

Line == 0 .. Lines - 1
Way  == 0 .. Assoc - 1

\* VLBA_RESOLVE
idx(v) == v % Lines
tag(v) == v \div Lines

WayType == [vld : BOOLEAN, wr : BOOLEAN, tag : Nat, plba : Nat]

Filled(v, p, w) == [vld |-> TRUE, wr |-> w, tag |-> tag(v), plba |-> p]

NoWays == [l \in Line |-> [i \in Way |-> [vld |-> FALSE, wr |-> FALSE, tag |-> 0, plba |-> 0]]]
Empty  == [ways |-> NoWays, mru |-> [l \in Line |-> {}]]

\* The kernel clears the maps of all processors when they are created.
CacheInit ==
    /\ ways = Empty.ways /\ mru = Empty.mru
    /\ cpu = 0
    /\ copies = [p \in Cpus |-> Empty]

\* The program runs on processor p from now on.
run_on(p) ==
    /\ ways' = copies[p].ways /\ mru' = copies[p].mru
    /\ cpu' = p
    /\ copies' = [copies EXCEPT ![cpu] = [ways |-> ways, mru |-> mru]]

\* Ascending search: the first way of S.
First(S) == CHOOSE i \in S : \A j \in S : i <= j

\* The ways that hold cluster v.
Holding(v) == {i \in Way : ways[idx(v)][i].vld /\ ways[idx(v)][i].tag = tag(v)}

Cached(v) == Holding(v) # {}
Found(v)  == ways[idx(v)][First(Holding(v))]

\* Setting the last MRU bit of a line clears the others.
Marked(m, i) == IF m \union {i} = Way THEN {i} ELSE m \union {i}
Touch(v, i)  == mru' = [mru EXCEPT ![idx(v)] = Marked(mru[idx(v)], i)]

\* lba_lookup of v; what it returns is Found(v) where Cached(v).
lba_lookup(v) ==
    IF Cached(v) THEN Touch(v, First(Holding(v))) ELSE UNCHANGED mru

\* Mutation: v is not searched for before a way is chosen.
Slot_blind(v) ==
    LET free == {i \in Way : ~ways[idx(v)][i].vld}
        cold == Way \ mru[idx(v)]
    IN  IF free # {} THEN First(free) ELSE IF cold # {} THEN First(cold) ELSE 0

\* The way lba_update uses: the one that holds v, an invalid one, one that
\* was not recently used, the first.
Slot(v) ==
    LET free == {i \in Way : ~ways[idx(v)][i].vld}
        cold == Way \ mru[idx(v)]
    IN  IF Cached(v) THEN First(Holding(v))
        ELSE IF free # {} THEN First(free)
        ELSE IF cold # {} THEN First(cold)
        ELSE 0

lba_update(v, p, w) ==
    /\ ways' = [ways EXCEPT ![idx(v)] = [ways[idx(v)] EXCEPT ![Slot(v)] = Filled(v, p, w)]]
    /\ Touch(v, Slot(v))

\* The line of v without v.  WRITABLE stays behind in an invalid way.
Dropped(v) ==
    [i \in Way |-> IF i \in Holding(v)
                   THEN [vld |-> FALSE, wr |-> ways[idx(v)][i].wr,
                         tag |-> ways[idx(v)][i].tag, plba |-> ways[idx(v)][i].plba]
                   ELSE ways[idx(v)][i]]

\* Mutation: a way is dropped by a tag no cluster has, the bit stays.
lba_flush_range_tag(v) ==
    ways' = [ways EXCEPT ![idx(v)] = [i \in Way |->
               IF i \in Holding(v) THEN [ways[idx(v)][i] EXCEPT !.tag = -1] ELSE ways[idx(v)][i]]]
lba_flush_range(v) == ways' = [ways EXCEPT ![idx(v)] = Dropped(v)]

\* lba_clear_flag_all(AUXBITS_WRITABLE): bpf_arraymap_elem_band masks the
\* entries of this_cpu_ptr.  Mutation: only the first way.
lba_clear_writable_first ==
    ways' = [l \in Line |-> [i \in Way |->
               [vld |-> ways[l][i].vld, wr |-> ways[l][i].wr /\ i # 0,
                tag |-> ways[l][i].tag, plba |-> ways[l][i].plba]]]
lba_clear_writable ==
    ways' = [l \in Line |-> [i \in Way |->
               [vld |-> ways[l][i].vld, wr |-> FALSE,
                tag |-> ways[l][i].tag, plba |-> ways[l][i].plba]]]

-----------------------------------------------------------------------------
CacheTypeOK ==
    /\ ways \in [Line -> [Way -> WayType]]
    /\ mru \in [Line -> SUBSET Way]

CopiesTypeOK ==
    /\ cpu \in Cpus
    /\ copies \in [Cpus -> [ways : [Line -> [Way -> WayType]], mru : [Line -> SUBSET Way]]]

\* A cluster is held by at most one way of the copy in use, so that an update
\* or a flush of it leaves no second translation for a later lookup to find.
CacheUnique ==
    \A l \in Line : \A i, j \in Way :
       ways[l][i].vld /\ ways[l][j].vld /\ ways[l][i].tag = ways[l][j].tag => i = j

=============================================================================
