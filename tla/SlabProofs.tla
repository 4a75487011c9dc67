----------------------------- MODULE SlabProofs -----------------------------
(* The slab allocator's lists, for any number of addresses and any number of *)
(* objects per slab.                                                         *)
EXTENDS Slab, TLAPS, FiniteSetTheorems

-----------------------------------------------------------------------------
(* Null-terminated chains.  c lists the n elements of S in the order of f.   *)
Lists(c, n, f, p, S) ==
  /\ c \in [0 .. n -> S \cup {NULL}]
  /\ c[0] = p /\ c[n] = NULL
  /\ \A k \in 0 .. n - 1 : c[k] \in S /\ f[c[k]] = c[k + 1]
  /\ \A j, k \in 0 .. n - 1 : c[j] = c[k] => j = k
  /\ \A x \in S : \E k \in 0 .. n - 1 : c[k] = x

(* The definition, with the list of a chain named.                           *)
LEMMA ChainIsList ==
  ASSUME NEW f, NEW p, NEW S
  PROVE  IsChainOf(f, p, S) <=> \E c : Lists(c, Cardinality(S), f, p, S)
BY DEF IsChainOf, Lists

(* A chain does not depend on what is outside its elements.                  *)
LEMMA ChainFrame ==
  ASSUME NEW f, NEW g, NEW p, NEW S, IsChainOf(f, p, S), \A x \in S : g[x] = f[x]
  PROVE  IsChainOf(g, p, S)
<1>1. PICK c : Lists(c, Cardinality(S), f, p, S)
  BY ChainIsList
<1>2. Lists(c, Cardinality(S), g, p, S)
  BY <1>1 DEF Lists
<1> QED BY <1>2, ChainIsList

(* The chain that starts with Null is the empty one.                         *)
LEMMA ChainNull ==
  /\ \A f : IsChainOf(f, NULL, {})
  /\ \A f, S : IsFiniteSet(S) /\ NULL \notin S /\ IsChainOf(f, NULL, S) => S = {}
<1>1. ASSUME NEW f PROVE IsChainOf(f, NULL, {})
  <2>1. Lists([k \in 0 .. 0 |-> NULL], 0, f, NULL, {})
    BY DEF Lists
  <2> QED BY <2>1, ChainIsList, FS_EmptySet
<1>2. ASSUME NEW f, NEW S, IsFiniteSet(S), NULL \notin S, IsChainOf(f, NULL, S)
      PROVE  S = {}
  <2>1. PICK c : Lists(c, Cardinality(S), f, NULL, S)
    BY <1>2, ChainIsList
  <2>2. Cardinality(S) \in Nat
    BY <1>2, FS_CardinalityType
  <2>3. Cardinality(S) = 0
    BY <1>2, <2>1, <2>2 DEF Lists
  <2> QED BY <1>2, <2>3, FS_EmptySet
<1> QED BY <1>1, <1>2

(* A new element in front.                                                   *)
LEMMA ChainPush ==
  ASSUME NEW f, NEW g, NEW p, NEW S, NEW x, IsFiniteSet(S), IsChainOf(f, p, S),
         x \notin S, x # NULL, g[x] = p, \A y \in S : g[y] = f[y]
  PROVE  IsChainOf(g, x, S \cup {x})
<1> DEFINE n == Cardinality(S)
<1>1. n \in Nat /\ Cardinality(S \cup {x}) = n + 1
  BY FS_CardinalityType, FS_AddElement
<1>2. PICK c : Lists(c, n, f, p, S)
  BY ChainIsList
<1> DEFINE d == [k \in 0 .. n + 1 |-> IF k = 0 THEN x ELSE c[k - 1]]
<1> HIDE DEF n
<1>3. Lists(d, n + 1, g, x, S \cup {x})
  <2>1. d \in [0 .. n + 1 -> (S \cup {x}) \cup {NULL}] /\ d[0] = x /\ d[n + 1] = NULL
    BY <1>1, <1>2 DEF Lists
  <2>2. \A k \in 0 .. n : d[k] \in S \cup {x} /\ g[d[k]] = d[k + 1]
    <3> SUFFICES ASSUME NEW k \in 0 .. n PROVE d[k] \in S \cup {x} /\ g[d[k]] = d[k + 1]
      OBVIOUS
    <3>1. CASE k = 0
      BY <1>1, <1>2, <3>1 DEF Lists
    <3>2. CASE k # 0
      <4>1. d[k] = c[k - 1] /\ d[k + 1] = c[k] /\ k - 1 \in 0 .. n - 1 /\ (k - 1) + 1 = k
        BY <1>1, <3>2
      <4> QED BY <1>2, <4>1 DEF Lists
    <3> QED BY <3>1, <3>2
  <2>3. \A j, k \in 0 .. n : d[j] = d[k] => j = k
    BY <1>1, <1>2 DEF Lists
  <2>4. \A y \in S \cup {x} : \E k \in 0 .. n : d[k] = y
    <3>0. 0 \in 0 .. n /\ d[0] = x
      BY <1>1
    <3> SUFFICES ASSUME NEW y \in S PROVE \E k \in 0 .. n : d[k] = y
      BY <3>0
    <3>1. PICK k \in 0 .. n - 1 : c[k] = y
      BY <1>2 DEF Lists
    <3>2. k + 1 \in 0 .. n /\ d[k + 1] = y
      BY <1>1, <3>1
    <3> QED BY <3>2
  <2>5. (n + 1) - 1 = n
    BY <1>1
  <2> HIDE DEF d
  <2> QED BY <2>1, <2>2, <2>3, <2>4, <2>5 DEF Lists
<1> QED BY <1>1, <1>3, ChainIsList

(* The first element removed.                                                *)
LEMMA ChainPop ==
  ASSUME NEW f, NEW p, NEW S, IsFiniteSet(S), IsChainOf(f, p, S), p # NULL
  PROVE  p \in S /\ IsChainOf(f, f[p], S \ {p})
<1> DEFINE n == Cardinality(S)
<1>1. n \in Nat
  BY FS_CardinalityType
<1>2. PICK c : Lists(c, n, f, p, S)
  BY ChainIsList
<1>3. n > 0 /\ p \in S
  BY <1>1, <1>2 DEF Lists
<1>4. Cardinality(S \ {p}) = n - 1
  BY <1>3, FS_RemoveElement
<1> DEFINE d == [k \in 0 .. n - 1 |-> c[k + 1]]
<1> HIDE DEF n
<1>5. Lists(d, n - 1, f, f[p], S \ {p})
  <2>1. \A k \in 0 .. n - 2 : d[k] \in S \ {p} /\ f[d[k]] = d[k + 1]
    BY <1>1, <1>2, <1>3 DEF Lists
  <2>2. d \in [0 .. n - 1 -> (S \ {p}) \cup {NULL}] /\ d[0] = f[p] /\ d[n - 1] = NULL
    <3>1. \A k \in 0 .. n - 1 : d[k] \in (S \ {p}) \cup {NULL}
      BY <1>1, <1>2, <1>3, <2>1 DEF Lists
    <3> QED BY <1>1, <1>2, <1>3, <3>1 DEF Lists
  <2>3. \A j, k \in 0 .. n - 2 : d[j] = d[k] => j = k
    BY <1>1, <1>2 DEF Lists
  <2>4. \A y \in S \ {p} : \E k \in 0 .. n - 2 : d[k] = y
    <3> SUFFICES ASSUME NEW y \in S \ {p} PROVE \E k \in 0 .. n - 2 : d[k] = y
      OBVIOUS
    <3>1. PICK k \in 0 .. n - 1 : c[k] = y
      BY <1>2 DEF Lists
    <3>2. k # 0 /\ k - 1 \in 0 .. n - 2 /\ d[k - 1] = y
      BY <1>1, <1>2, <3>1 DEF Lists
    <3> QED BY <3>2
  <2>5. (n - 1) - 1 = n - 2
    BY <1>1
  <2> HIDE DEF d
  <2> QED BY <2>1, <2>2, <2>3, <2>4, <2>5 DEF Lists
<1> QED BY <1>3, <1>4, <1>5, ChainIsList

(* An element b behind a, unlinked by making a point past it.                *)
LEMMA ChainUnlink ==
  ASSUME NEW f, NEW g, NEW p, NEW S, IsFiniteSet(S), NULL \notin S, IsChainOf(f, p, S),
         NEW a \in S, NEW b \in S, f[a] = b, g[a] = f[b], \A x \in S \ {a} : g[x] = f[x]
  PROVE  IsChainOf(g, p, S \ {b})
<1> DEFINE n == Cardinality(S)
<1>1. n \in Nat /\ Cardinality(S \ {b}) = n - 1
  BY FS_CardinalityType, FS_RemoveElement
<1>2. PICK c : Lists(c, n, f, p, S)
  BY ChainIsList
<1>3. PICK i \in 0 .. n - 1 : c[i] = a
  BY <1>2 DEF Lists
<1> HIDE DEF n
<1>4. i + 1 \in 1 .. n - 1 /\ c[i + 1] = b
  BY <1>1, <1>2, <1>3 DEF Lists
<1> DEFINE d == [k \in 0 .. n - 1 |-> IF k <= i THEN c[k] ELSE c[k + 1]]
<1>5. Lists(d, n - 1, g, p, S \ {b})
  <2>a. /\ \A k \in 0 .. n - 1 : c[k] \in S /\ f[c[k]] = c[k + 1] /\ c[k] # NULL
        /\ \A j, k \in 0 .. n - 1 : c[j] = c[k] => j = k
        /\ c[n] = NULL /\ c[0] = p
    BY <1>2 DEF Lists
  <2>b. \A k \in 0 .. n - 1 : d[k] = IF k <= i THEN c[k] ELSE c[k + 1]
    OBVIOUS
  <2>1. \A k \in 0 .. n - 2 : d[k] \in S \ {b}
    BY <1>1, <1>4, <2>a, <2>b
  <2>2. \A k \in 0 .. n - 2 : g[d[k]] = d[k + 1]
    <3> SUFFICES ASSUME NEW k \in 0 .. n - 2 PROVE g[d[k]] = d[k + 1]
      OBVIOUS
    <3>1. CASE k = i
      BY <1>1, <1>3, <1>4, <2>a, <2>b, <3>1
    <3>2. CASE k < i
      <4>1. d[k] = c[k] /\ d[k + 1] = c[k + 1] /\ c[k] # a /\ c[k] \in S
        BY <1>1, <1>3, <1>4, <2>a, <2>b, <3>2
      <4>2. k \in 0 .. n - 1
        BY <1>1
      <4>3. g[c[k]] = f[c[k]] /\ f[c[k]] = c[k + 1]
        BY <2>a, <4>1, <4>2
      <4> HIDE DEF d
      <4> QED BY <4>1, <4>3
    <3>3. CASE k > i
      <4>1. d[k] = c[k + 1] /\ d[k + 1] = c[k + 2] /\ c[k + 1] # a /\ c[k + 1] \in S
        BY <1>1, <1>3, <1>4, <2>a, <2>b, <3>3
      <4>2. k + 1 \in 0 .. n - 1 /\ (k + 1) + 1 = k + 2
        BY <1>1, <1>4, <3>3
      <4> QED BY <2>a, <4>1, <4>2
    <3> QED BY <1>1, <3>1, <3>2, <3>3
  <2>3. d[0] = p /\ d[n - 1] = NULL
    BY <1>1, <1>4, <2>a, <2>b
  <2>4. d \in [0 .. n - 1 -> (S \ {b}) \cup {NULL}]
    <3>1. \A k \in 0 .. n - 1 : d[k] \in (S \ {b}) \cup {NULL}
      <4>1. ASSUME NEW k \in 0 .. n - 1 PROVE k = n - 1 \/ k \in 0 .. n - 2
        BY <1>1
      <4> HIDE DEF d
      <4> QED BY <2>1, <2>3, <4>1
    <3> QED BY <3>1
  <2>5. \A j, k \in 0 .. n - 2 : d[j] = d[k] => j = k
    BY <1>1, <1>4, <2>a, <2>b
  <2>6. \A y \in S \ {b} : \E k \in 0 .. n - 2 : d[k] = y
    <3> SUFFICES ASSUME NEW y \in S \ {b} PROVE \E k \in 0 .. n - 2 : d[k] = y
      OBVIOUS
    <3>1. PICK k \in 0 .. n - 1 : c[k] = y
      BY <1>2 DEF Lists
    <3>2. k # i + 1
      BY <1>4, <3>1
    <3>3. CASE k <= i
      BY <1>1, <1>4, <2>b, <3>1, <3>3
    <3>4. CASE k > i
      <4>1. k - 1 \in 0 .. n - 2 /\ d[k - 1] = y
        BY <1>1, <1>4, <2>b, <3>1, <3>2, <3>4
      <4> QED BY <4>1
    <3> QED BY <1>1, <3>3, <3>4
  <2> HIDE DEF d
  <2> QED BY <1>1, <2>1, <2>2, <2>3, <2>4, <2>5, <2>6 DEF Lists
<1> QED BY <1>1, <1>5, ChainIsList

-----------------------------------------------------------------------------
ObjOf(s) == {o \in Obj : o[1] = s}

(* The objects of s that should be on its free list.                         *)
IdleOf(s) == {o \in Obj : o[1] = s /\ o \notin objects /\ (spc = "find" => o # obj)}

Full == {s \in live : free_objects[s] = N}

(* Both kinds of list.                                                       *)
ListOK    == IsChainOf(next, head, live)
OwnedLive == \A o \in objects : o[1] \in live
FreeOK    == \A s \in live : IsChainOf(next_free, free_list[s], IdleOf(s))
CountOK   == \A s \in live : free_objects[s] = Cardinality(IdleOf(s))

(* A free makes at most one more slab free; one is given back at once.       *)
FewFull == Cardinality(Full) <= IF spc = "reclaim" THEN 2 ELSE 1

Calls ==
  /\ spc = "boot" => head = NULL /\ live = {} /\ objects = {}
  /\ spc = "find" => obj \in Obj /\ obj \notin objects /\ obj[1] \in live
  /\ spc # "reclaim" => prev = NULL /\ fully_free_count = 0

(* slab_get has passed the slabs V, and none of them has an object.          *)
GetWalk(V) ==
  IsChainOf(next, slab, live \ V) /\ \A s \in V : free_objects[s] = 0

(* slab_free has passed the slabs V; prev is the last one, and free_target   *)
(* lies behind free_target_prev, unless it is the head of the list.          *)
ReclaimWalk(V) ==
  /\ IsChainOf(next, tmp, live \ V)
  /\ IF V = {} THEN prev = NULL ELSE prev \in V /\ next[prev] = tmp
  /\ fully_free_count = Cardinality({s \in V : free_objects[s] = N})
  /\ fully_free_count > 0 => free_target \in V /\ free_objects[free_target] = N
  /\ fully_free_count > 1 => free_target_prev \in V /\ next[free_target_prev] = free_target

Walks ==
  /\ spc = "get" => \E V \in SUBSET live : GetWalk(V)
  /\ spc = "reclaim" => \E V \in SUBSET live : ReclaimWalk(V)

IInv ==
  SlabTypeOK /\ ListOK /\ OwnedLive /\ FreeOK /\ CountOK /\ FewFull /\ Calls /\ Walks

-----------------------------------------------------------------------------
(* A slab has N objects, and its free list has finitely many of them.        *)
LEMMA ObjOfCard ==
  ASSUME NEW s \in Addr
  PROVE  IsFiniteSet(ObjOf(s)) /\ Cardinality(ObjOf(s)) = N
<1> DEFINE m == [k \in 1 .. N |-> <<s, k>>]
<1>1. m \in Bijection(1 .. N, ObjOf(s))
  <2>1. m \in [1 .. N -> ObjOf(s)]
    BY DEF ObjOf, Obj
  <2>2. IsInjective(m)
    BY DEF IsInjective
  <2>3. \A o \in ObjOf(s) : \E k \in 1 .. N : m[k] = o
    BY DEF ObjOf, Obj
  <2> HIDE DEF m
  <2> QED BY <2>1, <2>2, <2>3 DEF Bijection, Injection, Surjection
<1>2. N \in Nat /\ ExistsBijection(1 .. N, ObjOf(s))
  BY <1>1, SlabAssumption DEF ExistsBijection
<1> QED BY <1>2, FS_NatBijection, FS_CountingElements

(* The slabs, and the idle objects of each, are finite in number.            *)
LEMMA Finite ==
  ASSUME SlabTypeOK
  PROVE  /\ IsFiniteSet(live) /\ Cardinality(live) \in Nat
         /\ \A T \in SUBSET live : /\ IsFiniteSet(T) /\ Cardinality(T) \in Nat
                                  /\ Cardinality(T) <= Cardinality(Addr)
         /\ Cardinality(Addr) \in Nat
         /\ \A s \in live : /\ IsFiniteSet(IdleOf(s)) /\ Cardinality(IdleOf(s)) \in 0 .. N
                            /\ NULL \notin IdleOf(s)
         /\ NULL \notin live
<1>1. live \in SUBSET Addr /\ IsFiniteSet(Addr) /\ NULL \notin Addr /\ NULL \notin Obj /\ N \in Nat
  BY SlabAssumption DEF SlabTypeOK
<1>2. IsFiniteSet(live) /\ Cardinality(live) \in Nat /\ Cardinality(Addr) \in Nat
  BY <1>1, FS_Subset, FS_CardinalityType
<1>3. ASSUME NEW T \in SUBSET live
      PROVE  IsFiniteSet(T) /\ Cardinality(T) \in Nat /\ Cardinality(T) <= Cardinality(Addr)
  <2>1. T \in SUBSET Addr
    BY <1>1
  <2> QED BY <1>1, <2>1, FS_Subset, FS_CardinalityType
<1>4. ASSUME NEW s \in live
      PROVE  IsFiniteSet(IdleOf(s)) /\ Cardinality(IdleOf(s)) \in 0 .. N /\ NULL \notin IdleOf(s)
  <2>1. s \in Addr /\ IdleOf(s) \in SUBSET ObjOf(s) /\ NULL \notin IdleOf(s)
    BY <1>1 DEF IdleOf, ObjOf
  <2>2. /\ IsFiniteSet(IdleOf(s)) /\ Cardinality(IdleOf(s)) <= Cardinality(ObjOf(s))
        /\ Cardinality(ObjOf(s)) = N
    BY <2>1, ObjOfCard, FS_Subset
  <2>3. Cardinality(IdleOf(s)) \in Nat
    BY <2>2, FS_CardinalityType
  <2> QED BY <1>1, <2>1, <2>2, <2>3
<1> QED BY <1>1, <1>2, <1>3, <1>4

(* The list that slab_alloc_new links through a new slab.                    *)
LEMMA FreshChain ==
  ASSUME NEW s \in Addr
  PROVE  /\ IsChainOf(FreshNodes(s), <<s, 1>>, ObjOf(s))
         /\ IsChainOf(FreshNodes(s), FreshNodes(s)[<<s, 1>>], ObjOf(s) \ {<<s, 1>>})
<1> DEFINE F == FreshNodes(s)
           c == [k \in 0 .. N |-> IF k = N THEN NULL ELSE <<s, k + 1>>]
<1>0. N \in Nat /\ N > 0 /\ NULL \notin Obj
  BY SlabAssumption
<1>1. \A k \in 1 .. N : /\ <<s, k>> \in ObjOf(s)
                        /\ F[<<s, k>>] = IF k < N THEN <<s, k + 1>> ELSE NULL
  BY DEF FreshNodes, Obj, ObjOf
<1>2. Lists(c, N, F, <<s, 1>>, ObjOf(s))
  <2> HIDE DEF F
  <2>1. \A k \in 0 .. N : c[k] = IF k = N THEN NULL ELSE <<s, k + 1>>
    OBVIOUS
  <2>2. \A k \in 0 .. N - 1 : c[k] = <<s, k + 1>> /\ k + 1 \in 1 .. N
    BY <1>0, <2>1
  <2>3. \A k \in 0 .. N - 1 : c[k] \in ObjOf(s)
    BY <1>1, <2>2
  <2>4. c \in [0 .. N -> ObjOf(s) \cup {NULL}]
    <3>1. ASSUME NEW k \in 0 .. N PROVE c[k] \in ObjOf(s) \cup {NULL}
      <4>1. k = N \/ k \in 0 .. N - 1
        BY <1>0
      <4> QED BY <2>1, <2>3, <4>1
    <3> QED BY <3>1
  <2>5. c[0] = <<s, 1>> /\ c[N] = NULL
    BY <1>0, <2>1
  <2>6. ASSUME NEW k \in 0 .. N - 1 PROVE F[c[k]] = c[k + 1]
    <3>0. c[k] = <<s, k + 1>> /\ k + 1 \in 1 .. N
      BY <2>2
    <3>1. F[c[k]] = IF k + 1 < N THEN <<s, (k + 1) + 1>> ELSE NULL
      <4> HIDE DEF c
      <4> QED BY <1>1, <3>0, Zenon
    <3>2. c[k + 1] = IF k + 1 = N THEN NULL ELSE <<s, (k + 1) + 1>>
      BY <1>0, <2>1
    <3> QED BY <1>0, <3>1, <3>2
  <2>7. \A j, k \in 0 .. N - 1 : c[j] = c[k] => j = k
    BY <1>0, <2>2
  <2>8. ASSUME NEW o \in ObjOf(s) PROVE \E k \in 0 .. N - 1 : c[k] = o
    <3>1. PICK k \in 1 .. N : o = <<s, k>>
      BY DEF ObjOf, Obj
    <3>2. k - 1 \in 0 .. N - 1 /\ (k - 1) + 1 = k
      BY <1>0
    <3> QED BY <2>2, <3>1, <3>2
  <2> HIDE DEF c
  <2> QED BY <2>3, <2>4, <2>5, <2>6, <2>7, <2>8 DEF Lists
<1>3. IsChainOf(F, <<s, 1>>, ObjOf(s))
  <2> HIDE DEF F, c
  <2> QED BY <1>2, ObjOfCard, ChainIsList
<1>4. <<s, 1>> # NULL
  BY <1>0 DEF Obj
<1> HIDE DEF F
<1>5. IsChainOf(F, F[<<s, 1>>], ObjOf(s) \ {<<s, 1>>})
  BY <1>3, <1>4, ObjOfCard, ChainPop
<1> QED BY <1>3, <1>5 DEF F

-----------------------------------------------------------------------------
(* The steps that only walk along the lists.                                 *)
LEMMA ListsKept ==
  ASSUME IInv, UNCHANGED slabVars, objects' \subseteq objects, \A s \in live : IdleOf(s)' = IdleOf(s)
  PROVE  ListOK' /\ OwnedLive' /\ FreeOK' /\ CountOK' /\ Full' = Full
<1>1. /\ head' = head /\ next' = next /\ free_list' = free_list
      /\ free_objects' = free_objects /\ next_free' = next_free /\ live' = live
  BY DEF slabVars
<1>2. ListOK' /\ OwnedLive' /\ Full' = Full
  BY <1>1 DEF IInv, ListOK, OwnedLive, Full
<1>3. FreeOK'
  BY <1>1 DEF IInv, FreeOK
<1>4. CountOK'
  BY <1>1 DEF IInv, CountOK
<1> QED BY <1>2, <1>3, <1>4

(* The invariant before the first slab.                                      *)
LEMMA InitIInv == InitSlabs => IInv
<1> SUFFICES ASSUME InitSlabs PROVE IInv
  OBVIOUS
<1>1. SlabTypeOK
  <2>1. N \in Nat /\ Cardinality(Addr) \in Nat
    BY SlabAssumption, FS_CardinalityType
  <2> QED BY <2>1 DEF InitSlabs, SlabTypeOK
<1>2. ListOK
  BY ChainNull DEF InitSlabs, ListOK
<1>3. OwnedLive /\ FreeOK /\ CountOK /\ Calls /\ Walks
  BY DEF InitSlabs, OwnedLive, FreeOK, CountOK, Calls, Walks
<1>4. FewFull
  <2>1. Full = {} /\ spc # "reclaim"
    BY DEF InitSlabs, Full
  <2> QED BY <2>1, FS_EmptySet DEF FewFull
<1> QED BY <1>1, <1>2, <1>3, <1>4 DEF IInv

(* The steps that only walk the lists keep it.                               *)
LEMMA WalkIInv ==
  ASSUME IInv, GetCall \/ GetSkip \/ GetFail \/ FindSkip \/ ReclaimKeep
  PROVE  IInv'
<1>0. SlabTypeOK /\ UNCHANGED <<slabVars, objects>>
  BY DEF IInv, GetCall, GetSkip, GetFail, FindSkip, ReclaimKeep
<1>1. \A s \in live : IdleOf(s)' = IdleOf(s)
  <2>1. \/ spc # "find" /\ spc' # "find" /\ objects' = objects
        \/ spc' = spc /\ obj' = obj /\ objects' = objects
    BY DEF GetCall, GetSkip, GetFail, FindSkip, ReclaimKeep, SlabReturn
  <2> QED BY <2>1 DEF IdleOf
<1>2. ListOK' /\ OwnedLive' /\ FreeOK' /\ CountOK' /\ Full' = Full
  BY <1>0, <1>1, ListsKept
<1>3. SlabTypeOK'
  <2>1. Cardinality(Addr) \in Nat
    BY <1>0, Finite
  <2>2. CASE GetCall
    BY <1>0, <2>2 DEF SlabTypeOK, GetCall, slabVars, reclaimVars
  <2>3. CASE GetSkip \/ FindSkip
    <3>1. slab \in Addr /\ slab' = next[slab] /\ next[slab] \in Addr \cup {NULL}
      BY <1>0, <2>3 DEF SlabTypeOK, GetSkip, FindSkip
    <3> QED BY <1>0, <2>3, <3>1 DEF SlabTypeOK, GetSkip, FindSkip, slabVars, reclaimVars
  <2>4. CASE GetFail \/ ReclaimKeep
    BY <1>0, <2>1, <2>4 DEF SlabTypeOK, GetFail, ReclaimKeep, SlabReturn, slabVars
  <2> QED BY <2>2, <2>3, <2>4
<1>4. FewFull'
  <2>1. CASE GetCall \/ GetSkip \/ GetFail \/ FindSkip
    <3>1. spc # "reclaim" /\ spc' # "reclaim"
      BY <2>1 DEF GetCall, GetSkip, GetFail, FindSkip, SlabReturn
    <3> QED BY <1>2, <3>1 DEF IInv, FewFull
  <2>2. CASE ReclaimKeep
    <3>1. PICK V \in SUBSET live : ReclaimWalk(V)
      BY <2>2 DEF IInv, Walks, ReclaimKeep
    <3>2. tmp = NULL /\ fully_free_count < 2 /\ spc' = "idle"
      BY <2>2 DEF ReclaimKeep, SlabReturn
    <3>3. live \ V = {}
      <4>1. IsChainOf(next, NULL, live \ V) /\ IsFiniteSet(live \ V) /\ NULL \notin live \ V
        BY <1>0, <3>1, <3>2, Finite DEF ReclaimWalk
      <4> QED BY <4>1, ChainNull
    <3>4. Full = {s \in V : free_objects[s] = N}
      BY <3>1, <3>3 DEF Full
    <3>5. Cardinality(Full) < 2 /\ Cardinality(Full) \in Nat
      <4>1. Full \in SUBSET live
        BY DEF Full
      <4>2. Cardinality(Full) \in Nat
        BY <1>0, <4>1, Finite
      <4> QED BY <3>1, <3>2, <3>4, <4>2 DEF ReclaimWalk
    <3> QED BY <1>2, <3>2, <3>5 DEF FewFull
  <2> QED BY <2>1, <2>2
<1>5. Calls'
  <2>1. CASE GetCall \/ GetSkip \/ FindSkip
    BY <1>0, <2>1 DEF IInv, Calls, GetCall, GetSkip, FindSkip, slabVars, reclaimVars
  <2>2. CASE GetFail \/ ReclaimKeep
    BY <2>2 DEF Calls, GetFail, ReclaimKeep, SlabReturn
  <2> QED BY <2>1, <2>2
<1>6. Walks'
  <2>1. CASE GetCall
    <3>1. IsChainOf(next', slab', live' \ {})
      <4>1. live \ {} = live
        OBVIOUS
      <4> QED BY <1>0, <2>1, <4>1 DEF IInv, ListOK, GetCall, slabVars
    <3>2. GetWalk({})'
      BY <3>1 DEF GetWalk
    <3>3. spc' = "get" /\ {} \in SUBSET live'
      BY <2>1 DEF GetCall
    <3> QED BY <3>2, <3>3 DEF Walks
  <2>2. CASE GetSkip
    <3>1. PICK V \in SUBSET live : GetWalk(V)
      BY <2>2 DEF IInv, Walks, GetSkip
    <3>2. slab # NULL /\ free_objects[slab] = 0 /\ slab' = next[slab] /\ spc' = "get"
      BY <2>2 DEF GetSkip
    <3>3. IsFiniteSet(live \ V)
      BY <1>0, Finite
    <3>4. slab \in live \ V /\ IsChainOf(next, next[slab], (live \ V) \ {slab})
      BY <3>1, <3>2, <3>3, ChainPop DEF GetWalk
    <3>5. PICK W \in SUBSET live : W = V \cup {slab} /\ (live \ V) \ {slab} = live \ W
      <4>1. V \cup {slab} \in SUBSET live
        BY <3>4
      <4>2. (live \ V) \ {slab} = live \ (V \cup {slab})
        OBVIOUS
      <4> QED BY <4>1, <4>2
    <3>6. GetWalk(W)'
      <4>1. IsChainOf(next', slab', live' \ W)
        BY <1>0, <3>2, <3>4, <3>5 DEF slabVars
      <4>2. \A s \in W : free_objects'[s] = 0
        BY <1>0, <3>1, <3>2, <3>5 DEF GetWalk, slabVars
      <4> QED BY <4>1, <4>2 DEF GetWalk
    <3> QED BY <1>0, <3>2, <3>5, <3>6 DEF Walks, slabVars
  <2>3. CASE GetFail \/ FindSkip \/ ReclaimKeep
    BY <2>3 DEF Walks, GetFail, FindSkip, ReclaimKeep, SlabReturn
  <2> QED BY <2>1, <2>2, <2>3
<1> QED BY <1>2, <1>3, <1>4, <1>5, <1>6 DEF IInv

(* slab_free is called.                                                      *)
LEMMA FreeCallIInv ==
  ASSUME IInv, NEW o \in objects, SlabFreeCall(o)
  PROVE  IInv'
<1>0. /\ SlabTypeOK /\ spc = "idle" /\ spc' = "find" /\ slab' = head /\ obj' = o
      /\ objects' = objects \ {o} /\ UNCHANGED slabVars /\ UNCHANGED reclaimVars
  BY DEF IInv, SlabFreeCall
<1>1. \A s \in live : IdleOf(s)' = IdleOf(s)
  BY <1>0 DEF IdleOf
<1>2. ListOK' /\ OwnedLive' /\ FreeOK' /\ CountOK' /\ Full' = Full
  BY <1>0, <1>1, ListsKept
<1>3. SlabTypeOK'
  BY <1>0 DEF SlabTypeOK, slabVars, reclaimVars
<1>4. FewFull' /\ Walks'
  BY <1>0, <1>2 DEF IInv, FewFull, Walks
<1>5. Calls'
  BY <1>0 DEF IInv, SlabTypeOK, OwnedLive, Calls, slabVars, reclaimVars
<1> QED BY <1>2, <1>3, <1>4, <1>5 DEF IInv

(* One slab of the walk that counts the free slabs.                          *)
LEMMA ReclaimStepIInv ==
  ASSUME IInv, ReclaimStep
  PROVE  IInv'
<1>0. /\ SlabTypeOK /\ spc = "reclaim" /\ tmp # NULL /\ prev' = tmp /\ tmp' = next[tmp]
      /\ UNCHANGED <<slabVars, spc, slab, obj, objects>>
      /\ free_objects[tmp] = N =>
           /\ free_target' = tmp /\ free_target_prev' = prev
           /\ fully_free_count' = fully_free_count + 1
      /\ free_objects[tmp] # N => UNCHANGED <<free_target, free_target_prev, fully_free_count>>
  BY DEF IInv, ReclaimStep
<1>1. \A s \in live : IdleOf(s)' = IdleOf(s)
  BY <1>0 DEF IdleOf
<1>2. ListOK' /\ OwnedLive' /\ FreeOK' /\ CountOK' /\ Full' = Full
  BY <1>0, <1>1, ListsKept
<1>3. PICK V \in SUBSET live : ReclaimWalk(V)
  BY <1>0 DEF IInv, Walks
<1>4. tmp \in live \ V /\ IsChainOf(next, next[tmp], (live \ V) \ {tmp})
  <2>1. IsFiniteSet(live \ V)
    BY <1>0, Finite
  <2> QED BY <1>0, <1>3, <2>1, ChainPop DEF ReclaimWalk
<1>5. PICK W \in SUBSET live : W = V \cup {tmp} /\ (live \ V) \ {tmp} = live \ W
  <2>1. V \cup {tmp} \in SUBSET live
    BY <1>4
  <2>2. (live \ V) \ {tmp} = live \ (V \cup {tmp})
    OBVIOUS
  <2> QED BY <2>1, <2>2
<1> DEFINE A == {s \in V : free_objects[s] = N}
           B == {s \in W : free_objects[s] = N}
<1>6. /\ Cardinality(A) \in Nat /\ Cardinality(B) <= Cardinality(Addr)
      /\ Cardinality(B) = Cardinality(A) + (IF free_objects[tmp] = N THEN 1 ELSE 0)
  <2>1. A \in SUBSET live /\ B \in SUBSET live /\ tmp \notin A
    BY <1>4
  <2>2. IsFiniteSet(A) /\ Cardinality(A) \in Nat /\ Cardinality(B) <= Cardinality(Addr)
    BY <1>0, <2>1, Finite
  <2>3. B = IF free_objects[tmp] = N THEN A \cup {tmp} ELSE A
    BY <1>5
  <2> HIDE DEF A, B
  <2>4. Cardinality(A \cup {tmp}) = Cardinality(A) + 1
    BY <2>1, <2>2, FS_AddElement
  <2> QED BY <2>2, <2>3, <2>4
<1>7. fully_free_count' = Cardinality(B) /\ fully_free_count = Cardinality(A)
  <2>1. fully_free_count = Cardinality(A)
    BY <1>3 DEF ReclaimWalk
  <2> HIDE DEF A, B
  <2> QED BY <1>0, <1>6, <2>1
<1>8. SlabTypeOK'
  <2>1. fully_free_count' \in 0 .. Cardinality(Addr)
    <3> HIDE DEF A, B
    <3>1. Cardinality(Addr) \in Nat
      BY <1>0, Finite
    <3> QED BY <1>6, <1>7, <3>1
  <2>2. tmp' \in Addr \cup {NULL} /\ prev' \in Addr \cup {NULL}
    BY <1>0 DEF SlabTypeOK
  <2>3. free_target' \in Addr \cup {NULL} /\ free_target_prev' \in Addr \cup {NULL}
    BY <1>0 DEF SlabTypeOK
  <2> QED BY <1>0, <2>1, <2>2, <2>3 DEF SlabTypeOK, slabVars
<1>9. FewFull' /\ Calls'
  BY <1>0, <1>2 DEF IInv, FewFull, Calls, slabVars
<1>10. Walks'
  <2>1. IsChainOf(next', tmp', live' \ W)
    BY <1>0, <1>4, <1>5 DEF slabVars
  <2>2. W # {} /\ prev' \in W /\ next'[prev'] = tmp'
    BY <1>0, <1>5 DEF slabVars
  <2>3. fully_free_count' = Cardinality({s \in W : free_objects'[s] = N})
    BY <1>0, <1>7 DEF slabVars
  <2>4. fully_free_count' > 0 => free_target' \in W /\ free_objects'[free_target'] = N
    <3>1. CASE free_objects[tmp] = N
      BY <1>0, <1>5, <3>1 DEF slabVars
    <3>2. CASE free_objects[tmp] # N
      BY <1>0, <1>3, <1>5, <3>2 DEF slabVars, ReclaimWalk
    <3> QED BY <3>1, <3>2
  <2>5. fully_free_count' > 1 => free_target_prev' \in W /\ next'[free_target_prev'] = free_target'
    <3>1. CASE free_objects[tmp] = N
      <4> SUFFICES ASSUME fully_free_count' > 1
                   PROVE  free_target_prev' \in W /\ next'[free_target_prev'] = free_target'
        OBVIOUS
      <4>1. fully_free_count > 0
        <5> HIDE DEF A, B
        <5> QED BY <1>0, <1>6, <1>7, <3>1
      <4>2. V # {} /\ prev \in V /\ next[prev] = tmp
        BY <1>3, <4>1 DEF ReclaimWalk
      <4> QED BY <1>0, <1>5, <3>1, <4>2 DEF slabVars
    <3>2. CASE free_objects[tmp] # N
      BY <1>0, <1>3, <1>5, <3>2 DEF slabVars, ReclaimWalk
    <3> QED BY <3>1, <3>2
  <2>6. ReclaimWalk(W)'
    BY <2>1, <2>2, <2>3, <2>4, <2>5 DEF ReclaimWalk
  <2>7. W \in SUBSET live' /\ spc' = "reclaim"
    BY <1>0 DEF slabVars
  <2> QED BY <2>6, <2>7 DEF Walks
<1> QED BY <1>2, <1>8, <1>9, <1>10 DEF IInv

(* A slab is given back: it is behind another one, and nobody owns an object *)
(* of it.                                                                    *)
LEMMA ReclaimFreeIInv ==
  ASSUME IInv, ReclaimFree
  PROVE  IInv'
<1>0. /\ SlabTypeOK /\ spc = "reclaim" /\ tmp = NULL /\ fully_free_count >= 2 /\ spc' = "idle"
      /\ next' = [next EXCEPT ![free_target_prev] = next[free_target]]
      /\ live' = live \ {free_target}
      /\ UNCHANGED <<head, free_list, free_objects, next_free, objects>>
  BY DEF IInv, ReclaimFree, SlabReturn
<1>1. PICK V \in SUBSET live : ReclaimWalk(V)
  BY <1>0 DEF IInv, Walks
<1>2. /\ free_target \in live /\ free_objects[free_target] = N
      /\ free_target_prev \in live /\ next[free_target_prev] = free_target
  BY <1>0, <1>1 DEF ReclaimWalk, SlabTypeOK
<1>3. ListOK'
  <2>1. IsFiniteSet(live) /\ NULL \notin live
    BY <1>0, Finite
  <2>2. /\ next'[free_target_prev] = next[free_target]
        /\ \A x \in live \ {free_target_prev} : next'[x] = next[x]
    BY <1>0, <1>2 DEF SlabTypeOK
  <2>3. IsChainOf(next', head, live \ {free_target})
    BY <1>2, <2>1, <2>2, ChainUnlink DEF IInv, ListOK
  <2> QED BY <1>0, <2>3 DEF ListOK
<1>4. OwnedLive'
  <2> SUFFICES ASSUME NEW o \in objects, o[1] = free_target PROVE FALSE
    BY <1>0 DEF IInv, OwnedLive
  <2>1. free_target \in Addr /\ o \in ObjOf(free_target)
    BY <1>0, <1>2 DEF SlabTypeOK, ObjOf
  <2>2. IdleOf(free_target) \in SUBSET ObjOf(free_target) /\ o \notin IdleOf(free_target)
    BY DEF IdleOf, ObjOf
  <2>3. Cardinality(IdleOf(free_target)) = N
    BY <1>2 DEF IInv, CountOK
  <2>4. IdleOf(free_target) = ObjOf(free_target)
    BY <2>1, <2>2, <2>3, ObjOfCard, FS_Subset
  <2> QED BY <2>1, <2>2, <2>4
<1>5. \A s \in live : IdleOf(s)' = IdleOf(s)
  BY <1>0 DEF IdleOf
<1>6. FreeOK'
  BY <1>0, <1>5 DEF IInv, FreeOK
<1>7. CountOK'
  BY <1>0, <1>5 DEF IInv, CountOK
<1>8. FewFull'
  <2>1. Full' = Full \ {free_target} /\ free_target \in Full /\ Full \in SUBSET live
    BY <1>0, <1>2 DEF Full
  <2>2. IsFiniteSet(Full) /\ Cardinality(Full) \in Nat /\ Cardinality(Full) <= 2
    BY <1>0, <2>1, Finite DEF IInv, FewFull
  <2>3. Cardinality(Full \ {free_target}) = Cardinality(Full) - 1
    BY <2>1, <2>2, FS_RemoveElement
  <2> QED BY <1>0, <2>1, <2>2, <2>3 DEF FewFull
<1>9. SlabTypeOK'
  <2>1. next' \in [Addr -> Addr \cup {NULL}] /\ live' \subseteq Addr
    BY <1>0, <1>2 DEF SlabTypeOK
  <2>2. Cardinality(Addr) \in Nat
    BY <1>0, Finite
  <2> QED BY <1>0, <2>1, <2>2 DEF SlabTypeOK, ReclaimFree, SlabReturn
<1>10. Calls' /\ Walks'
  BY DEF Calls, Walks, ReclaimFree, SlabReturn
<1> QED BY <1>3, <1>4, <1>6, <1>7, <1>8, <1>9, <1>10 DEF IInv

(* An object is handed out: the first one of the free list.                  *)
LEMMA GetTakeIInv ==
  ASSUME IInv, GetTake
  PROVE  IInv'
<1>0. /\ SlabTypeOK /\ spc = "get" /\ slab # NULL /\ free_objects[slab] > 0 /\ spc' = "idle"
      /\ free_list' = [free_list EXCEPT ![slab] = next_free[free_list[slab]]]
      /\ free_objects' = [free_objects EXCEPT ![slab] = free_objects[slab] - 1]
      /\ objects' = objects \cup {free_list[slab]}
      /\ UNCHANGED <<head, next, next_free, live>>
      /\ N \in Nat
  BY SlabAssumption DEF IInv, GetTake, SlabReturn
<1>1. slab \in live
  <2>1. PICK V \in SUBSET live : GetWalk(V)
    BY <1>0 DEF IInv, Walks
  <2>2. IsFiniteSet(live \ V)
    BY <1>0, Finite
  <2>3. slab \in live \ V
    BY <1>0, <2>1, <2>2, ChainPop DEF GetWalk
  <2> QED BY <2>3
<1>2. PICK x : x = free_list[slab]
  OBVIOUS
<1>3. /\ IsFiniteSet(IdleOf(slab)) /\ NULL \notin IdleOf(slab)
      /\ IsChainOf(next_free, x, IdleOf(slab)) /\ free_objects[slab] = Cardinality(IdleOf(slab))
  BY <1>0, <1>1, <1>2, Finite DEF IInv, FreeOK, CountOK
<1>4. x # NULL
  <2> SUFFICES ASSUME x = NULL PROVE FALSE
    OBVIOUS
  <2>1. IdleOf(slab) = {}
    BY <1>3, ChainNull
  <2> QED BY <1>0, <1>3, <2>1, FS_EmptySet
<1>5. /\ x \in IdleOf(slab) /\ IsChainOf(next_free, next_free[x], IdleOf(slab) \ {x})
      /\ Cardinality(IdleOf(slab) \ {x}) = Cardinality(IdleOf(slab)) - 1
  BY <1>3, <1>4, ChainPop, FS_RemoveElement
<1>6. x \in Obj /\ x[1] = slab /\ x \notin objects
  BY <1>5 DEF IdleOf
<1>7. \A s \in live : IdleOf(s)' = IF s = slab THEN IdleOf(s) \ {x} ELSE IdleOf(s)
  BY <1>0, <1>2, <1>6 DEF IdleOf
<1>8. ListOK' /\ OwnedLive'
  BY <1>0, <1>1, <1>2, <1>6 DEF IInv, ListOK, OwnedLive
<1>9. FreeOK'
  <2> SUFFICES ASSUME NEW s \in live PROVE IsChainOf(next_free', free_list'[s], IdleOf(s)')
    BY <1>0 DEF FreeOK
  <2>1. CASE s = slab
    <3>1. free_list'[s] = next_free[x] /\ IdleOf(s)' = IdleOf(slab) \ {x}
      BY <1>0, <1>2, <1>7, <2>1 DEF SlabTypeOK
    <3> QED BY <1>0, <1>5, <3>1
  <2>2. CASE s # slab
    <3>1. free_list'[s] = free_list[s] /\ IdleOf(s)' = IdleOf(s) /\ next_free' = next_free
      BY <1>0, <1>7, <2>2 DEF SlabTypeOK
    <3>2. IsChainOf(next_free, free_list[s], IdleOf(s))
      BY DEF IInv, FreeOK
    <3> QED BY <3>1, <3>2
  <2> QED BY <2>1, <2>2
<1>10. CountOK'
  <2> SUFFICES ASSUME NEW s \in live PROVE free_objects'[s] = Cardinality(IdleOf(s)')
    BY <1>0 DEF CountOK
  <2>1. CASE s = slab
    <3>1. free_objects'[s] = free_objects[slab] - 1 /\ IdleOf(s)' = IdleOf(slab) \ {x}
      BY <1>0, <1>7, <2>1 DEF SlabTypeOK
    <3> QED BY <1>3, <1>5, <3>1
  <2>2. CASE s # slab
    <3>1. free_objects'[s] = free_objects[s] /\ IdleOf(s)' = IdleOf(s)
      BY <1>0, <1>7, <2>2 DEF SlabTypeOK
    <3> QED BY <3>1 DEF IInv, CountOK
  <2> QED BY <2>1, <2>2
<1>11. FewFull'
  <2>1. Full' \in SUBSET Full /\ Full \in SUBSET live
    <3>1. \A s \in live : free_objects'[s] = IF s = slab THEN free_objects[slab] - 1 ELSE free_objects[s]
      BY <1>0 DEF SlabTypeOK
    <3>2. free_objects[slab] \in 0 .. N
      BY <1>0, <1>1 DEF SlabTypeOK
    <3> QED BY <1>0, <3>1, <3>2 DEF Full
  <2>2. IsFiniteSet(Full) /\ Cardinality(Full) \in Nat /\ Cardinality(Full) <= 1
    BY <1>0, <2>1, Finite DEF IInv, FewFull
  <2>3. Cardinality(Full') <= Cardinality(Full) /\ Cardinality(Full') \in Nat
    BY <2>1, <2>2, FS_Subset, FS_CardinalityType
  <2> QED BY <1>0, <2>2, <2>3 DEF FewFull
<1>12. SlabTypeOK'
  <2>1. free_list' \in [Addr -> Obj \cup {NULL}] /\ objects' \subseteq Obj
    BY <1>0, <1>2, <1>6 DEF SlabTypeOK
  <2>2. free_objects' \in [Addr -> 0 .. N]
    BY <1>0, <1>1 DEF SlabTypeOK
  <2>3. Cardinality(Addr) \in Nat
    BY <1>0, Finite
  <2> QED BY <1>0, <2>1, <2>2, <2>3 DEF SlabTypeOK, GetTake, SlabReturn
<1>13. Calls' /\ Walks'
  BY DEF Calls, Walks, GetTake, SlabReturn
<1> QED BY <1>8, <1>9, <1>10, <1>11, <1>12, <1>13 DEF IInv

(* An object comes back: it becomes the first one of its slab's free list.   *)
LEMMA FindTakeIInv ==
  ASSUME IInv, FindTake
  PROVE  IInv'
<1>0. /\ SlabTypeOK /\ spc = "find" /\ slab # NULL /\ obj[1] = slab /\ spc' = "reclaim" /\ tmp' = head
      /\ next_free' = [next_free EXCEPT ![obj] = free_list[slab]]
      /\ free_list' = [free_list EXCEPT ![slab] = obj]
      /\ free_objects' = [free_objects EXCEPT ![slab] = free_objects[slab] + 1]
      /\ UNCHANGED <<head, next, live, slab, obj, prev, free_target,
                     free_target_prev, fully_free_count, objects>>
      /\ N \in Nat
  BY SlabAssumption DEF IInv, FindTake
<1>1. obj \in Obj /\ obj \notin objects /\ slab \in live /\ slab \in Addr /\ obj # NULL
  BY <1>0, SlabAssumption DEF IInv, Calls, SlabTypeOK
<1>2. \A s \in live : obj \notin IdleOf(s) /\ IdleOf(s)' = IF s = slab THEN IdleOf(s) \cup {obj} ELSE IdleOf(s)
  BY <1>0, <1>1 DEF IdleOf
<1>3. \A s \in live : /\ IsFiniteSet(IdleOf(s)) /\ IsChainOf(next_free, free_list[s], IdleOf(s))
                     /\ free_objects[s] = Cardinality(IdleOf(s))
  BY <1>0, Finite DEF IInv, FreeOK, CountOK
<1>4. next_free'[obj] = free_list[slab] /\ \A o \in Obj \ {obj} : next_free'[o] = next_free[o]
  BY <1>0, <1>1 DEF SlabTypeOK
<1>5. ListOK' /\ OwnedLive'
  BY <1>0 DEF IInv, ListOK, OwnedLive
<1>6. FreeOK'
  <2> SUFFICES ASSUME NEW s \in live PROVE IsChainOf(next_free', free_list'[s], IdleOf(s)')
    BY <1>0 DEF FreeOK
  <2>1. obj \notin IdleOf(s) /\ \A o \in IdleOf(s) : next_free'[o] = next_free[o]
    <3>1. IdleOf(s) \subseteq Obj
      BY DEF IdleOf
    <3> QED BY <1>2, <1>4, <3>1
  <2>2. CASE s = slab
    <3>1. free_list'[s] = obj /\ IdleOf(s)' = IdleOf(s) \cup {obj} /\ next_free'[obj] = free_list[s]
      BY <1>0, <1>2, <1>4, <2>2 DEF SlabTypeOK
    <3>2. IsChainOf(next_free', obj, IdleOf(s) \cup {obj})
      BY <1>1, <1>3, <2>1, <3>1, ChainPush
    <3> QED BY <3>1, <3>2
  <2>3. CASE s # slab
    <3>1. free_list'[s] = free_list[s] /\ IdleOf(s)' = IdleOf(s)
      BY <1>0, <1>2, <2>3 DEF SlabTypeOK
    <3>2. IsChainOf(next_free', free_list[s], IdleOf(s))
      BY <1>3, <2>1, ChainFrame
    <3> QED BY <3>1, <3>2
  <2> QED BY <2>2, <2>3
<1>7. CountOK'
  <2> SUFFICES ASSUME NEW s \in live PROVE free_objects'[s] = Cardinality(IdleOf(s)')
    BY <1>0 DEF CountOK
  <2>1. CASE s = slab
    <3>1. free_objects'[s] = free_objects[s] + 1 /\ IdleOf(s)' = IdleOf(s) \cup {obj}
      BY <1>0, <1>2, <2>1 DEF SlabTypeOK
    <3>2. Cardinality(IdleOf(s) \cup {obj}) = Cardinality(IdleOf(s)) + 1
      BY <1>2, <1>3, FS_AddElement
    <3> QED BY <1>3, <3>1, <3>2
  <2>2. CASE s # slab
    <3>1. free_objects'[s] = free_objects[s] /\ IdleOf(s)' = IdleOf(s)
      BY <1>0, <1>2, <2>2 DEF SlabTypeOK
    <3> QED BY <1>3, <3>1
  <2> QED BY <2>1, <2>2
<1>8. free_objects'[slab] \in 0 .. N
  <2>1. IdleOf(slab)' \in SUBSET ObjOf(slab)
    BY <1>0, <1>1, <1>2 DEF IdleOf, ObjOf
  <2>2. IsFiniteSet(IdleOf(slab)') /\ Cardinality(IdleOf(slab)') <= N
    BY <1>1, <2>1, ObjOfCard, FS_Subset
  <2>3. Cardinality(IdleOf(slab)') \in Nat
    BY <2>2, FS_CardinalityType
  <2> QED BY <1>0, <1>1, <1>7, <2>2, <2>3 DEF CountOK
<1>9. SlabTypeOK'
  <2>1. free_list' \in [Addr -> Obj \cup {NULL}] /\ next_free' \in [Obj -> Obj \cup {NULL}]
    BY <1>0, <1>1 DEF SlabTypeOK
  <2>2. free_objects' \in [Addr -> 0 .. N]
    BY <1>0, <1>1, <1>8 DEF SlabTypeOK
  <2> QED BY <1>0, <2>1, <2>2 DEF SlabTypeOK
<1>10. FewFull'
  <2>1. Full' \in SUBSET (Full \cup {slab}) /\ Full \in SUBSET live
    BY <1>0 DEF Full, SlabTypeOK
  <2>2. IsFiniteSet(Full) /\ Cardinality(Full) \in Nat /\ Cardinality(Full) <= 1
    BY <1>0, <2>1, Finite DEF IInv, FewFull
  <2>3. IsFiniteSet(Full \cup {slab}) /\ Cardinality(Full \cup {slab}) <= 2
    BY <2>2, FS_AddElement
  <2>4. /\ Cardinality(Full') <= Cardinality(Full \cup {slab}) /\ Cardinality(Full') \in Nat
        /\ Cardinality(Full \cup {slab}) \in Nat
    BY <2>1, <2>3, FS_Subset, FS_CardinalityType
  <2> QED BY <1>0, <2>3, <2>4 DEF FewFull
<1>11. Calls'
  BY <1>0 DEF Calls
<1>12. Walks'
  <2>1. prev = NULL /\ fully_free_count = 0
    BY <1>0 DEF IInv, Calls
  <2>2. IsChainOf(next', tmp', live' \ {})
    <3>1. live \ {} = live
      OBVIOUS
    <3> QED BY <1>0, <3>1 DEF IInv, ListOK
  <2>3. {s \in {} : free_objects'[s] = N} = {} /\ Cardinality({}) = 0
    BY FS_EmptySet
  <2>4. ReclaimWalk({})'
    BY <1>0, <2>1, <2>2, <2>3 DEF ReclaimWalk
  <2> QED BY <1>0, <2>4 DEF Walks
<1> QED BY <1>5, <1>6, <1>7, <1>9, <1>10, <1>11, <1>12 DEF IInv

(* A new slab, of which taken objects are used at once.                      *)
LEMMA AllocNewIInv ==
  ASSUME IInv, NEW s \in Addr, NEW taken \in {0, 1}, AllocNew(s, taken), SlabReturn,
         spc \in {"boot", "get"}, taken = 0 => spc = "boot",
         objects' = objects \cup (IF taken = 0 THEN {} ELSE {<<s, 1>>})
  PROVE  IInv'
<1>0. /\ SlabTypeOK /\ s \notin live /\ live' = live \cup {s} /\ head' = s
      /\ next' = [next EXCEPT ![s] = head] /\ next_free' = FreshNodes(s)
      /\ free_list' = [free_list EXCEPT ![s] = IF taken = 0 THEN <<s, 1>> ELSE FreshNodes(s)[<<s, 1>>]]
      /\ free_objects' = [free_objects EXCEPT ![s] = N - taken]
      /\ spc # "find" /\ spc' = "idle" /\ N \in Nat /\ N > 0 /\ NULL \notin Addr /\ spc # "reclaim"
  BY SlabAssumption DEF IInv, AllocNew, SlabReturn
<1> DEFINE used == IF taken = 0 THEN {} ELSE {<<s, 1>>}
<1>1. <<s, 1>> \in Obj /\ <<s, 1>> \in ObjOf(s)
  BY <1>0 DEF Obj, ObjOf
<1>2. /\ IdleOf(s)' = ObjOf(s) \ used
      /\ \A r \in live : IdleOf(r)' = IdleOf(r)
  <2>1. \A o \in objects : o[1] # s
    BY <1>0 DEF IInv, OwnedLive
  <2> QED BY <1>0, <2>1 DEF IdleOf, ObjOf
<1>3. ListOK'
  <2>1. IsFiniteSet(live) /\ s # NULL
    BY <1>0, Finite
  <2>2. next'[s] = head /\ \A r \in live : next'[r] = next[r]
    BY <1>0 DEF SlabTypeOK
  <2>3. IsChainOf(next', s, live \cup {s})
    BY <1>0, <2>1, <2>2, ChainPush DEF IInv, ListOK
  <2> QED BY <1>0, <2>3 DEF ListOK
<1>4. OwnedLive'
  BY <1>0 DEF IInv, OwnedLive
<1>5. FreeOK'
  <2>1. ASSUME NEW r \in live PROVE IsChainOf(next_free', free_list'[r], IdleOf(r)')
    <3>1. \A o \in IdleOf(r) : next_free'[o] = next_free[o]
      BY <1>0 DEF FreshNodes, IdleOf
    <3>2. free_list'[r] = free_list[r] /\ IdleOf(r)' = IdleOf(r)
      BY <1>0, <1>2 DEF SlabTypeOK
    <3>3. IsChainOf(next_free, free_list[r], IdleOf(r))
      BY DEF IInv, FreeOK
    <3>4. IsChainOf(next_free', free_list[r], IdleOf(r))
      BY <3>1, <3>3, ChainFrame
    <3> QED BY <3>2, <3>4
  <2>2. IsChainOf(next_free', free_list'[s], IdleOf(s)')
    <3>1. free_list'[s] = IF taken = 0 THEN <<s, 1>> ELSE FreshNodes(s)[<<s, 1>>]
      BY <1>0 DEF SlabTypeOK
    <3>2. CASE taken = 0
      <4>1. IdleOf(s)' = ObjOf(s)
        BY <1>2, <3>2
      <4> QED BY <1>0, <3>1, <3>2, <4>1, FreshChain
    <3>3. CASE taken = 1
      <4>1. IdleOf(s)' = ObjOf(s) \ {<<s, 1>>}
        BY <1>2, <3>3
      <4>2. free_list'[s] = FreshNodes(s)[<<s, 1>>]
        BY <3>1, <3>3
      <4> QED BY <1>0, <4>1, <4>2, FreshChain
    <3> QED BY <3>2, <3>3
  <2> QED BY <1>0, <2>1, <2>2 DEF FreeOK
<1>6. CountOK'
  <2>1. ASSUME NEW r \in live PROVE free_objects'[r] = Cardinality(IdleOf(r)')
    BY <1>0, <1>2 DEF IInv, CountOK, SlabTypeOK
  <2>2. free_objects'[s] = Cardinality(IdleOf(s)')
    <3>1. free_objects'[s] = N - taken
      BY <1>0 DEF SlabTypeOK
    <3>2. IsFiniteSet(ObjOf(s)) /\ Cardinality(ObjOf(s)) = N
      BY ObjOfCard
    <3>3. CASE taken = 0
      BY <1>0, <1>2, <3>1, <3>2, <3>3
    <3>4. CASE taken = 1
      <4>1. IdleOf(s)' = ObjOf(s) \ {<<s, 1>>}
        BY <1>2, <3>4
      <4>2. Cardinality(ObjOf(s) \ {<<s, 1>>}) = N - 1
        BY <1>1, <3>2, FS_RemoveElement
      <4> QED BY <3>1, <3>4, <4>1, <4>2
    <3> QED BY <3>3, <3>4
  <2> QED BY <1>0, <2>1, <2>2 DEF CountOK
<1>7. FewFull'
  <2>1. /\ free_objects'[s] = N - taken
        /\ \A r \in live : free_objects'[r] = free_objects[r]
    BY <1>0 DEF SlabTypeOK
  <2>2. CASE taken = 1
    <3>1. N - 1 # N
      BY <1>0
    <3>2. Full' = Full
      BY <1>0, <2>1, <2>2, <3>1 DEF Full
    <3> QED BY <1>0, <3>2 DEF IInv, FewFull
  <2>3. CASE taken = 0
    <3>1. Full' = {s}
      <4>1. live = {}
        BY <2>3 DEF IInv, Calls
      <4> QED BY <1>0, <2>1, <2>3, <4>1 DEF Full
    <3> QED BY <1>0, <3>1, FS_Singleton DEF FewFull
  <2> QED BY <2>2, <2>3
<1>8. SlabTypeOK'
  <2>1. next' \in [Addr -> Addr \cup {NULL}] /\ live' \subseteq Addr /\ head' \in Addr
    BY <1>0 DEF SlabTypeOK
  <2>2. FreshNodes(s) \in [Obj -> Obj \cup {NULL}]
    <3>1. \A o \in Obj : o[1] = s /\ o[2] < N => <<s, o[2] + 1>> \in Obj
      BY <1>0 DEF Obj
    <3> QED BY <1>0, <3>1 DEF FreshNodes, SlabTypeOK
  <2>3. free_list' \in [Addr -> Obj \cup {NULL}]
    <3>1. FreshNodes(s)[<<s, 1>>] \in Obj \cup {NULL}
      BY <1>1, <2>2
    <3> QED BY <1>0, <1>1, <3>1 DEF SlabTypeOK
  <2>4. free_objects' \in [Addr -> 0 .. N]
    BY <1>0 DEF SlabTypeOK
  <2>5. objects' \subseteq Obj
    BY <1>0, <1>1 DEF SlabTypeOK
  <2>6. Cardinality(Addr) \in Nat
    BY <1>0, Finite
  <2> QED BY <1>0, <2>1, <2>2, <2>3, <2>4, <2>5, <2>6 DEF SlabTypeOK, SlabReturn
<1>9. Calls' /\ Walks'
  BY DEF Calls, Walks, SlabReturn
<1> QED BY <1>3, <1>4, <1>5, <1>6, <1>7, <1>8, <1>9 DEF IInv

(* k_slab_init, with or without a slab.                                      *)
LEMMA SlabInitIInv ==
  ASSUME IInv, SlabInit
  PROVE  IInv'
<1>0. spc = "boot" /\ SlabReturn /\ objects' = objects /\ SlabTypeOK
  BY DEF IInv, SlabInit
<1>1. ASSUME NEW s \in Addr, AllocNew(s, 0) PROVE IInv'
  BY <1>0, <1>1, AllocNewIInv
<1>2. CASE UNCHANGED slabVars
  <2>1. \A s \in live : IdleOf(s)' = IdleOf(s)
    BY <1>0 DEF IdleOf, SlabReturn
  <2>2. ListOK' /\ OwnedLive' /\ FreeOK' /\ CountOK' /\ Full' = Full
    BY <1>0, <1>2, <2>1, ListsKept
  <2>3. SlabTypeOK'
    <3>1. Cardinality(Addr) \in Nat
      BY <1>0, Finite
    <3> QED BY <1>0, <1>2, <3>1 DEF SlabTypeOK, SlabReturn, slabVars
  <2>4. FewFull' /\ Calls' /\ Walks'
    BY <1>0, <2>2 DEF IInv, FewFull, Calls, Walks, SlabReturn
  <2> QED BY <2>2, <2>3, <2>4 DEF IInv
<1> QED BY <1>1, <1>2 DEF SlabInit

(* A call of slab_get that needs a new slab keeps it.                        *)
LEMMA GetGrowIInv ==
  ASSUME IInv, NEW s \in Addr, GetGrow(s)
  PROVE  IInv'
BY AllocNewIInv DEF GetGrow

(* Every step of the allocator keeps it.                                     *)
LEMMA StepIInv ==
  ASSUME IInv, [SlabNext]_svars
  PROVE  IInv'
<1>1. CASE UNCHANGED svars
  <2>1. UNCHANGED <<slabVars, spc, slab, obj, tmp, prev, free_target, free_target_prev,
                    fully_free_count, objects>>
    BY <1>1 DEF svars, reclaimVars
  <2>2. \A s \in live : IdleOf(s)' = IdleOf(s)
    BY <2>1 DEF IdleOf
  <2>3. ListOK' /\ OwnedLive' /\ FreeOK' /\ CountOK' /\ Full' = Full
    BY <2>1, <2>2, ListsKept
  <2>4. SlabTypeOK' /\ FewFull' /\ Calls'
    BY <2>1, <2>3 DEF IInv, SlabTypeOK, FewFull, Calls, slabVars
  <2>5. Walks'
    BY <2>1 DEF IInv, Walks, GetWalk, ReclaimWalk, slabVars
  <2> QED BY <2>3, <2>4, <2>5 DEF IInv
<1>2. CASE GetNull
  BY <1>1, <1>2 DEF GetNull
<1>3. CASE GetCall \/ GetSkip \/ GetFail \/ FindSkip \/ ReclaimKeep
  BY <1>3, WalkIInv
<1>4. CASE \E o \in objects : SlabFreeCall(o)
  BY <1>4, FreeCallIInv
<1>5. CASE SlabInit
  BY <1>5, SlabInitIInv
<1>6. CASE \E s \in Addr : GetGrow(s)
  BY <1>6, GetGrowIInv
<1>7. CASE GetTake
  BY <1>7, GetTakeIInv
<1>8. CASE FindTake
  BY <1>8, FindTakeIInv
<1>9. CASE ReclaimStep
  BY <1>9, ReclaimStepIInv
<1>10. CASE ReclaimFree
  BY <1>10, ReclaimFreeIInv
<1> QED BY <1>1, <1>2, <1>3, <1>4, <1>5, <1>6, <1>7, <1>8, <1>9, <1>10 DEF SlabNext, SlabStep

-----------------------------------------------------------------------------
(* The inductive invariant of the slab allocator holds throughout.           *)
THEOREM Invariance == SlabSpec => []IInv
BY InitIInv, StepIInv, PTL DEF SlabSpec

(* slab_get, slab_free and k_slab_init keep every field and every local of   *)
(* theirs in its range; fully_free_count never exceeds the number of slabs.  *)
THEOREM TypeCorrect == SlabSpec => []SlabTypeOK
<1>1. IInv => SlabTypeOK
  BY DEF IInv
<1> QED BY <1>1, Invariance, PTL

(* For any number of slabs: after slab_alloc_new and after slab_free has     *)
(* unlinked one, the list holds exactly the slabs of the heap, nobody owns   *)
(* an object of a slab given back, and one empty slab at most is kept.       *)
THEOREM SlabListAlwaysExact == SlabSpec => []SlabListExact
<1>1. IInv => SlabListExact
  BY DEF IInv, ListOK, OwnedLive, FewFull, Full, SlabListExact
<1> QED BY <1>1, Invariance, PTL

(* For any number of objects per slab: slab_get takes from, and slab_free    *)
(* puts back to, a free list that is the set of objects nobody owns.         *)
THEOREM FreeListsAlwaysExact == SlabSpec => []FreeListsExact
<1>1. IInv => FreeListsExact
  BY DEF IInv, FreeOK, CountOK, IdleOf, FreeListsExact
<1> QED BY <1>1, Invariance, PTL

(* slab_get asks the heap for a slab only when its walk has shown that no    *)
(* slab of the list has an object left.                                      *)
THEOREM AlwaysGrowsOnlyWhenFull == SlabSpec => GrowsOnlyWhenFull
<1>1. ASSUME IInv, [SlabNext]_svars, spc = "get", live' # live
      PROVE  \A s \in live : free_objects[s] = 0
  <2>1. slab = NULL
    BY <1>1 DEF SlabNext, SlabStep, svars, GetNull, GetCall, SlabInit, GetSkip, GetTake, GetGrow, GetFail,
                FindSkip, FindTake, ReclaimStep, ReclaimFree, ReclaimKeep, SlabFreeCall, slabVars
  <2>2. PICK V \in SUBSET live : GetWalk(V)
    BY <1>1 DEF IInv, Walks
  <2>3. IsFiniteSet(live \ V) /\ NULL \notin live \ V /\ IsChainOf(next, NULL, live \ V)
    BY <1>1, <2>1, <2>2, Finite DEF IInv, GetWalk
  <2>4. live \ V = {}
    BY <2>3, ChainNull
  <2> QED BY <2>2, <2>4 DEF GetWalk
<1>2. ASSUME IInv, [SlabNext]_svars
      PROVE  [spc = "get" /\ live' # live => \A s \in live : free_objects[s] = 0]_svars
  BY <1>1, <1>2
<1> QED BY <1>2, Invariance, PTL DEF SlabSpec, GrowsOnlyWhenFull
=============================================================================
