-------------------------------- MODULE Slab --------------------------------
(* The slab allocator (kernel/slab_allocator.c, kernel/slab_def.s) for one   *)
(* kind of object: a list of slabs, each with a free list through its        *)
(* objects.  The loops of slab_get and slab_free are modelled step by step;  *)
(* the slabs come from kmalloc, which may fail.                              *)
EXTENDS Integers, FiniteSets

CONSTANTS Addr,    \* the addresses kmalloc may return for a slab
          N,       \* objects per slab (5)
          NULL

Obj == Addr \X (1..N)

ASSUME SlabAssumption ==
  N \in Nat \ {0} /\ IsFiniteSet(Addr) /\ NULL \notin Addr /\ NULL \notin Obj

VARIABLES head,                                     \* *head
          next, free_list, free_objects,            \* slab_header_t
          next_free,                                \* slab_node_t
          live,                                     \* blocks kmalloc has handed out
          spc, slab, obj,                           \* the call in progress
          tmp, prev, free_target, free_target_prev, fully_free_count,
          objects                                   \* history: the objects handed out

reclaimVars == <<tmp, prev, free_target, free_target_prev, fully_free_count>>
slabVars    == <<head, next, free_list, free_objects, next_free, live>>
svars       == <<slabVars, spc, slab, obj, reclaimVars, objects>>

InitSlabs ==
  /\ head = NULL /\ live = {} /\ objects = {}
  /\ next = [s \in Addr |-> NULL]
  /\ free_list = [s \in Addr |-> NULL]
  /\ free_objects = [s \in Addr |-> 0]
  /\ next_free = [o \in Obj |-> NULL]
  /\ spc = "boot" /\ slab = NULL /\ obj = NULL
  /\ tmp = NULL /\ prev = NULL /\ free_target = NULL /\ free_target_prev = NULL
  /\ fully_free_count = 0

-----------------------------------------------------------------------------
(* The free list of a new slab: every object points to its successor.       *)
FreshNodes(s) ==
  [o \in Obj |-> IF o[1] # s THEN next_free[o]
                 ELSE IF o[2] < N THEN <<s, o[2] + 1>> ELSE NULL]

(* slab_alloc_new at address s, of which `taken` objects are used at once   *)
(* (one when slab_get grows the list).                                      *)
AllocNew(s, taken) ==
  /\ s \notin live
  /\ live' = live \cup {s}
  /\ next' = [next EXCEPT ![s] = head]
  /\ head' = s
  /\ next_free' = FreshNodes(s)
  /\ free_list' = [free_list EXCEPT ![s] = IF taken = 0 THEN <<s, 1>> ELSE FreshNodes(s)[<<s, 1>>]]
  /\ free_objects' = [free_objects EXCEPT ![s] = N - taken]

SlabReturn ==
  /\ spc' = "idle" /\ slab' = NULL /\ obj' = NULL
  /\ tmp' = NULL /\ prev' = NULL /\ free_target' = NULL /\ free_target_prev' = NULL
  /\ fully_free_count' = 0

(* k_slab_init: the first slab, or none when kmalloc fails.                 *)
SlabInit ==
  /\ spc = "boot"
  /\ \/ \E s \in Addr : AllocNew(s, 0)
     \/ UNCHANGED slabVars
  /\ SlabReturn
  /\ UNCHANGED objects

-----------------------------------------------------------------------------
(* slab_get without any slab returns NULL at once.                          *)
GetNull == spc = "idle" /\ head = NULL /\ UNCHANGED svars

GetCall ==
  /\ spc = "idle" /\ head # NULL
  /\ spc' = "get" /\ slab' = head
  /\ UNCHANGED <<slabVars, obj, reclaimVars, objects>>

(* Mutant: slab_get looks at the first slab only.                           *)
GetSkipAll ==
  /\ spc = "get" /\ slab # NULL /\ free_objects[slab] = 0
  /\ slab' = NULL
  /\ UNCHANGED <<slabVars, spc, obj, reclaimVars, objects>>

GetSkip ==
  /\ spc = "get" /\ slab # NULL /\ free_objects[slab] = 0
  /\ slab' = next[slab]
  /\ UNCHANGED <<slabVars, spc, obj, reclaimVars, objects>>

GetTake ==
  /\ spc = "get" /\ slab # NULL /\ free_objects[slab] > 0
  /\ free_list' = [free_list EXCEPT ![slab] = next_free[free_list[slab]]]
  /\ free_objects' = [free_objects EXCEPT ![slab] = @ - 1]
  /\ objects' = objects \cup {free_list[slab]}
  /\ SlabReturn
  /\ UNCHANGED <<head, next, next_free, live>>

GetGrow(s) ==
  /\ spc = "get" /\ slab = NULL
  /\ AllocNew(s, 1)
  /\ objects' = objects \cup {<<s, 1>>}
  /\ SlabReturn

GetFail ==
  /\ spc = "get" /\ slab = NULL
  /\ SlabReturn
  /\ UNCHANGED <<slabVars, objects>>

-----------------------------------------------------------------------------
(* slab_free, called by the owner of the object.                            *)
SlabFreeCall(o) ==
  /\ spc = "idle"
  /\ spc' = "find" /\ slab' = head /\ obj' = o
  /\ objects' = objects \ {o}
  /\ UNCHANGED <<slabVars, reclaimVars>>

FindSkip ==
  /\ spc = "find" /\ slab # NULL /\ obj[1] # slab
  /\ slab' = next[slab]
  /\ UNCHANGED <<slabVars, spc, obj, reclaimVars, objects>>

(* Mutant: the object becomes the head without a link to the others.        *)
FindTakeNoLink ==
  /\ spc = "find" /\ slab # NULL /\ obj[1] = slab
  /\ free_list' = [free_list EXCEPT ![slab] = obj]
  /\ free_objects' = [free_objects EXCEPT ![slab] = @ + 1]
  /\ spc' = "reclaim" /\ tmp' = head
  /\ UNCHANGED <<head, next, next_free, live, slab, obj, prev, free_target,
                 free_target_prev, fully_free_count, objects>>

(* The object goes to the front of its slab's free list.                    *)
FindTake ==
  /\ spc = "find" /\ slab # NULL /\ obj[1] = slab
  /\ next_free' = [next_free EXCEPT ![obj] = free_list[slab]]
  /\ free_list' = [free_list EXCEPT ![slab] = obj]
  /\ free_objects' = [free_objects EXCEPT ![slab] = @ + 1]
  /\ spc' = "reclaim" /\ tmp' = head
  /\ UNCHANGED <<head, next, live, slab, obj, prev, free_target,
                 free_target_prev, fully_free_count, objects>>

(* The walk that counts the slabs without a used object and remembers the   *)
(* last one.                                                                *)
ReclaimStep ==
  /\ spc = "reclaim" /\ tmp # NULL
  /\ IF free_objects[tmp] = N
     THEN /\ free_target' = tmp /\ free_target_prev' = prev
          /\ fully_free_count' = fully_free_count + 1
     ELSE UNCHANGED <<free_target, free_target_prev, fully_free_count>>
  /\ prev' = tmp /\ tmp' = next[tmp]
  /\ UNCHANGED <<slabVars, spc, slab, obj, objects>>

(* Mutant: the slab the object came from is freed instead of free_target.   *)
ReclaimFreeOwn ==
  /\ spc = "reclaim" /\ tmp = NULL /\ fully_free_count >= 2
  /\ next' = [next EXCEPT ![free_target_prev] = next[free_target]]
  /\ live' = live \ {slab}
  /\ SlabReturn
  /\ UNCHANGED <<head, free_list, free_objects, next_free, objects>>

(* Two or more: the last one is unlinked and given back to the heap.        *)
ReclaimFree ==
  /\ spc = "reclaim" /\ tmp = NULL /\ fully_free_count >= 2
  /\ next' = [next EXCEPT ![free_target_prev] = next[free_target]]
  /\ live' = live \ {free_target}
  /\ SlabReturn
  /\ UNCHANGED <<head, free_list, free_objects, next_free, objects>>

ReclaimKeep ==
  /\ spc = "reclaim" /\ tmp = NULL /\ fully_free_count < 2
  /\ SlabReturn
  /\ UNCHANGED <<slabVars, objects>>

-----------------------------------------------------------------------------
SlabStep ==
  \/ SlabInit \/ GetSkip \/ GetTake \/ \E s \in Addr : GetGrow(s)
  \/ GetFail \/ FindSkip \/ FindTake
  \/ ReclaimStep \/ ReclaimFree \/ ReclaimKeep

SlabNext == GetNull \/ GetCall \/ SlabStep \/ \E o \in objects : SlabFreeCall(o)

SlabSpec == InitSlabs /\ [][SlabNext]_svars

-----------------------------------------------------------------------------
(* The values of the slab structures and of the calls' locals.              *)
SlabTypeOK ==
  /\ head \in Addr \cup {NULL} /\ live \subseteq Addr /\ objects \subseteq Obj
  /\ next \in [Addr -> Addr \cup {NULL}]
  /\ free_list \in [Addr -> Obj \cup {NULL}]
  /\ free_objects \in [Addr -> 0..N]
  /\ next_free \in [Obj -> Obj \cup {NULL}]
  /\ spc \in {"boot", "idle", "get", "find", "reclaim"}
  /\ slab \in Addr \cup {NULL} /\ obj \in Obj \cup {NULL}
  /\ tmp \in Addr \cup {NULL} /\ prev \in Addr \cup {NULL}
  /\ free_target \in Addr \cup {NULL} /\ free_target_prev \in Addr \cup {NULL}
  /\ fully_free_count \in 0 .. Cardinality(Addr)

(* The null-terminated chain of f from p runs once through every element of *)
(* S and through nothing else: c[k] is the pointer reached after k links.   *)
IsChainOf(f, p, S) ==
  LET n == Cardinality(S)
  IN  \E c \in [0 .. n -> S \cup {NULL}] :
        /\ c[0] = p /\ c[n] = NULL
        /\ \A k \in 0 .. n - 1 : c[k] \in S /\ f[c[k]] = c[k + 1]
        /\ \A j, k \in 0 .. n - 1 : c[j] = c[k] => j = k
        /\ \A x \in S : \E k \in 0 .. n - 1 : c[k] = x

(* The slab list holds exactly the slabs that are allocated: none is leaked *)
(* and none is reachable after it was given back; no object in use lies in  *)
(* one that was; and between calls at most one is kept without a used       *)
(* object ("if 2 or more slabs fully free, free one").                      *)
SlabListExact ==
  /\ spc # "boot" => IsChainOf(next, head, live)
  /\ \A o \in objects : o[1] \in live
  /\ spc = "idle" => Cardinality({s \in live : free_objects[s] = N}) <= 1

(* An object is on its slab's free list exactly when nobody owns it, and    *)
(* the free count is the length of that list.                               *)
FreeListsExact ==
  \A s \in live :
    LET idle == {o \in Obj : o[1] = s /\ o \notin objects /\ (spc = "find" => o # obj)}
    IN  IsChainOf(next_free, free_list[s], idle) /\ free_objects[s] = Cardinality(idle)

(* A new slab is allocated only when no slab has a free object.             *)
GrowsOnlyWhenFull ==
  [][spc = "get" /\ live' # live => \A s \in live : free_objects[s] = 0]_svars

=============================================================================
