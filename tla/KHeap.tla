------------------------------- MODULE KHeap -------------------------------
(* The kernel heap (kernel/memory/kmem.c) in units of 4-byte words.  A block *)
(* is a header word (payload size and used flag) followed by its payload;    *)
(* the next header follows the payload.  The loops of kmalloc and kfree are  *)
(* modelled turn by turn.                                                    *)
EXTENDS Integers

CONSTANTS HeapWords,  \* (kernel_heap_end - kernel_heap_start) / 4
          MaxRequest, \* bound on the words asked for in one call
          Null,       \* the NULL pointer
          Junk        \* a word whose value the heap does not control

ASSUME HeapAssumption == HeapWords \in Nat \ {0} /\ MaxRequest \in Nat
ASSUME NullAssumption == Null \notin Int

VARIABLES mem,    \* the words of the heap: headers, or Junk
          pc,     \* "idle", "malloc" or "free": the call being executed
          n,      \* kmalloc's size, in words after ALIGN4
          cur,    \* the loops' current header
          ret,    \* what the latest kmalloc returned (its header's address)
          hdrs,   \* history: the addresses that are headers now
          owned,  \* history: header addresses of the blocks handed out
          want    \* history: the words asked for, of each block handed out

vars == <<mem, pc, n, cur, ret, hdrs, owned, want>>

Words   == 0..HeapWords-1
Headers == [size : 0..HeapWords, used : BOOLEAN]

NextOf(a) == a + 1 + mem[a].size

(* kheap_init: one free block over the whole heap.                          *)
Init ==
  /\ mem = [w \in Words |-> IF w = 0 THEN [size |-> HeapWords - 1, used |-> FALSE] ELSE Junk]
  /\ pc = "idle" /\ n = 0 /\ cur = 0 /\ ret = Null
  /\ hdrs = {0} /\ owned = {} /\ want = [w \in Words |-> 0]

-----------------------------------------------------------------------------
(* kmalloc(size), size rounded up to k words by ALIGN4.                     *)
MallocCall(k) ==
  /\ pc = "idle"
  /\ pc' = "malloc" /\ n' = k /\ cur' = 0
  /\ UNCHANGED <<mem, ret, hdrs, owned, want>>

(* Mutant: a block of exactly the size asked for is not taken.              *)
FitsStrictly(a) == ~mem[a].used /\ mem[a].size > n

(* Mutant: the used flag is not looked at.                                  *)
FitsBySize(a) == mem[a].size >= n

Fits(a) == ~mem[a].used /\ mem[a].size >= n

MallocSkip ==
  /\ pc = "malloc" /\ cur < HeapWords
  /\ ~Fits(cur)
  /\ cur' = NextOf(cur)
  /\ UNCHANGED <<mem, pc, n, ret, hdrs, owned, want>>

(* Room for another header and one payload word after the n words.          *)
CanSplit(a) == mem[a].size >= n + 2

(* The heap after block a is taken: its payload now belongs to the client,  *)
(* and the rest of a larger block gets a header of its own.                 *)
TakenMem(a) ==
  LET len == IF CanSplit(a) THEN n ELSE mem[a].size IN
  [w \in Words |->
     IF w = a THEN [size |-> len, used |-> TRUE]
     ELSE IF w \in a+1 .. a+len THEN Junk
     ELSE IF CanSplit(a) /\ w = a + 1 + n
          THEN [size |-> mem[a].size - n - 1, used |-> FALSE]
     ELSE mem[w]]

MallocTake ==
  /\ pc = "malloc" /\ cur < HeapWords
  /\ Fits(cur)
  /\ mem' = TakenMem(cur)
  /\ hdrs' = IF CanSplit(cur) THEN hdrs \cup {cur + 1 + n} ELSE hdrs
  /\ owned' = owned \cup {cur}
  /\ want' = [want EXCEPT ![cur] = n]
  /\ ret' = cur
  /\ pc' = "idle" /\ n' = 0 /\ cur' = 0

MallocFail ==
  /\ pc = "malloc" /\ cur >= HeapWords
  /\ ret' = Null
  /\ pc' = "idle" /\ n' = 0 /\ cur' = 0
  /\ UNCHANGED <<mem, hdrs, owned, want>>

-----------------------------------------------------------------------------

(* kfree(ptr) of a block that was handed out: the used flag is cleared and  *)
(* the coalescing walk starts at the bottom of the heap.                    *)
FreeCall(a) ==
  /\ pc = "idle"
  /\ mem' = [mem EXCEPT ![a].used = FALSE]
  /\ owned' = owned \ {a}
  /\ want' = [want EXCEPT ![a] = 0]
  /\ pc' = "free" /\ cur' = 0
  /\ UNCHANGED <<n, ret, hdrs>>

BothFree(a) == ~mem[a].used /\ ~mem[NextOf(a)].used

(* Mutant: the merged size does not count the second block's header.        *)
FreeMergeNoHeader ==
  /\ pc = "free" /\ NextOf(cur) < HeapWords /\ BothFree(cur)
  /\ mem' = [mem EXCEPT ![cur].size = mem[cur].size + mem[NextOf(cur)].size]
  /\ hdrs' = hdrs \ {NextOf(cur)}
  /\ UNCHANGED <<pc, n, cur, ret, owned, want>>

(* Mutant: the walk goes on after a merge instead of trying again.          *)
FreeMergeAdvances ==
  /\ pc = "free" /\ NextOf(cur) < HeapWords /\ BothFree(cur)
  /\ LET big == mem[cur].size + 1 + mem[NextOf(cur)].size
         nxt == cur + 1 + big
     IN  /\ mem' = [mem EXCEPT ![cur].size = big]
         /\ cur' = IF nxt < HeapWords THEN nxt ELSE cur
  /\ hdrs' = hdrs \ {NextOf(cur)}
  /\ UNCHANGED <<pc, n, ret, owned, want>>

(* Two adjacent free blocks become one; the walk stays where it is.         *)
FreeMerge ==
  /\ pc = "free" /\ NextOf(cur) < HeapWords
  /\ BothFree(cur)
  /\ mem' = [mem EXCEPT ![cur] = [size |-> mem[cur].size + 1 + mem[NextOf(cur)].size, used |-> FALSE]]
  /\ hdrs' = hdrs \ {NextOf(cur)}
  /\ UNCHANGED <<pc, n, cur, ret, owned, want>>

FreeSkip ==
  /\ pc = "free" /\ NextOf(cur) < HeapWords
  /\ ~BothFree(cur)
  /\ cur' = NextOf(cur)
  /\ UNCHANGED <<mem, pc, n, ret, hdrs, owned, want>>

FreeStop ==
  /\ pc = "free" /\ NextOf(cur) >= HeapWords
  /\ pc' = "idle" /\ cur' = 0
  /\ UNCHANGED <<mem, n, ret, hdrs, owned, want>>

Step == MallocSkip \/ MallocTake \/ MallocFail \/ FreeMerge \/ FreeSkip \/ FreeStop

Next ==
  \/ \E k \in 0..MaxRequest : MallocCall(k)
  \/ \E a \in owned : FreeCall(a)
  \/ Step

Spec == Init /\ [][Next]_vars

-----------------------------------------------------------------------------
(* The values of the heap's words and of the locals of the two calls.       *)
TypeOK ==
  /\ mem \in [Words -> Headers \cup {Junk}]
  /\ pc \in {"idle", "malloc", "free"}
  /\ n \in 0..MaxRequest /\ cur \in 0..HeapWords /\ ret \in Words \cup {Null}
  /\ hdrs \in SUBSET Words /\ owned \in SUBSET Words /\ want \in [Words -> 0..MaxRequest]

(* The blocks tile the heap: a walk from the bottom meets every header and  *)
(* never reads client data as one, after any history of splits and merges.  *)
Tiling ==
  /\ 0 \in hdrs
  /\ \A a \in hdrs : /\ mem[a] \in Headers
                     /\ NextOf(a) \in hdrs \cup {HeapWords}
                     /\ \A b \in hdrs : b <= a \/ b >= NextOf(a)

(* The used flags are right: exactly the blocks handed out are marked, and  *)
(* each has the words its owner asked for.                                  *)
UsedIsOwned ==
  /\ owned \subseteq hdrs
  /\ \A a \in hdrs : mem[a].used <=> a \in owned
  /\ \A a \in owned : want[a] <= mem[a].size

Coalesced(a) == NextOf(a) < HeapWords => mem[a].used \/ mem[NextOf(a)].used

(* Between calls no two adjacent blocks are free: kfree's one walk is       *)
(* enough, wherever the freed block lies.                                   *)
NoFragments == pc = "idle" => \A a \in hdrs : Coalesced(a)

(* Every word belongs to a block.                                           *)
Cover == \A w \in Words : \E a \in hdrs : a <= w /\ w < NextOf(a)

(* What the loops have established about the part of the heap behind cur:   *)
(* kmalloc found no block that fits, kfree left no two free neighbours.     *)
Walk ==
  /\ pc = "malloc" => /\ cur \in hdrs \cup {HeapWords}
                      /\ \A a \in hdrs : a < cur => ~Fits(a)
                      /\ \A a \in hdrs : Coalesced(a)
  /\ pc = "free" => /\ cur \in hdrs
                    /\ \A a \in hdrs : a < cur => Coalesced(a)

(* No kmalloc or kfree moves or resizes a block that somebody owns.         *)
OwnedUntouched ==
  [][\A a \in owned : a \in owned' => mem'[a] = mem[a] /\ want'[a] = want[a]]_vars

Abstract == INSTANCE Allocator WITH blocks <- [a \in owned |-> mem[a].size]

(* The heap implements the allocator: disjoint blocks, and NULL only when   *)
(* no run of free words is long enough.                                     *)
Refinement == Abstract!Spec
=============================================================================
