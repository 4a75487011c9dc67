----------------------------- MODULE MCMemory -----------------------------
(* The three allocators.  They share no state, so no interleaving of them    *)
(* shows more than each alone, and a behaviour is one of one of them:        *)
(* the kernel heap (7 words), the slabs (3 of two objects) or user memory    *)
(* (4 blocks of 4 bytes at address 16; a register has 8 bits).               *)
EXTENDS KHeap, Slab, UMem, Rounding

VARIABLE part   \* the allocator that is used

memoryVars == <<part, vars, svars, umemVars>>

MemoryInit == part \in {"heap", "slab", "user"} /\ Init /\ InitSlabs /\ UMemInit

MemoryNext ==
  /\ UNCHANGED part
  /\ \/ part = "heap" /\ Next /\ UNCHANGED <<svars, umemVars>>
     \/ part = "slab" /\ SlabNext /\ UNCHANGED <<vars, umemVars>>
     \/ part = "user" /\ UMemNext /\ UNCHANGED <<vars, svars>>

MemorySpec == MemoryInit /\ [][MemoryNext]_memoryVars
=============================================================================
