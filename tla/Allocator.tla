----------------------------- MODULE Allocator -----------------------------
(* What the kernel heap promises: blocks that lie in the heap and never      *)
(* overlap, and NULL only when no run of free words is long enough for the   *)
(* request and its header word.                                              *)
EXTENDS Integers

CONSTANTS HeapWords,  \* size of the heap in 4-byte words
          MaxRequest, \* bound on the words asked for in one call
          Null        \* the NULL pointer

VARIABLES blocks,  \* header address of each block handed out -> payload words
          ret      \* what the latest kmalloc returned

vars == <<blocks, ret>>

(* The words of block b: its header and its payload.                        *)
Extent(b) == b .. b + blocks[b]

FreeRun(from, to) == \A b \in DOMAIN blocks : (from..to) \cap Extent(b) = {}

Init == blocks = [b \in {} |-> 0] /\ ret = Null

(* A block may be one word longer than asked for.                           *)
Alloc(n) ==
  \E b \in 0..HeapWords-1, len \in n..n+1 :
    /\ b + len < HeapWords
    /\ FreeRun(b, b + len)
    /\ blocks' = [x \in DOMAIN blocks \cup {b} |-> IF x = b THEN len ELSE blocks[x]]
    /\ ret' = b

Fail(n) ==
  /\ \A b \in 0..HeapWords-1-n : ~FreeRun(b, b + n)
  /\ ret' = Null
  /\ UNCHANGED blocks

Free(b) ==
  /\ blocks' = [x \in DOMAIN blocks \ {b} |-> blocks[x]]
  /\ UNCHANGED ret

Next ==
  \/ \E n \in 0..MaxRequest : Alloc(n) \/ Fail(n)
  \/ \E b \in DOMAIN blocks : Free(b)

Spec == Init /\ [][Next]_vars
=============================================================================
