------------------------------ MODULE UBitmap ------------------------------
(* The user-memory bitmap (kernel/memory/umem_alloc.c): one bit per block of *)
(* user RAM, first-fit search for a run of free bits, and the release of a   *)
(* run.  The search is modelled bit by bit.                                  *)
EXTENDS Integers

CONSTANTS Bits,    \* ALLOC_ARRAY_BYTE_SIZE * 8
          MaxRun   \* bound on the bits asked for in one call

ASSUME BitsAssumption == Bits \in Nat /\ MaxRun \in Nat \ {0}

VARIABLES alloc_bitmap,      \* TRUE: the block is used
          upc,                \* "idle" or "scan"
          num_bits, i, consecutive_zeros, start_bit,  \* ualloc_try_block
          runs              \* history: the runs handed out, [start, len]

scanVars == <<num_bits, i, consecutive_zeros, start_bit>>
bitmapVars == <<alloc_bitmap, upc, scanVars, runs>>

Bit == 0..Bits-1

(* The bits of a run of len blocks from s.                                  *)
Run(s, len) == s .. s + len - 1

BitmapInit ==
  /\ alloc_bitmap = [b \in Bit |-> FALSE]
  /\ upc = "idle" /\ num_bits = 0 /\ i = 0 /\ consecutive_zeros = 0 /\ start_bit = -1
  /\ runs = {}

-----------------------------------------------------------------------------
(* mark_bits_used and mark_bits_free.                                       *)
Marked(s, len, v) == [b \in Bit |-> IF b \in Run(s, len) THEN v ELSE alloc_bitmap[b]]

ScanReturn ==
  /\ upc' = "idle"
  /\ num_bits' = 0 /\ i' = 0 /\ consecutive_zeros' = 0 /\ start_bit' = -1

(* Mutant: the search starts at the second bit.                             *)
TryBlockFromOne(k) ==
  /\ upc = "idle"
  /\ upc' = "scan" /\ num_bits' = k /\ i' = 1
  /\ UNCHANGED <<alloc_bitmap, consecutive_zeros, start_bit, runs>>

(* ualloc_try_block(k).                                                     *)
TryBlock(k) ==
  /\ upc = "idle"
  /\ upc' = "scan" /\ num_bits' = k
  /\ UNCHANGED <<alloc_bitmap, i, consecutive_zeros, start_bit, runs>>

(* The first bit of the run of free bits that bit i, if free, extends.      *)
RunStart == IF consecutive_zeros = 0 THEN i ELSE start_bit

ScanFree ==
  /\ upc = "scan" /\ i < Bits /\ ~alloc_bitmap[i]
  /\ consecutive_zeros + 1 # num_bits
  /\ start_bit' = RunStart
  /\ consecutive_zeros' = consecutive_zeros + 1
  /\ i' = i + 1
  /\ UNCHANGED <<alloc_bitmap, upc, num_bits, runs>>

ScanUsed ==
  /\ upc = "scan" /\ i < Bits /\ alloc_bitmap[i]
  /\ consecutive_zeros' = 0
  /\ i' = i + 1
  /\ UNCHANGED <<alloc_bitmap, upc, num_bits, start_bit, runs>>

ScanTake ==
  /\ upc = "scan" /\ i < Bits /\ ~alloc_bitmap[i]
  /\ consecutive_zeros + 1 = num_bits
  /\ alloc_bitmap' = Marked(RunStart, num_bits, TRUE)
  /\ runs' = runs \cup {[start |-> RunStart, len |-> num_bits]}
  /\ ScanReturn

ScanFail ==
  /\ upc = "scan" /\ i >= Bits
  /\ ScanReturn
  /\ UNCHANGED <<alloc_bitmap, runs>>

(* The owner of a run releases exactly that run.                            *)
Free(r) ==
  /\ upc = "idle"
  /\ alloc_bitmap' = Marked(r.start, r.len, FALSE)
  /\ runs' = runs \ {r}
  /\ UNCHANGED <<upc, scanVars>>

Scan == ScanFree \/ ScanUsed \/ ScanTake \/ ScanFail

BitmapNext ==
  \/ \E k \in 1..MaxRun : TryBlock(k)
  \/ Scan
  \/ \E r \in runs : Free(r)

BitmapSpec == BitmapInit /\ [][BitmapNext]_bitmapVars

-----------------------------------------------------------------------------
(* The values of the bitmap and of the search's locals.                     *)
BitmapTypeOK ==
  /\ alloc_bitmap \in [Bit -> BOOLEAN]
  /\ upc \in {"idle", "scan"}
  /\ num_bits \in 0..MaxRun /\ i \in 0..Bits
  /\ consecutive_zeros \in 0..MaxRun /\ start_bit \in Bit \cup {-1}
  /\ \A r \in runs : /\ r = [start |-> r.start, len |-> r.len]
                      /\ r.start \in Bit /\ r.len \in 1..MaxRun

(* The runs handed out lie in user RAM and no block is in two of them.      *)
RunsDisjoint ==
  /\ \A r \in runs : Run(r.start, r.len) \subseteq Bit
  /\ \A r, q \in runs : r # q => Run(r.start, r.len) \cap Run(q.start, q.len) = {}

(* A bit is set exactly when its block is in a run handed out: no block is  *)
(* lost to the allocator and none is free while somebody uses it.           *)
BitmapExact ==
  \A b \in Bit : alloc_bitmap[b] <=> \E r \in runs : b \in Run(r.start, r.len)

FreeRun(s, len) == \A b \in Run(s, len) : ~alloc_bitmap[b]

(* The search overlooks nothing: behind bit i there is no free run of the   *)
(* length asked for, so NULL is returned only when there is none at all.    *)
NothingOverlooked ==
  upc = "scan" => \A s \in 0 .. i - num_bits : ~FreeRun(s, num_bits)

(* What is handed out is the lowest run that fits.                          *)
FirstFit ==
  [][\A r \in runs' \ runs :
       \A s \in 0 .. r.start - 1 : ~FreeRun(s, r.len)]_bitmapVars
=============================================================================
