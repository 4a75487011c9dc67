-------------------------------- MODULE UMem --------------------------------
(* ualloc and ufree (kernel/memory/umem.s) on top of the bitmap search of    *)
(* UBitmap: sizes in bytes and addresses become numbers of bits and first    *)
(* bits.  RoundUp is round_next_power_of_two (Rounding).                     *)
EXTENDS UBitmap, Arith

CONSTANTS RoundUp(_), \* round_next_power_of_two
          WordBits,   \* bits that one sw clears (32)
          Sizes       \* the sizes in bytes that are asked for

(* User RAM starts at its own size (0x4_0000, 256 KiB of it).               *)
RamStart == MinBlock * Bits

(* The sizes whose next power of two is a positive signed number (2^30).    *)
Largest == (Mod \div 2) \div 2

(* The rounding ends above its argument as long as that is not too large;   *)
(* the first address is a power of two.                                     *)
ASSUME SizesAssumption ==
  /\ WordBits \in Nat \ {0} /\ Sizes \subseteq Register \ {0}
  /\ RoundUp(RamStart) = RamStart /\ RamStart \in Register
  /\ \A s \in Sizes :
       /\ RoundUp(s) \in Register
       /\ s <= Largest => RoundUp(s) \in s .. (Mod \div 2) - 1
       /\ Signed(RoundUp(s)) >= MinBlock =>
            (RoundUp(s) \div MinBlock) + (RoundUp(s) % MinBlock) <= MaxRun

VARIABLES booted,     \* ualloc_init has returned
          req,        \* the size of the ualloc call in progress
          asked,      \* history: the size asked for, by the first bit of its run
          suited      \* history: what ufree has released so far suits it

umemVars == <<bitmapVars, booted, req, asked, suited>>

Address(b) == RamStart + b * MinBlock

UMemInit ==
  BitmapInit /\ booted = FALSE /\ req = 0 /\ asked = [b \in Bit |-> 0] /\ suited = TRUE

(* ualloc_init: ALLOC_WORD_SIZE (a number of words) is added to the address *)
(* as a number of bytes, and every turn of the loop clears that same word.  *)
UallocInit ==
  /\ ~booted
  /\ booted' = TRUE
  /\ alloc_bitmap' = Marked(Bits \div 4, WordBits, FALSE)
  /\ UNCHANGED <<upc, scanVars, runs, req, asked, suited>>

(* Mutant: the remainder is rounded away instead of being allocated.        *)
ContiguousBitsDown(size) == size \div MinBlock

(* The bits ualloc asks for: at least one block, and after the rounding the *)
(* quotient plus the remainder (one of them is zero when MinBlock is a      *)
(* power of two).  The comparison with MinBlock is signed.                  *)
ContiguousBits(size) ==
  LET r == RoundUp(size)
      m == IF Signed(r) >= MinBlock THEN r ELSE MinBlock
  IN  (m \div MinBlock) + (m % MinBlock)

(* ualloc(size) up to the call of ualloc_try_block.  For size 0 it returns  *)
(* 1 and changes nothing.                                                   *)
Ualloc(size) ==
  /\ booted
  /\ TryBlock(ContiguousBits(size))
  /\ req' = size
  /\ UNCHANGED <<booted, asked, suited>>

(* A step of the search; its result is returned as an address.              *)
UallocScan ==
  /\ \/ ScanTake /\ asked' = [asked EXCEPT ![RunStart] = req]
     \/ (ScanFree \/ ScanUsed \/ ScanFail) /\ UNCHANGED asked
  /\ req' = IF upc' = "idle" THEN 0 ELSE req
  /\ UNCHANGED <<booted, suited>>

(* The bits ufree clears: here the size is not rounded.                     *)
FreeBits(size) ==
  LET m == IF Signed(size) >= MinBlock THEN size ELSE MinBlock
  IN  (m \div MinBlock) + (m % MinBlock)

(* Mutant: the start of user RAM is not subtracted.                         *)
FreeStartAbsolute(addr) == Signed(Div(RoundUp(addr), MinBlock))

(* The first bit ufree clears: the address is rounded to a power of two.    *)
FreeStart(addr) == Signed(Div((RoundUp(addr) - RamStart) % Mod, MinBlock))

(* What ufree's arithmetic is right for: a power of two of bytes at the     *)
(* first address.                                                           *)
Suits(r) == r.start = 0 /\ RoundUp(asked[r.start]) = asked[r.start]

(* ufree(addr, size), called by the owner with the size it asked for.  Bits *)
(* behind the bitmap belong to other data, which is not modelled.           *)
Ufree(r) ==
  /\ booted /\ upc = "idle"
  /\ alloc_bitmap' = Marked(FreeStart(Address(r.start)), FreeBits(asked[r.start]), FALSE)
  /\ runs' = runs \ {r}
  /\ asked' = [asked EXCEPT ![r.start] = 0]
  /\ suited' = (suited /\ Suits(r))
  /\ UNCHANGED <<upc, scanVars, booted, req>>

UMemNext ==
  \/ UallocInit
  \/ \E size \in Sizes : Ualloc(size)
  \/ UallocScan
  \/ \E r \in runs : Ufree(r)

UMemSpec == UMemInit /\ [][UMemNext]_umemVars

-----------------------------------------------------------------------------
(* The blocks that hold a byte of the region that starts at block s.        *)
RegionBlocks(s) == {b \in s .. s + Bits : b * MinBlock < s * MinBlock + asked[s]}

(* Regions of up to 2^30 bytes that are handed out (the others get one      *)
(* block whatever their size): every byte lies in user RAM, in a block that *)
(* is marked used and that no other of these regions shares.                *)
RegionsKept ==
  LET starts == {r.start : r \in {q \in runs : asked[q.start] <= Largest}} IN
  /\ \A s \in starts : /\ RegionBlocks(s) \subseteq Bit
                       /\ \A b \in RegionBlocks(s) : alloc_bitmap[b]
  /\ \A s, t \in starts : s # t => RegionBlocks(s) \cap RegionBlocks(t) = {}

(* As long as ufree was called only for what its arithmetic suits, every    *)
(* region keeps its memory to itself over all calls of ualloc and ufree.    *)
RegionsSafe == suited => RegionsKept

(* As long as that is so, a bit is set exactly when its block is in a run   *)
(* handed out: ufree clears all that ualloc has set, and nothing else.      *)
ExactWhileSuited == suited => BitmapExact

(* memory_segment.s: "once the share counter is 0 then we can safely call   *)
(* ufree".  Whatever its owner gives back, the other regions stay theirs.   *)
UfreeSafe == RegionsKept
=============================================================================
