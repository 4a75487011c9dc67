CONSTANTS
 HeapWords = 7
 MaxRequest = 3
 Null = Null
 Junk = Junk
 Addr = {s1, s2, s3}
 N = 2
 NULL = NULL
 Mod = 256
 MinBlock = 4
 RoundUp <- RoundNextPowerOfTwo
 Bits = 4
 MaxRun = 4
 WordBits = 2
 Sizes = {3, 4, 6, 12, 16, 100}
SPECIFICATION MemorySpec
INVARIANTS Tiling NoFragments SlabListExact FreeListsExact ExactWhileSuited RegionsSafe
PROPERTIES OwnedUntouched Refinement GrowsOnlyWhenFull FirstFit
