CONSTANTS
 Mod = 256
 MinBlock = 4
 RoundUp <- RoundNextPowerOfTwo
 Bits = 8
 MaxRun = 4
 WordBits = 2
 Sizes = {3, 4, 6, 16}
SPECIFICATION UMemSpec
INVARIANTS UfreeSafe
