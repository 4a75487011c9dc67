--------------------------- MODULE UMemProofs ---------------------------
(* The invariants of the bitmap search, for every number of bits and every   *)
(* bound on the runs asked for, and those of ualloc and ufree on top of it,  *)
(* for every block size and register width.                                  *)
EXTENDS UMem, TLAPS

(* What the search knows about the run of free bits that ends behind bit i:  *)
(* it is maximal to the left and shorter than asked for.                     *)
ScanRun ==
  /\ upc = "idle" => i = 0 /\ consecutive_zeros = 0
  /\ upc = "scan" =>
       /\ num_bits >= 1
       /\ consecutive_zeros < num_bits
       /\ consecutive_zeros <= i
       /\ consecutive_zeros > 0 => start_bit = i - consecutive_zeros
       /\ \A b \in i - consecutive_zeros .. i - 1 : ~alloc_bitmap[b]
       /\ i > consecutive_zeros => alloc_bitmap[i - consecutive_zeros - 1]

(* What the search relies on, whatever the bitmap shows.                     *)
SearchInv == BitmapTypeOK /\ NothingOverlooked /\ ScanRun

(* The inductive invariant.                                                  *)
IInv == SearchInv /\ RunsDisjoint /\ BitmapExact

(* An empty bitmap, no search.                                               *)
LEMMA InitIInv == BitmapInit => IInv
BY BitsAssumption DEF BitmapInit, IInv, SearchInv, BitmapTypeOK, RunsDisjoint, BitmapExact, NothingOverlooked, ScanRun, Bit, Run

(* The run that ScanTake takes is free and lies in the bitmap.               *)
LEMMA TakenRun ==
  ASSUME SearchInv, ScanTake
  PROVE  /\ RunStart = i - consecutive_zeros /\ RunStart \in Bit
         /\ Run(RunStart, num_bits) = RunStart .. i
         /\ Run(RunStart, num_bits) \subseteq Bit
         /\ \A b \in Run(RunStart, num_bits) : ~alloc_bitmap[b]
<1>1. i \in Bit /\ i \in Int /\ consecutive_zeros \in Nat /\ num_bits = consecutive_zeros + 1
  BY BitsAssumption DEF ScanTake, SearchInv, BitmapTypeOK, Bit
<1>2. RunStart = i - consecutive_zeros /\ consecutive_zeros <= i
  <2>1. consecutive_zeros <= i /\ (consecutive_zeros > 0 => start_bit = i - consecutive_zeros)
    BY DEF ScanTake, SearchInv, ScanRun
  <2>2. CASE consecutive_zeros = 0
    BY <1>1, <2>1, <2>2 DEF RunStart
  <2>3. CASE consecutive_zeros > 0
    BY <1>1, <2>1, <2>3 DEF RunStart
  <2> QED BY <1>1, <2>2, <2>3
<1>3. Run(RunStart, num_bits) = RunStart .. i
  BY <1>1, <1>2 DEF Run
<1>4. RunStart \in Bit /\ RunStart .. i \subseteq Bit
  BY <1>1, <1>2, BitsAssumption DEF Bit
<1>5. \A b \in RunStart .. i : ~alloc_bitmap[b]
  <2>1. \A b \in i - consecutive_zeros .. i - 1 : ~alloc_bitmap[b]
    BY DEF ScanTake, SearchInv, ScanRun
  <2>2. ~alloc_bitmap[i]
    BY DEF ScanTake
  <2> QED BY <1>1, <1>2, <2>1, <2>2
<1> QED BY <1>2, <1>3, <1>4, <1>5

(* Every step of the search keeps what it relies on, and so does every       *)
(* release of bits, whichever they are.                                      *)
LEMMA SearchStep == SearchInv /\ [BitmapNext]_bitmapVars => SearchInv'
<1> SUFFICES ASSUME SearchInv, [BitmapNext]_bitmapVars PROVE SearchInv'
  OBVIOUS
<1> USE BitsAssumption
<1>1. ASSUME NEW k \in 1..MaxRun, TryBlock(k) PROVE SearchInv'
  <2>1. /\ upc = "idle" /\ upc' = "scan" /\ num_bits' = k /\ i = 0 /\ consecutive_zeros = 0
        /\ UNCHANGED <<alloc_bitmap, i, consecutive_zeros, start_bit, runs>>
    BY <1>1 DEF TryBlock, SearchInv, ScanRun
  <2>2. BitmapTypeOK'
    BY <2>1 DEF SearchInv, BitmapTypeOK
  <2>3. NothingOverlooked' /\ ScanRun'
    BY <2>1 DEF NothingOverlooked, ScanRun
  <2> QED BY <2>2, <2>3 DEF SearchInv
<1>2. CASE ScanFree
  <2>1. /\ upc = "scan" /\ upc' = "scan" /\ i < Bits /\ ~alloc_bitmap[i] /\ i' = i + 1
        /\ consecutive_zeros' = consecutive_zeros + 1 /\ start_bit' = RunStart
        /\ UNCHANGED <<alloc_bitmap, num_bits, runs>> /\ consecutive_zeros + 1 # num_bits
    BY <1>2 DEF ScanFree
  <2>2. i \in Nat /\ consecutive_zeros \in Nat /\ num_bits \in Nat /\ num_bits <= MaxRun
    BY DEF SearchInv, BitmapTypeOK
  <2>3. /\ num_bits >= 1 /\ consecutive_zeros < num_bits /\ consecutive_zeros <= i
        /\ (consecutive_zeros > 0 => start_bit = i - consecutive_zeros)
        /\ (i > consecutive_zeros => alloc_bitmap[i - consecutive_zeros - 1])
        /\ \A b \in i - consecutive_zeros .. i - 1 : ~alloc_bitmap[b]
    BY <2>1 DEF SearchInv, ScanRun
  <2>4. RunStart = i - consecutive_zeros
    <3>1. CASE consecutive_zeros = 0
      BY <2>2, <3>1 DEF RunStart
    <3>2. CASE consecutive_zeros > 0
      BY <2>2, <2>3, <3>2 DEF RunStart
    <3> QED BY <2>2, <3>1, <3>2
  <2>5. BitmapTypeOK'
    BY <2>1, <2>2, <2>3, <2>4 DEF SearchInv, BitmapTypeOK, Bit
  <2>6. ScanRun'
    <3>1. \A b \in i - consecutive_zeros .. i : ~alloc_bitmap[b]
      BY <2>1, <2>2, <2>3
    <3> QED BY <2>1, <2>2, <2>3, <2>4, <3>1 DEF ScanRun
  <2>7. ASSUME NEW s \in 0 .. i + 1 - num_bits PROVE ~FreeRun(s, num_bits)
    <3>1. CASE s \in 0 .. i - num_bits
      BY <2>1, <3>1 DEF SearchInv, NothingOverlooked
    <3>2. CASE s = i + 1 - num_bits
      <4>1. i - consecutive_zeros - 1 \in s .. s + num_bits - 1 /\ i > consecutive_zeros
        BY <2>1, <2>2, <2>3, <2>7, <3>2
      <4> QED BY <2>3, <4>1 DEF FreeRun, Run
    <3> QED BY <2>2, <2>7, <3>1, <3>2
  <2>8. NothingOverlooked'
    <3>1. \A s : FreeRun(s, num_bits)' <=> FreeRun(s, num_bits)
      BY <2>1 DEF FreeRun, Run
    <3>2. i' - num_bits' = i + 1 - num_bits
      BY <2>1, <2>2
    <3> QED BY <2>7, <3>1, <3>2 DEF NothingOverlooked
  <2> QED BY <2>5, <2>6, <2>8 DEF SearchInv
<1>3. CASE ScanUsed
  <2>1. /\ upc = "scan" /\ upc' = "scan" /\ i < Bits /\ alloc_bitmap[i] /\ i' = i + 1
        /\ consecutive_zeros' = 0 /\ UNCHANGED <<alloc_bitmap, num_bits, start_bit, runs>>
    BY <1>3 DEF ScanUsed
  <2>2. i \in Nat /\ num_bits \in Nat /\ num_bits >= 1
    BY <2>1 DEF SearchInv, BitmapTypeOK, ScanRun
  <2>3. BitmapTypeOK'
    BY <2>1, <2>2 DEF SearchInv, BitmapTypeOK
  <2>4. ScanRun'
    BY <2>1, <2>2 DEF ScanRun
  <2>5. ASSUME NEW s \in 0 .. i + 1 - num_bits PROVE ~FreeRun(s, num_bits)
    <3>1. CASE s \in 0 .. i - num_bits
      BY <2>1, <3>1 DEF SearchInv, NothingOverlooked
    <3>2. CASE s = i + 1 - num_bits
      <4>1. i \in s .. s + num_bits - 1
        BY <2>2, <3>2
      <4> QED BY <2>1, <4>1 DEF FreeRun, Run
    <3> QED BY <2>2, <2>5, <3>1, <3>2
  <2>6. NothingOverlooked'
    <3>1. \A s : FreeRun(s, num_bits)' <=> FreeRun(s, num_bits)
      BY <2>1 DEF FreeRun, Run
    <3>2. i' - num_bits' = i + 1 - num_bits
      BY <2>1, <2>2
    <3> QED BY <2>5, <3>1, <3>2 DEF NothingOverlooked
  <2> QED BY <2>3, <2>4, <2>6 DEF SearchInv
<1>4. CASE ScanTake
  <2> DEFINE R == Run(RunStart, num_bits)
             new == [start |-> RunStart, len |-> num_bits]
  <2>1. /\ upc' = "idle" /\ num_bits' = 0 /\ i' = 0 /\ consecutive_zeros' = 0 /\ start_bit' = -1
        /\ runs' = runs \cup {new}
        /\ alloc_bitmap' = [b \in Bit |-> IF b \in R THEN TRUE ELSE alloc_bitmap[b]]
    BY <1>4 DEF ScanTake, ScanReturn, Marked
  <2>2. RunStart \in Bit /\ R \subseteq Bit /\ num_bits \in 1..MaxRun
    BY <1>4, TakenRun DEF SearchInv, ScanRun, BitmapTypeOK, ScanTake
  <2>4. new.start = RunStart /\ new.len = num_bits
    OBVIOUS
  <2>5. BitmapTypeOK'
    <3>1. alloc_bitmap' \in [Bit -> BOOLEAN]
      BY <2>1 DEF SearchInv, BitmapTypeOK
    <3>2. \A r \in runs' : r = [start |-> r.start, len |-> r.len] /\ r.start \in Bit /\ r.len \in 1..MaxRun
      BY <2>1, <2>2, <2>4 DEF SearchInv, BitmapTypeOK
    <3>3. 0 \in 0..MaxRun /\ 0 \in 0..Bits
      OBVIOUS
    <3> QED BY <2>1, <3>1, <3>2, <3>3 DEF BitmapTypeOK
  <2>8. NothingOverlooked' /\ ScanRun'
    BY <2>1 DEF NothingOverlooked, ScanRun
  <2> QED BY <2>5, <2>8 DEF SearchInv
<1>5. CASE ScanFail
  BY <1>5 DEF ScanFail, ScanReturn, SearchInv, BitmapTypeOK, NothingOverlooked, ScanRun, Run
<1>6. ASSUME NEW r \in runs, Free(r) PROVE SearchInv'
  <2> DEFINE R == Run(r.start, r.len)
  <2>1. /\ upc = "idle" /\ runs' = runs \ {r} /\ UNCHANGED <<upc, num_bits, i, consecutive_zeros, start_bit>>
        /\ alloc_bitmap' = [b \in Bit |-> IF b \in R THEN FALSE ELSE alloc_bitmap[b]]
    BY <1>6 DEF Free, Marked, scanVars
  <2>2. BitmapTypeOK'
    BY <2>1 DEF SearchInv, BitmapTypeOK
  <2>4. NothingOverlooked' /\ ScanRun'
    BY <2>1 DEF SearchInv, NothingOverlooked, ScanRun
  <2> QED BY <2>2, <2>4 DEF SearchInv
<1>7. CASE UNCHANGED bitmapVars
  BY <1>7 DEF bitmapVars, scanVars, SearchInv, BitmapTypeOK, NothingOverlooked, ScanRun, FreeRun, Run
<1> QED
  BY <1>1, <1>2, <1>3, <1>4, <1>5, <1>6, <1>7 DEF BitmapNext, Scan

(* Every step of the search and every release of a run keeps the invariant.  *)
LEMMA StepIInv == IInv /\ [BitmapNext]_bitmapVars => IInv'
<1> SUFFICES ASSUME IInv, [BitmapNext]_bitmapVars PROVE RunsDisjoint' /\ BitmapExact'
  BY SearchStep DEF IInv
<1> USE BitsAssumption
<1>a. SearchInv /\ BitmapTypeOK /\ RunsDisjoint /\ BitmapExact
  BY DEF IInv, SearchInv
<1>1. CASE UNCHANGED <<alloc_bitmap, runs>>
  BY <1>a, <1>1 DEF RunsDisjoint, BitmapExact, Run
<1>2. CASE ScanTake
  <2> DEFINE R == Run(RunStart, num_bits)
             new == [start |-> RunStart, len |-> num_bits]
  <2>1. /\ runs' = runs \cup {new}
        /\ alloc_bitmap' = [b \in Bit |-> IF b \in R THEN TRUE ELSE alloc_bitmap[b]]
    BY <1>2 DEF ScanTake, Marked
  <2>2. R \subseteq Bit
    BY <1>a, <1>2, TakenRun
  <2>3. \A r \in runs : Run(r.start, r.len) \cap R = {}
    BY <1>a, <1>2, <2>2, TakenRun DEF BitmapExact
  <2>4. new.start = RunStart /\ new.len = num_bits
    OBVIOUS
  <2>6. RunsDisjoint'
    <3>1. ASSUME NEW r \in runs', NEW q \in runs', r # q
          PROVE  Run(r.start, r.len) \cap Run(q.start, q.len) = {}
      BY <1>a, <2>1, <2>3, <2>4, <3>1 DEF RunsDisjoint
    <3>2. ASSUME NEW r \in runs' PROVE Run(r.start, r.len) \subseteq Bit
      BY <1>a, <2>1, <2>2, <2>4, <3>2 DEF RunsDisjoint
    <3> QED BY <3>1, <3>2 DEF RunsDisjoint, Run
  <2>7. BitmapExact'
    <3> SUFFICES ASSUME NEW b \in Bit
                 PROVE  alloc_bitmap'[b] <=> \E r \in runs' : b \in Run(r.start, r.len)
      BY DEF BitmapExact, Run
    <3>1. (\E r \in runs' : b \in Run(r.start, r.len))
             <=> (b \in R \/ \E r \in runs : b \in Run(r.start, r.len))
      BY <2>1, <2>4
    <3>2. alloc_bitmap[b] <=> \E r \in runs : b \in Run(r.start, r.len)
      BY <1>a DEF BitmapExact
    <3>3. alloc_bitmap'[b] <=> (b \in R \/ alloc_bitmap[b])
      BY <1>a, <2>1 DEF BitmapTypeOK
    <3> QED BY <3>1, <3>2, <3>3
  <2> QED BY <2>6, <2>7
<1>3. ASSUME NEW r \in runs, Free(r) PROVE RunsDisjoint' /\ BitmapExact'
  <2> DEFINE R == Run(r.start, r.len)
  <2>1. /\ runs' = runs \ {r}
        /\ alloc_bitmap' = [b \in Bit |-> IF b \in R THEN FALSE ELSE alloc_bitmap[b]]
    BY <1>3 DEF Free, Marked
  <2>2. RunsDisjoint'
    BY <1>a, <2>1 DEF RunsDisjoint, Run
  <2>3. BitmapExact'
    <3> SUFFICES ASSUME NEW b \in Bit
                 PROVE  alloc_bitmap'[b] <=> \E q \in runs' : b \in Run(q.start, q.len)
      BY DEF BitmapExact, Run
    <3>1. alloc_bitmap[b] <=> \E q \in runs : b \in Run(q.start, q.len)
      BY <1>a DEF BitmapExact
    <3>2. \A q \in runs : q # r => R \cap Run(q.start, q.len) = {}
      BY <1>a DEF RunsDisjoint
    <3>3. alloc_bitmap'[b] <=> (b \notin R /\ alloc_bitmap[b])
      BY <1>a, <2>1 DEF BitmapTypeOK
    <3>4. (\E q \in runs' : b \in Run(q.start, q.len))
             <=> (b \notin R /\ \E q \in runs : b \in Run(q.start, q.len))
      BY <2>1, <3>2
    <3> QED BY <3>1, <3>3, <3>4
  <2> QED BY <2>2, <2>3
<1>4. CASE UNCHANGED bitmapVars
  BY <1>1, <1>4 DEF bitmapVars
<1>5. ASSUME NEW k \in 1..MaxRun, TryBlock(k) PROVE RunsDisjoint' /\ BitmapExact'
  BY <1>1, <1>5 DEF TryBlock
<1>6. CASE ScanFree \/ ScanUsed \/ ScanFail
  BY <1>1, <1>6 DEF ScanFree, ScanUsed, ScanFail
<1> QED
  BY <1>2, <1>3, <1>4, <1>5, <1>6 DEF BitmapNext, Scan

(* Every reachable state satisfies the inductive invariant.                  *)
THEOREM Invariance == BitmapSpec => []IInv
BY InitIInv, StepIInv, PTL DEF BitmapSpec

(* The bitmap and the search's locals keep their types.                      *)
THEOREM TypeCorrect == BitmapSpec => []BitmapTypeOK
BY Invariance, PTL DEF IInv, SearchInv

(* No block of user RAM is ever in two runs.                                 *)
THEOREM NeverShared == BitmapSpec => []RunsDisjoint
BY Invariance, PTL DEF IInv, SearchInv

(* The bitmap is exactly the set of blocks handed out.                       *)
THEOREM BitmapCorrect == BitmapSpec => []BitmapExact
BY Invariance, PTL DEF IInv, SearchInv

(* NULL means that no free run is long enough.                               *)
THEOREM SearchComplete == BitmapSpec => []NothingOverlooked
BY Invariance, PTL DEF IInv, SearchInv

(* A step that hands out a run hands out the lowest that fits.               *)
LEMMA TakesLowest ==
  ASSUME SearchInv, ScanTake, NEW r \in runs' \ runs, NEW s \in 0 .. r.start - 1
  PROVE  ~FreeRun(s, r.len)
<1>1. r = [start |-> RunStart, len |-> num_bits]
  BY DEF ScanTake
<1>2. /\ RunStart = i - consecutive_zeros /\ num_bits = consecutive_zeros + 1
      /\ i \in Nat /\ consecutive_zeros \in Nat /\ consecutive_zeros <= i
  BY TakenRun, BitsAssumption DEF ScanTake, SearchInv, BitmapTypeOK, ScanRun
<1>3. r.start = i - consecutive_zeros /\ r.len = num_bits /\ s \in Int /\ 0 <= s /\ s < r.start
  BY <1>1, <1>2
<1>4. s \in 0 .. i - num_bits
  BY <1>2, <1>3
<1> QED BY <1>3, <1>4 DEF SearchInv, NothingOverlooked, ScanTake

(* The lowest run that fits is handed out.                                   *)
THEOREM LowestFirst == BitmapSpec => FirstFit
<1>1. IInv /\ [BitmapNext]_bitmapVars =>
        [\A r \in runs' \ runs : \A s \in 0 .. r.start - 1 : ~FreeRun(s, r.len)]_bitmapVars
  <2> SUFFICES ASSUME IInv, BitmapNext, NEW r \in runs' \ runs, NEW s \in 0 .. r.start - 1
               PROVE  ~FreeRun(s, r.len)
    OBVIOUS
  <2>1. ScanTake
    BY DEF BitmapNext, Scan, TryBlock, ScanFree, ScanUsed, ScanFail, Free
  <2> QED BY <2>1, TakesLowest DEF IInv
<1> QED
  BY <1>1, Invariance, PTL DEF BitmapSpec, FirstFit

-----------------------------------------------------------------------------
(* The bits that ualloc asks for are at least one, and cover every size up   *)
(* to the largest that the rounding does not wrap.                           *)
LEMMA BitsCover ==
  ASSUME NEW size \in Sizes
  PROVE  /\ ContiguousBits(size) \in 1 .. MaxRun
         /\ size <= Largest => \A d \in Nat : d * MinBlock < size => d < ContiguousBits(size)
<1> DEFINE r == RoundUp(size)
           m == IF Signed(r) >= MinBlock THEN r ELSE MinBlock
           q == m \div MinBlock
           e == m % MinBlock
<1>1. /\ MinBlock \in Nat \ {0} /\ size \in Nat \ {0} /\ MaxRun \in Nat \ {0}
      /\ r \in Nat /\ Mod \in Nat \ {0} /\ Mod \div 2 \in Nat
      /\ size <= Largest => size <= r /\ r < Mod \div 2
      /\ Signed(r) >= MinBlock => (r \div MinBlock) + (r % MinBlock) <= MaxRun
  BY ArithAssumption, SizesAssumption, BitsAssumption DEF Register
<1>2. size <= Largest => Signed(r) = r
  BY <1>1 DEF Signed
<1>3. /\ m \in Nat \ {0} /\ (m = MinBlock \/ (m = r /\ Signed(r) >= MinBlock))
      /\ size <= Largest => size <= m
  <2>1. Signed(r) >= MinBlock => r # 0
    <3>1. Signed(0) <= 0
      BY <1>1 DEF Signed
    <3>2. ASSUME r = 0, Signed(r) >= MinBlock PROVE FALSE
      <4>1. Signed(0) >= MinBlock /\ Signed(0) \in Int
        BY <1>1, <3>2 DEF Signed
      <4> QED BY <1>1, <3>1, <4>1
    <3> QED BY <3>2
  <2> QED BY <1>1, <1>2, <2>1
<1>4. ContiguousBits(size) = q + e
  BY DEF ContiguousBits
<1> HIDE DEF m, r
<1>5. q \in Nat /\ e \in Nat /\ m = q * MinBlock + e
  BY <1>1, <1>3, Z3
<1>6. q + e >= 1
  <2>1. CASE q = 0
    BY <1>1, <1>3, <1>5, <2>1
  <2> QED BY <1>5, <2>1
<1>7. q + e <= MaxRun
  <2>1. CASE m = r /\ Signed(r) >= MinBlock
    BY <1>1, <2>1
  <2>2. CASE m = MinBlock
    <3>1. q = 1 /\ e = 0
      BY <1>1, <2>2, Z3
    <3> QED BY <1>1, <3>1
  <2> QED BY <1>3, <2>1, <2>2
<1>8. ASSUME size <= Largest, NEW d \in Nat, d * MinBlock < size PROVE d < q + e
  <2> HIDE DEF q, e
  <2> SUFFICES ASSUME d >= q + e PROVE FALSE
    BY <1>5
  <2>1. d * MinBlock >= (q + e) * MinBlock
    BY <1>1, <1>5, Z3
  <2>2. (q + e) * MinBlock = q * MinBlock + e * MinBlock /\ e * MinBlock >= e
    BY <1>1, <1>5, Z3
  <2>3. d * MinBlock \in Nat /\ (q + e) * MinBlock \in Nat /\ q * MinBlock \in Nat /\ e * MinBlock \in Nat
    BY <1>1, <1>5
  <2> QED BY <1>1, <1>3, <1>5, <1>8, <2>1, <2>2, <2>3
<1> QED BY <1>1, <1>4, <1>5, <1>6, <1>7, <1>8

(* What ufree clears is the run that ualloc marked, if its arithmetic suits  *)
(* the region.                                                               *)
LEMMA FreesTheRun ==
  ASSUME NEW size \in Sizes, RoundUp(size) = size
  PROVE  FreeStart(Address(0)) = 0 /\ FreeBits(size) = ContiguousBits(size)
<1>2. MinBlock \in Nat \ {0} /\ Bits \in Nat /\ Mod \in Nat \ {0} /\ RamStart \in Nat
  BY ArithAssumption, BitsAssumption DEF RamStart
<1>3. Address(0) = RamStart /\ RoundUp(RamStart) = RamStart
  BY <1>2, SizesAssumption DEF Address
<1>5. FreeStart(Address(0)) = Signed(Div(0 % Mod, MinBlock))
  BY <1>2, <1>3 DEF FreeStart
<1>6. 0 % Mod = 0 /\ 0 \div MinBlock = 0
  BY <1>2, Z3
<1>7. 0 < Mod \div 2
  BY <1>2, SizesAssumption DEF Register
<1>8. Signed(0) = 0
  BY <1>7 DEF Signed
<1>9. Div(0, MinBlock) = 0
  BY <1>6, <1>8 DEF Div
<1>10. FreeBits(size) = ContiguousBits(size)
  BY DEF FreeBits, ContiguousBits
<1> QED BY <1>5, <1>6, <1>8, <1>9, <1>10

-----------------------------------------------------------------------------
(* The size asked for, while the search runs and once it has ended.          *)
Asking ==
  /\ asked \in [Bit -> Sizes \cup {0}]
  /\ upc = "scan" => req \in Sizes /\ num_bits = ContiguousBits(req)
  /\ ~booted => runs = {} /\ upc = "idle"

(* What a run handed out has to do with the size its owner asked for.        *)
Asks == \A r \in runs : asked[r.start] \in Sizes /\ r.len = ContiguousBits(asked[r.start])

(* The inductive invariant of ualloc and ufree: the search is right in any   *)
(* case, the bitmap as long as ufree got what suits it.                      *)
UInv == SearchInv /\ Asking /\ (suited => IInv /\ Asks)

(* The loaded image: an empty bitmap, nobody has asked.                      *)
LEMMA UInit == UMemInit => UInv
<1> SUFFICES ASSUME UMemInit PROVE UInv
  OBVIOUS
<1>1. IInv
  BY InitIInv DEF UMemInit
<1>2. Asks /\ Asking
  BY DEF UMemInit, BitmapInit, Asks, Asking
<1> QED BY <1>1, <1>2 DEF UInv, IInv

(* A ufree that suits releases the run of its owner.                         *)
LEMMA SuitedFrees ==
  ASSUME UInv, NEW r \in runs, Ufree(r), suited'
  PROVE  suited /\ Free(r)
<1>1. suited /\ Suits(r)
  BY DEF Ufree
<1>2. asked[r.start] \in Sizes /\ r.len = ContiguousBits(asked[r.start])
  BY <1>1 DEF UInv, Asks
<1>3. r.start = 0 /\ RoundUp(asked[r.start]) = asked[r.start]
  BY <1>1 DEF Suits
<1>4. FreeStart(Address(r.start)) = r.start /\ FreeBits(asked[r.start]) = r.len
  BY <1>2, <1>3, FreesTheRun
<1> QED BY <1>1, <1>4 DEF Ufree, Free

(* A step of ualloc and ufree is one of the bitmap's, or none, unless it is  *)
(* a ufree that does not suit.                                               *)
LEMMA UMapped == UInv /\ [UMemNext]_umemVars /\ suited' => [BitmapNext]_bitmapVars
<1> SUFFICES ASSUME UInv, [UMemNext]_umemVars, suited' PROVE [BitmapNext]_bitmapVars
  OBVIOUS
<1>1. CASE UallocInit
  <2>0. suited /\ runs = {}
    BY <1>1 DEF UallocInit, UInv, Asking
  <2>1. BitmapTypeOK /\ \A b \in Bit : alloc_bitmap[b] = FALSE
    BY <2>0 DEF UInv, IInv, SearchInv, BitmapExact, BitmapTypeOK
  <2>2. alloc_bitmap' = alloc_bitmap
    <3>1. alloc_bitmap' = [b \in Bit |-> IF b \in Run(Bits \div 4, WordBits) THEN FALSE ELSE alloc_bitmap[b]]
      BY <1>1 DEF UallocInit, Marked
    <3>2. alloc_bitmap = [b \in Bit |-> alloc_bitmap[b]]
      BY <2>1 DEF BitmapTypeOK
    <3> QED BY <2>1, <3>1, <3>2
  <2> QED BY <1>1, <2>2 DEF UallocInit, bitmapVars
<1>2. ASSUME NEW size \in Sizes, Ualloc(size) PROVE BitmapNext
  BY <1>2, BitsCover DEF Ualloc, BitmapNext
<1>3. CASE UallocScan
  BY <1>3 DEF UallocScan, BitmapNext, Scan
<1>4. ASSUME NEW r \in runs, Ufree(r) PROVE BitmapNext
  BY <1>4, SuitedFrees DEF BitmapNext
<1>5. CASE UNCHANGED umemVars
  BY <1>5 DEF umemVars
<1> QED BY <1>1, <1>2, <1>3, <1>4, <1>5 DEF UMemNext

(* The four ends of a step of the search exclude each other.                 *)
LEMMA OneStep ==
  ASSUME BitmapTypeOK
  PROVE  /\ ScanTake => ~ScanFree /\ ~ScanUsed /\ ~ScanFail
         /\ ScanFail => ~ScanFree /\ ~ScanUsed /\ ~ScanTake
<1>1. i \in Int /\ Bits \in Int /\ (i >= Bits => ~(i < Bits))
  BY BitsAssumption DEF BitmapTypeOK
<1>2. ScanTake => ~ScanFree
  BY DEF ScanTake, ScanFree
<1>3. ScanTake => ~ScanUsed
  BY DEF ScanTake, ScanUsed
<1>4. ScanFail => ~ScanTake /\ ~ScanFree /\ ~ScanUsed
  BY <1>1 DEF ScanTake, ScanFail, ScanFree, ScanUsed
<1> QED BY <1>2, <1>3, <1>4

(* The search works on whatever bits ufree leaves it.                        *)
LEMMA USearch == UInv /\ [UMemNext]_umemVars => SearchInv' /\ Asking'
<1> SUFFICES ASSUME UInv, [UMemNext]_umemVars PROVE SearchInv' /\ Asking'
  OBVIOUS
<1>a. SearchInv /\ Asking /\ BitmapTypeOK
  BY DEF UInv, SearchInv
<1>1. CASE UallocInit
  <2>1. /\ alloc_bitmap' \in [Bit -> BOOLEAN] /\ upc = "idle" /\ booted'
        /\ UNCHANGED <<upc, num_bits, i, consecutive_zeros, start_bit, runs, req, asked>>
    BY <1>a, <1>1 DEF UallocInit, Marked, scanVars, BitmapTypeOK, Asking
  <2>2. SearchInv'
    BY <1>a, <2>1 DEF SearchInv, BitmapTypeOK, NothingOverlooked, ScanRun
  <2> QED BY <1>a, <2>1, <2>2 DEF Asking
<1>2. ASSUME NEW size \in Sizes, Ualloc(size) PROVE SearchInv' /\ Asking'
  <2>1. TryBlock(ContiguousBits(size)) /\ booted /\ UNCHANGED <<booted, asked>> /\ req' = size
    BY <1>2 DEF Ualloc
  <2>2. BitmapNext
    BY <2>1, BitsCover DEF BitmapNext
  <2>3. Asking'
    BY <1>a, <2>1 DEF TryBlock, Asking
  <2> QED BY <1>a, <2>2, <2>3, SearchStep
<1>3. CASE UallocScan
  <2>1. SearchInv' /\ booted
    <3>1. BitmapNext /\ upc = "scan"
      BY <1>3 DEF UallocScan, BitmapNext, Scan, ScanTake, ScanFree, ScanUsed, ScanFail
    <3> QED BY <1>a, <3>1, SearchStep DEF Asking
  <2>2. CASE ScanTake
    <3>1. RunStart \in Bit /\ req \in Sizes /\ upc' = "idle" /\ booted'
      BY <1>a, <1>3, <2>1, <2>2, TakenRun DEF ScanTake, ScanReturn, Asking, UallocScan
    <3>2. asked' = [asked EXCEPT ![RunStart] = req]
      BY <1>a, <1>3, <2>2, OneStep DEF UallocScan
    <3> QED BY <1>a, <2>1, <3>1, <3>2 DEF Asking
  <2>3. CASE ScanFail
    <3>1. asked' = asked /\ booted' /\ upc' = "idle"
      <4>1. asked' = asked /\ UNCHANGED booted
        BY <1>a, <1>3, <2>3, OneStep DEF UallocScan
      <4> QED BY <2>1, <2>3, <4>1 DEF ScanFail, ScanReturn
    <3> QED BY <1>a, <2>1, <3>1 DEF Asking
  <2>4. CASE ScanFree \/ ScanUsed
    <3>1. /\ upc = "scan" /\ upc' = "scan" /\ req' = req /\ booted'
          /\ UNCHANGED <<asked, num_bits>>
      BY <1>3, <2>1, <2>4 DEF ScanFree, ScanUsed, UallocScan, ScanTake
    <3> QED BY <1>a, <2>1, <3>1 DEF Asking
  <2> QED BY <1>3, <2>2, <2>3, <2>4 DEF UallocScan
<1>4. ASSUME NEW r \in runs, Ufree(r) PROVE SearchInv' /\ Asking'
  <2>1. /\ alloc_bitmap' \in [Bit -> BOOLEAN] /\ upc = "idle" /\ booted' /\ runs' = runs \ {r}
        /\ asked' = [asked EXCEPT ![r.start] = 0]
        /\ UNCHANGED <<upc, num_bits, i, consecutive_zeros, start_bit>>
    BY <1>a, <1>4 DEF Ufree, Marked, scanVars, BitmapTypeOK
  <2>2. SearchInv'
    BY <1>a, <2>1 DEF SearchInv, BitmapTypeOK, NothingOverlooked, ScanRun
  <2> QED BY <1>a, <2>1, <2>2 DEF Asking
<1>5. CASE UNCHANGED umemVars
  BY <1>a, <1>5, SearchStep DEF umemVars, bitmapVars, scanVars, Asking
<1> QED BY <1>1, <1>2, <1>3, <1>4, <1>5 DEF UMemNext

(* Every step keeps what was asked for in step with what was handed out.     *)
LEMMA UStep == UInv /\ [UMemNext]_umemVars => UInv'
<1> SUFFICES ASSUME UInv, [UMemNext]_umemVars, suited' PROVE IInv' /\ Asks'
  BY USearch DEF UInv
<1>0. suited
  BY DEF UMemNext, UallocInit, Ualloc, UallocScan, Ufree, umemVars
<1>a. BitmapTypeOK /\ RunsDisjoint /\ BitmapExact /\ Asks /\ Asking /\ IInv /\ SearchInv
  BY <1>0 DEF UInv, IInv, SearchInv
<1> SUFFICES Asks'
  BY <1>a, UMapped, StepIInv
<1>b. ASSUME NEW r \in runs PROVE r.start \in Bit /\ r.start \in Run(r.start, r.len)
  BY <1>a, BitsAssumption DEF BitmapTypeOK, Run, Bit
<1>1. CASE UNCHANGED <<runs, asked>>
  BY <1>a, <1>1 DEF Asks
<1>2. CASE UallocScan
  <2>2. CASE ScanTake
    <3> DEFINE new == [start |-> RunStart, len |-> num_bits]
    <3>1. RunStart \in Bit /\ \A b \in Run(RunStart, num_bits) : ~alloc_bitmap[b]
      BY <1>a, <2>2, TakenRun
    <3>2. num_bits \in 1 .. MaxRun /\ num_bits = ContiguousBits(req) /\ req \in Sizes
      BY <1>a, <2>2, BitsCover DEF ScanTake, Asking
    <3>3. RunStart \in Run(RunStart, num_bits)
      BY <3>1, <3>2, BitsAssumption DEF Run, Bit
    <3>4. \A r \in runs : r.start # RunStart
      BY <1>a, <1>b, <3>1, <3>3 DEF BitmapExact
    <3>5. runs' = runs \cup {new}
      BY <2>2 DEF ScanTake
    <3>6. new.start = RunStart /\ new.len = num_bits
      OBVIOUS
    <3> HIDE DEF new
    <3>8. asked' = [asked EXCEPT ![RunStart] = req]
      BY <1>a, <1>2, <2>2, OneStep DEF UallocScan
    <3>9. asked'[RunStart] = req
      BY <1>a, <3>1, <3>8 DEF Asking
    <3>10. ASSUME NEW r \in runs'
           PROVE  asked'[r.start] \in Sizes /\ r.len = ContiguousBits(asked'[r.start])
      <4>1. CASE r \in runs
        <5>1. asked'[r.start] = asked[r.start]
          BY <1>a, <1>b, <3>4, <3>8, <4>1 DEF Asking
        <5> QED BY <1>a, <4>1, <5>1 DEF Asks
      <4>2. CASE r = new
        BY <3>2, <3>6, <3>9, <4>2
      <4> QED BY <3>5, <3>10, <4>1, <4>2
    <3> QED BY <3>10 DEF Asks
  <2>3. CASE ~ScanTake
    BY <1>1, <1>2, <2>3 DEF UallocScan, ScanFree, ScanUsed, ScanFail
  <2> QED BY <2>2, <2>3
<1>3. ASSUME NEW r \in runs, Ufree(r) PROVE Asks'
  <2>1. \A q \in runs : q # r => q.start # r.start
    BY <1>a, <1>b DEF RunsDisjoint
  <2>2. runs' = runs \ {r} /\ asked' = [asked EXCEPT ![r.start] = 0]
    BY <1>3 DEF Ufree
  <2>3. \A q \in runs' : asked'[q.start] = asked[q.start]
    BY <1>a, <1>b, <2>1, <2>2 DEF Asking
  <2> QED BY <1>a, <2>2, <2>3 DEF Asks
<1> QED BY <1>1, <1>2, <1>3 DEF UMemNext, UallocInit, Ualloc, TryBlock, umemVars, bitmapVars

-----------------------------------------------------------------------------
(* ualloc and ufree keep the inductive invariant.                            *)
THEOREM UMemInvariance == UMemSpec => []UInv
<1>1. UMemInit => UInv
  BY UInit
<1>2. UInv /\ [UMemNext]_umemVars => UInv'
  BY UStep
<1> QED BY <1>1, <1>2, PTL DEF UMemSpec

(* ualloc hands out the lowest run that fits, whatever ufree has cleared.    *)
THEOREM UallocFirstFit == UMemSpec => FirstFit
<1>1. UInv /\ [UMemNext]_umemVars =>
        [\A r \in runs' \ runs : \A s \in 0 .. r.start - 1 : ~FreeRun(s, r.len)]_bitmapVars
  <2> SUFFICES ASSUME UInv, UMemNext, NEW r \in runs' \ runs, NEW s \in 0 .. r.start - 1
               PROVE  ~FreeRun(s, r.len)
    BY DEF umemVars
  <2>1. ScanTake
    BY DEF UMemNext, UallocInit, Ualloc, UallocScan, Ufree, TryBlock, ScanFree, ScanUsed, ScanFail
  <2> QED BY <2>1, TakesLowest DEF UInv
<1> QED
  BY <1>1, UMemInvariance, PTL DEF UMemSpec, FirstFit

(* ualloc and ufree use the bitmap as UBitmap specifies (a run is taken by   *)
(* the search alone and given back whole, by its owner) up to the first      *)
(* ufree that does not suit: that release alone can be something else.       *)
THEOREM UsesBitmap == UMemSpec => [][suited' => BitmapNext \/ UNCHANGED bitmapVars]_umemVars
<1>1. UInv /\ [UMemNext]_umemVars => [suited' => BitmapNext \/ UNCHANGED bitmapVars]_umemVars
  BY UMapped
<1> QED BY <1>1, UMemInvariance, PTL DEF UMemSpec

(* The bitmap is exact as long as ufree got what suits it.                   *)
THEOREM ExactAsLongAsSuited == UMemSpec => []ExactWhileSuited
<1>1. UInv => ExactWhileSuited
  BY DEF UInv, IInv, ExactWhileSuited
<1> QED BY <1>1, UMemInvariance, PTL

(* For every size and every size of the bitmap: as long as ufree got what    *)
(* suits it, the bytes of the regions of up to 2^30 bytes that ualloc hands  *)
(* out lie in user RAM, in blocks that are marked used and that no other of  *)
(* these regions shares, whatever was allocated and released before.         *)
THEOREM RegionsAlwaysSafe == UMemSpec => []RegionsSafe
<1>1. ASSUME UInv, suited, NEW r \in runs, asked[r.start] <= Largest
      PROVE  RegionBlocks(r.start) \subseteq Run(r.start, r.len)
  <2> SUFFICES ASSUME NEW b \in RegionBlocks(r.start) PROVE b \in Run(r.start, r.len)
    OBVIOUS
  <2>1. /\ r.start \in Nat /\ r.len \in Nat /\ Bits \in Nat
        /\ asked[r.start] \in Sizes /\ r.len = ContiguousBits(asked[r.start])
    BY <1>1, BitsAssumption DEF UInv, SearchInv, BitmapTypeOK, Asks, Bit
  <2>2. b \in r.start .. r.start + Bits /\ b * MinBlock < r.start * MinBlock + asked[r.start]
    BY DEF RegionBlocks
  <2>3. b \in Nat /\ b - r.start \in Nat /\ MinBlock \in Nat /\ asked[r.start] \in Nat
    <3>1. MinBlock \in Nat /\ Sizes \subseteq Nat
      BY ArithAssumption, SizesAssumption DEF Register
    <3>2. asked[r.start] \in Nat
      BY <2>1, <3>1
    <3>3. b \in r.start .. r.start + Bits
      BY <2>2
    <3> QED BY <2>1, <3>1, <3>2, <3>3
  <2>4. (b - r.start) * MinBlock = b * MinBlock - r.start * MinBlock
    BY <2>1, <2>3, Z3
  <2>5. b * MinBlock \in Int /\ r.start * MinBlock \in Int
    BY <2>1, <2>3
  <2>6. (b - r.start) * MinBlock < asked[r.start]
    BY <2>2, <2>3, <2>4, <2>5
  <2>7. b - r.start < r.len
    BY <1>1, <2>1, <2>3, <2>6, BitsCover
  <2> QED BY <2>1, <2>2, <2>7 DEF Run
<1>2. UInv => RegionsSafe
  <2> SUFFICES ASSUME UInv, suited PROVE RegionsKept
    BY DEF RegionsSafe
  <2> DEFINE kept == {q \in runs : asked[q.start] <= Largest}
  <2>1. RunsDisjoint /\ BitmapExact
    BY DEF UInv, IInv
  <2>2. ASSUME NEW r \in kept
        PROVE  RegionBlocks(r.start) \subseteq Bit /\ \A b \in RegionBlocks(r.start) : alloc_bitmap[b]
    BY <1>1, <2>1 DEF RunsDisjoint, BitmapExact
  <2>3. ASSUME NEW r \in kept, NEW q \in kept, r.start # q.start
        PROVE  RegionBlocks(r.start) \cap RegionBlocks(q.start) = {}
    BY <1>1, <2>1, <2>3 DEF RunsDisjoint
  <2> HIDE DEF kept
  <2>4. RegionsKept <=>
          LET starts == {r.start : r \in kept} IN
          /\ \A s \in starts : /\ RegionBlocks(s) \subseteq Bit
                               /\ \A b \in RegionBlocks(s) : alloc_bitmap[b]
          /\ \A s, t \in starts : s # t => RegionBlocks(s) \cap RegionBlocks(t) = {}
    BY DEF RegionsKept, kept
  <2> QED BY <2>2, <2>3, <2>4
<1> QED BY <1>2, UMemInvariance, PTL
=============================================================================
