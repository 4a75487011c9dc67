---------------------------- MODULE KHeapProofs ----------------------------
(* The kernel heap's invariants, and that it implements Allocator, for every *)
(* heap size and every bound on requests.                                    *)
EXTENDS KHeap, TLAPS

(* The inductive invariant: the tiling, what the flags mean, and what each   *)
(* loop has established behind its current block.                            *)
IInv ==
  /\ TypeOK
  /\ Tiling
  /\ UsedIsOwned
  /\ NoFragments
  /\ Cover
  /\ Walk

(* kheap_init makes one free block of the whole heap.                        *)
LEMMA InitIInv == Init => IInv
<1> SUFFICES ASSUME Init PROVE IInv
  OBVIOUS
<1> USE HeapAssumption, NullAssumption
<1>1. mem[0] = [size |-> HeapWords - 1, used |-> FALSE] /\ NextOf(0) = HeapWords
  BY DEF Init, Words, NextOf
<1>2. mem[0] \in Headers
  BY <1>1 DEF Headers
<1>3. TypeOK
  BY <1>2 DEF Init, TypeOK, Words, Headers
<1>4. Tiling /\ UsedIsOwned /\ NoFragments /\ Cover /\ Walk
  BY <1>1, <1>2 DEF Init, Tiling, UsedIsOwned, NoFragments, Coalesced, Cover, Walk, Words
<1> QED
  BY <1>3, <1>4 DEF IInv

(* What a header holds.                                                      *)
LEMMA HeaderFacts ==
  ASSUME IInv, NEW a \in hdrs
  PROVE  /\ a \in Words /\ a \in Int
         /\ mem[a].size \in 0..HeapWords /\ mem[a].used \in BOOLEAN
         /\ mem[a].size \in Nat /\ NextOf(a) \in Int
         /\ mem[a] = [size |-> mem[a].size, used |-> mem[a].used]
         /\ NextOf(a) \in hdrs \cup {HeapWords}
         /\ NextOf(a) = a + 1 + mem[a].size
         /\ a < NextOf(a) /\ NextOf(a) <= HeapWords
         /\ \A b \in hdrs : b <= a \/ b >= NextOf(a)
<1>1. a \in Words /\ a \in Int /\ HeapWords \in Int
  BY HeapAssumption DEF IInv, TypeOK, Words
<1>2. mem[a] \in Headers
  BY DEF IInv, Tiling
<1>3. mem[a].size \in 0..HeapWords /\ mem[a].used \in BOOLEAN
  BY <1>2 DEF Headers
<1>4. mem[a] = [size |-> mem[a].size, used |-> mem[a].used]
  BY <1>2 DEF Headers
<1>5. NextOf(a) = a + 1 + mem[a].size
  BY DEF NextOf
<1>6. NextOf(a) \in hdrs \cup {HeapWords} /\ \A b \in hdrs : b <= a \/ b >= NextOf(a)
  BY DEF IInv, Tiling
<1>7. hdrs \subseteq Words
  BY DEF IInv, TypeOK
<1>8. a < NextOf(a) /\ NextOf(a) <= HeapWords
  BY <1>1, <1>3, <1>5, <1>6, <1>7 DEF Words
<1>9. mem[a].size \in Nat /\ NextOf(a) \in Int
  BY <1>1, <1>3, <1>5
<1> QED
  BY <1>1, <1>3, <1>4, <1>5, <1>6, <1>8, <1>9

(* Taking block cur leaves the other headers as they are.                    *)
LEMMA TakeKeepsOthers ==
  ASSUME IInv, MallocTake, NEW a \in hdrs, a # cur
  PROVE  mem'[a] = mem[a]
<1> USE HeapAssumption
<1>1. cur \in hdrs /\ cur \in Int /\ a \in Int /\ a \in Words /\ n \in Nat /\ mem[cur].size >= n
  BY DEF MallocTake, Fits, IInv, Walk, TypeOK, Words
<1>2. mem[cur].size \in Nat /\ (a <= cur \/ a >= cur + 1 + mem[cur].size)
  <2>1. NextOf(cur) = cur + 1 + mem[cur].size /\ mem[cur].size \in 0..HeapWords
    BY <1>1, HeaderFacts
  <2> QED BY <1>1, <2>1 DEF IInv, Tiling
<1>3. ASSUME NEW len \in Nat, len <= mem[cur].size
      PROVE  a \notin cur+1 .. cur+len
  BY <1>1, <1>2, <1>3
<1>4. CanSplit(cur) => a # cur + 1 + n
  BY <1>1, <1>2 DEF CanSplit
<1>5. mem'[a] = TakenMem(cur)[a]
  BY DEF MallocTake
<1> QED
  BY <1>1, <1>2, <1>3, <1>4, <1>5 DEF TakenMem

(* kmalloc takes block cur.  The rigid names c, k and z stand for the values *)
(* of cur, n and the block's size before the step.                           *)
LEMMA TakeIInv ==
  ASSUME IInv, MallocTake,
         NEW c, NEW k, NEW z, c = cur, k = n, z = mem[cur].size
  PROVE  IInv'
<1> USE HeapAssumption
<1> DEFINE split == z >= k + 2
           len == IF split THEN k ELSE z
           rest == c + 1 + k
<1>1. c \in hdrs /\ c \in Words /\ ~mem[c].used /\ z >= k /\ c \notin owned
  BY DEF MallocTake, IInv, Walk, TypeOK, UsedIsOwned, Fits
<1>2. k \in Nat /\ z \in Nat /\ k <= z /\ c + 1 + z <= HeapWords /\ NextOf(c) = c + 1 + z
  <2>1. k \in Nat
    BY DEF IInv, TypeOK
  <2>2. z \in 0..HeapWords /\ c + 1 + z <= HeapWords /\ NextOf(c) = c + 1 + z
    BY <1>1, HeaderFacts
  <2> QED BY <1>1, <2>1, <2>2
<1>3. len \in Nat /\ k <= len /\ len <= k + 1 /\ len <= z
  BY <1>2
<1>4. /\ HeapWords \in Int /\ c \in Int /\ hdrs \subseteq Int /\ hdrs \subseteq Words
      /\ \A b \in hdrs : b <= c \/ b >= c + 1 + z
  <2>1. HeapWords \in Int /\ hdrs \subseteq Words
    BY DEF IInv, TypeOK
  <2>2. \A b \in hdrs : b <= c \/ b >= c + 1 + z
    BY <1>1, <1>2 DEF IInv, Tiling
  <2> QED BY <1>1, <2>1, <2>2 DEF Words
<1>5. mem' = [w \in Words |->
                IF w = c THEN [size |-> len, used |-> TRUE]
                ELSE IF w \in c+1 .. c+len THEN Junk
                ELSE IF split /\ w = rest THEN [size |-> z - k - 1, used |-> FALSE]
                ELSE mem[w]]
  BY DEF MallocTake, TakenMem, CanSplit
<1>6. hdrs' = IF split THEN hdrs \cup {rest} ELSE hdrs
  BY DEF MallocTake, CanSplit
<1>7. mem'[c] = [size |-> len, used |-> TRUE] /\ NextOf(c)' = c + 1 + len
  BY <1>1, <1>5 DEF NextOf
<1>8. \A a \in hdrs : a # c => mem'[a] = mem[a] /\ NextOf(a)' = NextOf(a)
  <2> TAKE a \in hdrs
  <2> HAVE a # c
  <2>1. a \in Words /\ a \in Int /\ (a < c \/ a >= c + 1 + z)
    BY <1>4
  <2>2. a \notin c+1..c+len /\ ~(split /\ a = rest)
    BY <1>2, <1>3, <1>4, <2>1
  <2>3. mem'[a] = mem[a]
    BY <1>5, <2>1, <2>2
  <2> QED BY <2>3 DEF NextOf
<1>9. ASSUME split
      PROVE  /\ rest \in Words /\ rest \notin hdrs /\ c < rest /\ rest < c + 1 + z
             /\ mem'[rest] = [size |-> z - k - 1, used |-> FALSE]
             /\ z - k - 1 \in 0..HeapWords
             /\ NextOf(rest)' = NextOf(c) /\ NextOf(c)' = rest
  <2>1. rest \in Words /\ c < rest /\ rest < c + 1 + z /\ z - k - 1 \in 0..HeapWords
    BY <1>1, <1>2, <1>4, <1>9 DEF Words
  <2>2. rest \notin hdrs
    BY <1>2, <1>4, <2>1
  <2>3. rest \notin c+1..c+len /\ rest # c
    BY <1>2, <1>4, <1>9
  <2>4. mem'[rest] = [size |-> z - k - 1, used |-> FALSE]
    BY <1>5, <1>9, <2>1, <2>3
  <2>5. NextOf(rest)' = rest + 1 + (z - k - 1)
    BY <2>4 DEF NextOf
  <2> QED
    BY <1>2, <1>4, <1>7, <1>9, <2>1, <2>2, <2>4, <2>5
<1>10. ~split => NextOf(c)' = NextOf(c)
  BY <1>2, <1>7
<1> HIDE DEF split, len, rest
<1>11. \A a \in hdrs : Coalesced(a)
  BY DEF MallocTake, IInv, Walk
<1>12. /\ mem'[c] \in Headers
       /\ split => mem'[rest] \in Headers
  <2>1. len \in 0..HeapWords
    BY <1>1, <1>2, <1>3, <1>4 DEF Words
  <2>2. \A x \in 0..HeapWords, u \in BOOLEAN : [size |-> x, used |-> u] \in Headers
    BY DEF Headers
  <2> QED
    BY <1>7, <1>9, <2>1, <2>2
<1>13. TypeOK'
  <2>1. mem' \in [Words -> Headers \cup {Junk}]
    BY <1>5, <1>7, <1>9, <1>12 DEF IInv, TypeOK
  <2>2. hdrs' \in SUBSET Words
    BY <1>4, <1>6, <1>9
  <2> QED
    <3>1. 0 \in 0..HeapWords /\ 0 \in 0..MaxRequest
      OBVIOUS
    <3>2. want' \in [Words -> 0..MaxRequest] /\ owned' \in SUBSET Words /\ ret' \in Words \cup {Null}
      BY <1>1 DEF MallocTake, IInv, TypeOK
    <3>3. pc' = "idle" /\ n' = 0 /\ cur' = 0
      BY DEF MallocTake
    <3> QED
      BY <2>1, <2>2, <3>1, <3>2, <3>3 DEF TypeOK
<1>14. Tiling'
  <2>1. 0 \in hdrs'
    BY <1>6 DEF IInv, Tiling
  <2>2. ASSUME NEW a \in hdrs' PROVE mem'[a] \in Headers
    BY <1>6, <1>8, <1>12, <2>2 DEF IInv, Tiling
  <2>3. ASSUME NEW a \in hdrs' PROVE NextOf(a)' \in hdrs' \cup {HeapWords}
    BY <1>1, <1>6, <1>8, <1>9, <1>10, <2>3 DEF IInv, Tiling
  <2>4. ASSUME NEW a \in hdrs', NEW b \in hdrs' PROVE b <= a \/ b >= NextOf(a)'
    <3>1. \A x \in hdrs, y \in hdrs : y <= x \/ y >= NextOf(x)
      BY DEF IInv, Tiling
    <3>2. CASE a \in hdrs /\ b \in hdrs /\ a # c
      BY <1>8, <3>1, <3>2
    <3>3. CASE a = c /\ b \in hdrs
      BY <1>1, <1>2, <1>4, <1>9, <1>10, <3>1, <3>3 DEF Words
    <3>4. CASE split /\ a = c /\ b = rest
      BY <1>9, <3>4 DEF Words
    <3>5. CASE split /\ a = rest /\ b \in hdrs
      BY <1>1, <1>2, <1>4, <1>9, <3>1, <3>5 DEF Words
    <3>6. CASE split /\ a = rest /\ b = rest
      BY <1>9, <3>6 DEF Words
    <3>7. CASE split /\ a \in hdrs /\ a # c /\ b = rest
      <4>1. c <= a \/ c >= NextOf(a)
        BY <1>1, <3>1, <3>7
      <4>2. a <= c \/ a >= c + 1 + z
        BY <1>4, <3>7
      <4>3. NextOf(a) \in Int
        BY <1>4, <3>7, HeaderFacts
      <4> QED BY <1>2, <1>4, <1>8, <1>9, <3>7, <4>1, <4>2, <4>3 DEF Words
    <3> QED BY <1>6, <2>4, <3>2, <3>3, <3>4, <3>5, <3>6, <3>7
  <2> QED
    BY <2>1, <2>2, <2>3, <2>4 DEF Tiling
<1>15. UsedIsOwned'
  <2>1. owned' = owned \cup {c} /\ want'[c] = k /\ \A a \in Words : a # c => want'[a] = want[a]
    BY <1>1 DEF MallocTake, IInv, TypeOK
  <2>2. mem'[c].used /\ mem'[c].size >= k
    BY <1>2, <1>3, <1>7
  <2>3. split => ~mem'[rest].used /\ rest \notin owned' 
    BY <1>1, <1>9, <2>1 DEF IInv, UsedIsOwned
  <2> QED
    BY <1>1, <1>4, <1>6, <1>8, <2>1, <2>2, <2>3 DEF UsedIsOwned, IInv
<1>16. NoFragments'
  <2> SUFFICES ASSUME NEW a \in hdrs' PROVE Coalesced(a)'
    BY DEF NoFragments
  <2>1. CASE a = c
    BY <1>7, <2>1 DEF Coalesced
  <2>2. CASE a \in hdrs /\ a # c
    <3>1. Coalesced(a) /\ NextOf(a) \in hdrs \cup {HeapWords}
      BY <1>11, <2>2 DEF IInv, Tiling
    <3>2. mem'[c].used
      BY <1>7
    <3> QED
      BY <1>8, <2>2, <3>1, <3>2 DEF Coalesced
  <2>3. CASE split /\ a = rest
    <3>1. NextOf(c) < HeapWords => NextOf(c) \in hdrs /\ NextOf(c) # c /\ mem[NextOf(c)].used
      <4>1. NextOf(c) \in hdrs \cup {HeapWords} /\ Coalesced(c)
        BY <1>1, <1>11 DEF IInv, Tiling
      <4>2. NextOf(c) # c
        BY <1>2, <1>4
      <4> QED BY <1>1, <4>1, <4>2 DEF Coalesced
    <3> QED
      BY <1>8, <1>9, <2>3, <3>1 DEF Coalesced
  <2> QED BY <1>6, <2>1, <2>2, <2>3
<1>17. Cover'
  <2> SUFFICES ASSUME NEW w \in Words PROVE \E a \in hdrs' : a <= w /\ w < NextOf(a)'
    BY DEF Cover
  <2>1. PICK a \in hdrs : a <= w /\ w < NextOf(a)
    BY DEF IInv, Cover
  <2>2. CASE a # c \/ ~split
    BY <1>6, <1>8, <1>10, <2>1, <2>2
  <2>3. CASE a = c /\ split
    <3>1. c \in hdrs' /\ rest \in hdrs' /\ w \in Int /\ rest \in Int
      BY <1>1, <1>6, <1>9, <2>3 DEF Words
    <3> QED
      BY <1>9, <2>1, <2>3, <3>1
  <2> QED BY <2>2, <2>3
<1>18. Walk'
  BY DEF MallocTake, Walk
<1> QED
  BY <1>13, <1>14, <1>15, <1>16, <1>17, <1>18 DEF IInv

(* kfree merges block cur with its free right neighbour.                     *)
LEMMA MergeIInv ==
  ASSUME IInv, FreeMerge,
         NEW c, NEW d, NEW z, c = cur, d = NextOf(cur), z = mem[cur].size + 1 + mem[d].size
  PROVE  IInv'
<1> USE HeapAssumption
<1>1. c \in hdrs /\ d \in hdrs /\ d < HeapWords /\ ~mem[c].used /\ ~mem[d].used
  BY DEF FreeMerge, IInv, Walk, Tiling, BothFree
<1>2. HeapWords \in Int /\ hdrs \subseteq Words /\ c \in Int /\ d \in Int /\ c \in Words /\ d \in Words
  BY <1>1 DEF IInv, TypeOK, Words
<1>3. /\ mem[c].size \in Nat /\ mem[d].size \in Nat
      /\ d = c + 1 + mem[c].size /\ NextOf(d) = d + 1 + mem[d].size /\ NextOf(d) <= HeapWords
  <2>1. mem[c].size \in 0..HeapWords /\ NextOf(c) = c + 1 + mem[c].size
    BY <1>1, HeaderFacts
  <2>2. mem[d].size \in 0..HeapWords /\ NextOf(d) = d + 1 + mem[d].size /\ NextOf(d) <= HeapWords
    BY <1>1, HeaderFacts
  <2> QED BY <2>1, <2>2
<1>4. c < d /\ z \in 0..HeapWords /\ c + 1 + z = NextOf(d)
  BY <1>2, <1>3 DEF Words
<1>5. mem' = [mem EXCEPT ![c] = [size |-> z, used |-> FALSE]] /\ hdrs' = hdrs \ {d}
  BY DEF FreeMerge
<1>6. mem'[c] = [size |-> z, used |-> FALSE] /\ NextOf(c)' = NextOf(d)
  <2>1. mem'[c] = [size |-> z, used |-> FALSE]
    BY <1>2, <1>5 DEF IInv, TypeOK
  <2> QED BY <1>4, <2>1 DEF NextOf
<1>7. \A a \in hdrs : a # c => mem'[a] = mem[a] /\ NextOf(a)' = NextOf(a)
  BY <1>2, <1>5 DEF IInv, TypeOK, NextOf
<1>8. /\ \A x \in hdrs, y \in hdrs : y <= x \/ y >= NextOf(x)
      /\ \A x \in hdrs : NextOf(x) \in hdrs \cup {HeapWords} /\ NextOf(x) \in Int /\ x < NextOf(x)
  BY HeaderFacts, <1>2
<1>9. \A x \in hdrs : x # c => NextOf(x) # d
  <2> TAKE x \in hdrs
  <2> HAVE x # c
  <2>1. (x <= c \/ x >= NextOf(c)) /\ (c <= x \/ c >= NextOf(x)) /\ x \in Int
    BY <1>1, <1>2, <1>8
  <2>2. (d <= x \/ d >= NextOf(x)) /\ x < NextOf(x) /\ NextOf(x) \in Int
    BY <1>1, <1>8
  <2> QED BY <1>2, <1>4, <2>1, <2>2
<1>10. TypeOK'
  <2>1. mem' \in [Words -> Headers \cup {Junk}]
    <3>1. [size |-> z, used |-> FALSE] \in Headers
      BY <1>4 DEF Headers
    <3>2. \A w \in Words : w # c => mem'[w] = mem[w]
      BY <1>5 DEF IInv, TypeOK
    <3>3. DOMAIN mem' = Words /\ mem' = [w \in Words |-> mem'[w]]
      BY <1>5 DEF IInv, TypeOK
    <3> QED BY <1>6, <3>1, <3>2, <3>3 DEF IInv, TypeOK
  <2> QED
    BY <1>5, <2>1 DEF FreeMerge, IInv, TypeOK
<1>11. Tiling'
  <2>1. 0 \in hdrs'
    BY <1>2, <1>4, <1>5 DEF IInv, Tiling, Words
  <2>2. ASSUME NEW a \in hdrs' PROVE mem'[a] \in Headers
    <3>1. [size |-> z, used |-> FALSE] \in Headers
      BY <1>4 DEF Headers
    <3> QED BY <1>5, <1>6, <1>7, <2>2, <3>1 DEF IInv, Tiling
  <2>3. ASSUME NEW a \in hdrs' PROVE NextOf(a)' \in hdrs' \cup {HeapWords}
    <3>1. NextOf(d) # d
      BY <1>1, <1>2, <1>8
    <3> QED BY <1>1, <1>5, <1>6, <1>7, <1>8, <1>9, <2>3, <3>1
  <2>4. ASSUME NEW a \in hdrs', NEW b \in hdrs' PROVE b <= a \/ b >= NextOf(a)'
    <3>1. a \in hdrs /\ b \in hdrs /\ b # d
      BY <1>5, <2>4
    <3>2. CASE a # c
      BY <1>7, <1>8, <3>1, <3>2
    <3>3. CASE a = c
      <4>1. (b <= c \/ b >= d) /\ (b <= d \/ b >= NextOf(d)) /\ b \in Int /\ NextOf(d) \in Int
        BY <1>1, <1>2, <1>8, <3>1
      <4> QED BY <1>2, <1>6, <3>1, <3>3, <4>1
    <3> QED BY <3>2, <3>3
  <2> QED
    BY <2>1, <2>2, <2>3, <2>4 DEF Tiling
<1>12. UsedIsOwned'
  <2>1. owned' = owned /\ want' = want /\ c \notin owned /\ d \notin owned
    BY <1>1 DEF FreeMerge, IInv, UsedIsOwned
  <2>2. ~mem'[c].used
    BY <1>6
  <2> QED
    BY <1>5, <1>7, <2>1, <2>2 DEF UsedIsOwned, IInv
<1>13. NoFragments'
  BY DEF FreeMerge, NoFragments
<1>14. Cover'
  <2> SUFFICES ASSUME NEW w \in Words PROVE \E a \in hdrs' : a <= w /\ w < NextOf(a)'
    BY DEF Cover
  <2>1. PICK a \in hdrs : a <= w /\ w < NextOf(a)
    BY DEF IInv, Cover
  <2>2. CASE a # c /\ a # d
    BY <1>5, <1>7, <2>1, <2>2
  <2>3. CASE a = c \/ a = d
    <3>1. c \in hdrs' /\ w \in Int /\ NextOf(d) \in Int /\ d < NextOf(d)
      BY <1>1, <1>2, <1>4, <1>5, <1>8 DEF Words
    <3>2. c <= w /\ w < NextOf(d)
      BY <1>2, <1>4, <2>1, <2>3, <3>1
    <3> QED BY <1>6, <3>1, <3>2
  <2> QED BY <2>2, <2>3
<1>15. Walk'
  <2>1. pc' = "free" /\ cur' = c /\ c \in hdrs'
    BY <1>1, <1>2, <1>4, <1>5 DEF FreeMerge
  <2>2. ASSUME NEW a \in hdrs', a < c PROVE Coalesced(a)'
    <3>1. a \in hdrs /\ a # c /\ Coalesced(a) /\ NextOf(a)' = NextOf(a) /\ mem'[a] = mem[a]
      BY <1>2, <1>5, <1>7, <2>2 DEF IInv, Walk, FreeMerge
    <3>2. NextOf(a) \in hdrs \cup {HeapWords}
      BY <1>8, <3>1
    <3>3. CASE NextOf(a) = c
      BY <1>1, <3>1, <3>3 DEF Coalesced
    <3>4. CASE NextOf(a) # c
      BY <1>7, <3>1, <3>2, <3>4 DEF Coalesced
    <3> QED BY <3>3, <3>4
  <2> QED BY <2>1, <2>2 DEF Walk
<1> QED
  BY <1>10, <1>11, <1>12, <1>13, <1>14, <1>15 DEF IInv

(* kfree clears the used flag of block a and starts its walk.                *)
LEMMA FreeCallIInv ==
  ASSUME IInv, NEW a \in owned, FreeCall(a)
  PROVE  IInv'
<1> USE HeapAssumption
<1>1. a \in hdrs /\ a \in Words
  BY DEF IInv, UsedIsOwned, TypeOK
<1>2. mem' = [mem EXCEPT ![a].used = FALSE] /\ hdrs' = hdrs
  BY DEF FreeCall
<1>3. mem'[a] = [size |-> mem[a].size, used |-> FALSE]
  <2>1. mem[a] = [size |-> mem[a].size, used |-> mem[a].used]
    BY <1>1, HeaderFacts
  <2>2. mem'[a] = [mem[a] EXCEPT !.used = FALSE]
    BY <1>1, <1>2 DEF IInv, TypeOK
  <2> QED BY <2>1, <2>2
<1>4. \A w \in Words : w # a => mem'[w] = mem[w]
  BY <1>2 DEF IInv, TypeOK
<1>5. \A x \in hdrs : NextOf(x)' = NextOf(x)
  BY <1>1, <1>3, <1>4 DEF NextOf, IInv, TypeOK
<1>6. mem'[a] \in Headers
  <2>1. mem[a].size \in 0..HeapWords
    BY <1>1, HeaderFacts
  <2> QED BY <1>3, <2>1 DEF Headers
<1>7. TypeOK'
  <2>1. mem' \in [Words -> Headers \cup {Junk}]
    <3>1. DOMAIN mem' = Words /\ mem' = [w \in Words |-> mem'[w]]
      BY <1>2 DEF IInv, TypeOK
    <3> QED BY <1>4, <1>6, <3>1 DEF IInv, TypeOK
  <2>2. want' \in [Words -> 0..MaxRequest] /\ owned' \in SUBSET Words
    BY <1>1 DEF FreeCall, IInv, TypeOK
  <2>3. pc' = "free" /\ cur' = 0 /\ 0 \in 0..HeapWords /\ UNCHANGED <<n, ret, hdrs>>
    BY DEF FreeCall
  <2> QED BY <2>1, <2>2, <2>3 DEF IInv, TypeOK
<1>8. Tiling'
  <2>1. \A x \in hdrs : mem'[x] \in Headers
    BY <1>4, <1>6 DEF IInv, TypeOK, Tiling
  <2> QED BY <1>2, <1>5, <2>1 DEF IInv, Tiling
<1>9. UsedIsOwned'
  <2>1. owned' = owned \ {a} /\ ~mem'[a].used /\ \A x \in Words : x # a => want'[x] = want[x]
    BY <1>3 DEF FreeCall, IInv, TypeOK
  <2> QED
    BY <1>1, <1>2, <1>4, <2>1 DEF IInv, UsedIsOwned, TypeOK
<1>10. NoFragments' /\ Walk'
  BY <1>2 DEF FreeCall, NoFragments, Walk, IInv, Tiling, TypeOK, Words
<1>11. Cover'
  BY <1>2, <1>5 DEF IInv, Cover
<1> QED
  BY <1>7, <1>8, <1>9, <1>10, <1>11 DEF IInv

(* Every call and every turn of a loop keeps the inductive invariant.        *)
LEMMA StepIInv == IInv /\ [Next]_vars => IInv'
<1> SUFFICES ASSUME IInv, [Next]_vars PROVE IInv'
  OBVIOUS
<1> USE HeapAssumption
<1>1. ASSUME NEW k \in 0..MaxRequest, MallocCall(k) PROVE IInv'
  <2>1. pc' = "malloc" /\ n' = k /\ cur' = 0 /\ UNCHANGED <<mem, ret, hdrs, owned, want>> /\ pc = "idle"
    BY <1>1 DEF MallocCall
  <2>2. TypeOK' /\ Tiling' /\ UsedIsOwned' /\ NoFragments' /\ Cover'
    BY <2>1 DEF IInv, TypeOK, Tiling, UsedIsOwned, NoFragments, Cover, NextOf
  <2>3. Walk'
    BY <2>1 DEF IInv, Walk, Coalesced, NextOf, NoFragments, Tiling, TypeOK, Words
  <2> QED BY <2>2, <2>3 DEF IInv
<1>2. CASE MallocSkip
  <2>1. /\ pc' = "malloc" /\ pc = "malloc" /\ cur' = NextOf(cur) /\ ~Fits(cur) /\ cur < HeapWords
        /\ UNCHANGED <<mem, n, ret, hdrs, owned, want>>
    BY <1>2 DEF MallocSkip
  <2>2. cur \in hdrs
    BY <2>1 DEF IInv, Walk
  <2>3. /\ NextOf(cur) \in hdrs \cup {HeapWords} /\ NextOf(cur) \in 0..HeapWords
        /\ \A b \in hdrs : b \in Int /\ (b <= cur \/ b >= NextOf(cur))
    <3>1. NextOf(cur) \in hdrs \cup {HeapWords} /\ \A b \in hdrs : b <= cur \/ b >= NextOf(cur)
      BY <2>2 DEF IInv, Tiling
    <3>2. \A b \in hdrs \cup {HeapWords} : b \in Int /\ b \in 0..HeapWords
      BY DEF IInv, TypeOK, Words
    <3> QED BY <3>1, <3>2
  <2>4. TypeOK' /\ Tiling' /\ UsedIsOwned' /\ NoFragments' /\ Cover'
    BY <2>1, <2>3 DEF IInv, TypeOK, Tiling, UsedIsOwned, NoFragments, Cover, NextOf
  <2>5. \A a \in hdrs : a < NextOf(cur) => a < cur \/ a = cur
    BY <2>2, <2>3
  <2>6. Walk'
    BY <2>1, <2>3, <2>5 DEF IInv, Walk, Coalesced, NextOf, Fits
  <2> QED BY <2>4, <2>6 DEF IInv
<1>3. CASE MallocTake
  BY <1>3, TakeIInv
<1>4. CASE MallocFail
  BY <1>4 DEF MallocFail, IInv, TypeOK, Tiling, UsedIsOwned, NoFragments, Coalesced, Cover, NextOf, Walk
<1>5. ASSUME NEW a \in owned, FreeCall(a) PROVE IInv'
  BY <1>5, FreeCallIInv
<1>6. CASE FreeMerge
  BY <1>6, MergeIInv
<1>7. CASE FreeSkip
  <2>1. /\ pc' = "free" /\ pc = "free" /\ cur' = NextOf(cur) /\ ~BothFree(cur) /\ NextOf(cur) < HeapWords
        /\ UNCHANGED <<mem, n, ret, hdrs, owned, want>>
    BY <1>7 DEF FreeSkip
  <2>2. cur \in hdrs
    BY <2>1 DEF IInv, Walk
  <2>3. /\ NextOf(cur) \in hdrs /\ NextOf(cur) \in 0..HeapWords
        /\ \A b \in hdrs : b \in Int /\ (b <= cur \/ b >= NextOf(cur))
    <3>1. NextOf(cur) \in hdrs \cup {HeapWords} /\ \A b \in hdrs : b <= cur \/ b >= NextOf(cur)
      BY <2>2 DEF IInv, Tiling
    <3>2. \A b \in hdrs \cup {HeapWords} : b \in Int /\ b \in 0..HeapWords
      BY DEF IInv, TypeOK, Words
    <3> QED BY <2>1, <3>1, <3>2
  <2>4. TypeOK' /\ Tiling' /\ UsedIsOwned' /\ NoFragments' /\ Cover'
    BY <2>1, <2>3 DEF IInv, TypeOK, Tiling, UsedIsOwned, NoFragments, Cover, NextOf
  <2>5. \A a \in hdrs : a < NextOf(cur) => a < cur \/ a = cur
    BY <2>2, <2>3
  <2>6. Coalesced(cur)
    BY <2>1 DEF Coalesced, BothFree
  <2>7. \A a \in hdrs : a < cur => Coalesced(a)
    BY <2>1 DEF IInv, Walk
  <2>8. Walk'
    BY <2>1, <2>3, <2>5, <2>6, <2>7 DEF Walk, Coalesced, NextOf
  <2> QED BY <2>4, <2>8 DEF IInv
<1>8. CASE FreeStop
  <2>1. /\ pc' = "idle" /\ pc = "free" /\ cur' = 0 /\ NextOf(cur) >= HeapWords
        /\ UNCHANGED <<mem, n, ret, hdrs, owned, want>>
    BY <1>8 DEF FreeStop
  <2>2. TypeOK' /\ Tiling' /\ UsedIsOwned' /\ Cover' /\ Walk'
    BY <2>1 DEF IInv, TypeOK, Tiling, UsedIsOwned, Cover, NextOf, Walk
  <2>3. cur \in hdrs /\ \A a \in hdrs : a < cur => Coalesced(a)
    BY <2>1 DEF IInv, Walk
  <2>4. \A a \in hdrs : a \in Int /\ a < HeapWords /\ (a <= cur \/ a >= NextOf(cur))
    BY <2>3 DEF IInv, Tiling, TypeOK, Words
  <2>5. NextOf(cur) \in Int /\ cur \in Int
    <3>1. \A b \in hdrs \cup {HeapWords} : b \in Int
      BY DEF IInv, TypeOK, Words
    <3>2. NextOf(cur) \in hdrs \cup {HeapWords}
      BY <2>3 DEF IInv, Tiling
    <3> QED BY <2>3, <3>1, <3>2
  <2>6. \A a \in hdrs : a < cur \/ a = cur
    BY <2>1, <2>4, <2>5
  <2>7. \A a \in hdrs : Coalesced(a)
    BY <2>1, <2>3, <2>5, <2>6 DEF Coalesced
  <2>8. NoFragments'
    BY <2>1, <2>7 DEF NoFragments, Coalesced, NextOf
  <2> QED BY <2>2, <2>8 DEF IInv
<1>9. CASE UNCHANGED vars
  BY <1>9 DEF vars, IInv, TypeOK, Tiling, UsedIsOwned, NoFragments, Coalesced, Cover, NextOf, Walk, Fits
<1> QED
  BY <1>1, <1>2, <1>3, <1>4, <1>5, <1>6, <1>7, <1>8, <1>9 DEF Next, Step

(* Every reachable state satisfies the inductive invariant.                  *)
THEOREM Invariance == Spec => []IInv
BY InitIInv, StepIInv, PTL DEF Spec

(* The words of the heap and the locals of the calls keep their types.       *)
THEOREM TypeCorrect == Spec => []TypeOK
BY Invariance, PTL DEF IInv

(* The blocks tile the heap in every reachable state.                        *)
THEOREM HeapTiled == Spec => []Tiling
BY Invariance, PTL DEF IInv

(* A block is marked used exactly while somebody owns it.                    *)
THEOREM FlagsRight == Spec => []UsedIsOwned
BY Invariance, PTL DEF IInv

(* kfree leaves no two adjacent free blocks behind.                          *)
THEOREM FullyCoalesced == Spec => []NoFragments
BY Invariance, PTL DEF IInv

(* One step leaves every block that stays owned as it is.                    *)
LEMMA OwnedKept ==
  ASSUME IInv, Next, NEW a \in owned, a \in owned'
  PROVE  mem'[a] = mem[a] /\ want'[a] = want[a]
<1>1. a \in hdrs /\ a \in Words /\ mem[a].used
  BY DEF IInv, UsedIsOwned, TypeOK
<1>2. ASSUME NEW k \in 0..MaxRequest, MallocCall(k) PROVE mem'[a] = mem[a] /\ want'[a] = want[a]
  BY <1>2 DEF MallocCall
<1>3. CASE MallocTake
  <2>1. cur \in hdrs /\ ~mem[cur].used /\ cur # a
    BY <1>1, <1>3, HeapAssumption DEF MallocTake, Fits, IInv, Walk, TypeOK
  <2>2. mem'[a] = mem[a]
    BY <1>1, <1>3, <2>1, TakeKeepsOthers
  <2> QED BY <1>1, <1>3, <2>1, <2>2 DEF MallocTake, IInv, TypeOK
<1>4. ASSUME NEW b \in owned, FreeCall(b) PROVE mem'[a] = mem[a] /\ want'[a] = want[a]
  BY <1>1, <1>4 DEF FreeCall, IInv, TypeOK
<1>5. CASE FreeMerge
  <2>1. cur # a
    BY <1>1, <1>5 DEF FreeMerge, BothFree
  <2> QED BY <1>1, <1>5, <2>1 DEF FreeMerge, IInv, TypeOK
<1>6. CASE MallocSkip \/ MallocFail \/ FreeSkip \/ FreeStop
  BY <1>6 DEF MallocSkip, MallocFail, FreeSkip, FreeStop
<1> QED BY <1>2, <1>3, <1>4, <1>5, <1>6 DEF Next, Step

(* No call moves or resizes a block that is owned before and after it.       *)
THEOREM OwnersUndisturbed == Spec => OwnedUntouched
<1>1. IInv /\ [Next]_vars =>
        [\A a \in owned : a \in owned' => mem'[a] = mem[a] /\ want'[a] = want[a]]_vars
  BY OwnedKept
<1> QED
  BY <1>1, Invariance, PTL DEF Spec, OwnedUntouched

(* A successful kmalloc is an allocation of Allocator.                       *)
LEMMA TakeIsAlloc ==
  ASSUME IInv, MallocTake, NEW c, NEW k, NEW z, c = cur, k = n, z = mem[cur].size
  PROVE  Abstract!Alloc(k)
<1> USE HeapAssumption
<1> DEFINE len == IF z >= k + 2 THEN k ELSE z
<1>1. c \in hdrs /\ c \in Words /\ ~mem[c].used /\ z >= k /\ c \notin owned /\ owned \subseteq hdrs
  BY DEF MallocTake, IInv, Walk, TypeOK, UsedIsOwned, Fits
<1>2. k \in Nat /\ z \in Nat /\ c + 1 + z <= HeapWords /\ NextOf(c) = c + 1 + z /\ c \in Int /\ HeapWords \in Int
  <2>1. z \in 0..HeapWords /\ c + 1 + z <= HeapWords /\ NextOf(c) = c + 1 + z
    BY <1>1, HeaderFacts
  <2> QED BY <1>1, <2>1 DEF IInv, TypeOK, Words
<1>3. len \in k..k+1 /\ c + len < HeapWords /\ len <= z
  BY <1>2, <1>1
<1>4. \A x \in owned : x \in Int /\ mem[x].size \in Nat /\ (x + mem[x].size < c \/ x > c + z)
  <2> TAKE x \in owned
  <2>1. x \in hdrs /\ x # c /\ x \in Int
    BY <1>1 DEF IInv, TypeOK, Words
  <2>2. mem[x].size \in 0..HeapWords /\ NextOf(x) = x + 1 + mem[x].size
    BY <2>1, HeaderFacts
  <2>3. (x <= c \/ x >= NextOf(c)) /\ (c <= x \/ c >= NextOf(x))
    BY <1>1, <2>1 DEF IInv, Tiling
  <2> QED BY <1>2, <2>1, <2>2, <2>3
<1>5. mem'[c].size = len /\ owned' = owned \cup {c} /\ ret' = c
  BY <1>1 DEF MallocTake, TakenMem, CanSplit
<1>6. \A x \in owned : mem'[x].size = mem[x].size
  BY <1>1, TakeKeepsOthers
<1> HIDE DEF len
<1>7. Abstract!FreeRun(c, c + len)
  <2> SUFFICES ASSUME NEW x \in owned
               PROVE  (c .. c + len) \cap (x .. x + mem[x].size) = {}
    BY DEF Abstract!FreeRun, Abstract!Extent
  <2>1. len \in Int
    BY <1>2, <1>3
  <2> QED BY <1>2, <1>3, <1>4, <2>1
<1>8. c \in 0..HeapWords-1
  BY <1>1 DEF Words
<1>9. [a \in owned' |-> mem'[a].size]
        = [x \in owned \cup {c} |-> IF x = c THEN len ELSE [a \in owned |-> mem[a].size][x]]
  BY <1>1, <1>5, <1>6
<1> QED
  BY <1>3, <1>5, <1>7, <1>8, <1>9 DEF Abstract!Alloc

(* kmalloc returns NULL only when no run of free words would do: a run lies  *)
(* in one free block, because the blocks behind the walk are coalesced.      *)
LEMMA FailIsFail ==
  ASSUME IInv, MallocFail
  PROVE  Abstract!Fail(n)
<1> USE HeapAssumption
<1>1. n \in Nat /\ HeapWords \in Int
  BY DEF IInv, TypeOK
<1>2. \A a \in hdrs : a \in Int /\ Coalesced(a) /\ (mem[a].used \/ mem[a].size < n)
  <2> TAKE a \in hdrs
  <2>1. pc = "malloc" /\ cur >= HeapWords /\ cur \in hdrs \cup {HeapWords}
    BY DEF MallocFail, IInv, Walk
  <2>2. a \in Int /\ a < HeapWords /\ mem[a].size \in Nat /\ cur \in Int
    <3>1. a \in Words /\ a \in Int /\ mem[a].size \in Nat
      BY HeaderFacts
    <3>2. cur \in Int
      BY DEF IInv, TypeOK
    <3> QED BY <3>1, <3>2 DEF Words
  <2>3. a < cur
    BY <1>1, <2>1, <2>2
  <2>4. ~Fits(a) /\ Coalesced(a)
    BY <2>1, <2>3 DEF IInv, Walk
  <2> QED BY <1>1, <2>2, <2>4 DEF Fits
<1>3. ASSUME NEW b \in 0..HeapWords-1-n, Abstract!FreeRun(b, b + n)
      PROVE  FALSE
  <2>1. b \in Words /\ b \in Int
    BY <1>1, <1>3 DEF Words
  <2>2. \A x \in owned : (b .. b + n) \cap (x .. x + mem[x].size) = {}
    BY <1>3 DEF Abstract!FreeRun, Abstract!Extent
  <2>3. PICK a \in hdrs : a <= b /\ b < NextOf(a)
    BY <2>1 DEF IInv, Cover
  <2>4. /\ NextOf(a) = a + 1 + mem[a].size /\ mem[a].size \in Nat /\ a \in Int
        /\ NextOf(a) \in hdrs \cup {HeapWords}
    BY <2>3, HeaderFacts
  <2>5. ~mem[a].used
    <3>1. SUFFICES ASSUME a \in owned PROVE FALSE
      BY <2>3 DEF IInv, UsedIsOwned
    <3>2. b \in b .. b + n /\ b \in a .. a + mem[a].size
      BY <1>1, <2>1, <2>3, <2>4
    <3> QED BY <2>2, <3>1, <3>2
  <2>6. NextOf(a) <= b + n /\ NextOf(a) < HeapWords
    BY <1>1, <1>2, <1>3, <2>1, <2>3, <2>4, <2>5
  <2>7. NextOf(a) \in hdrs /\ mem[NextOf(a)].used
    BY <1>1, <1>2, <2>3, <2>4, <2>5, <2>6 DEF Coalesced
  <2>8. NextOf(a) \in owned
    BY <2>7 DEF IInv, UsedIsOwned
  <2>9. mem[NextOf(a)].size \in Nat /\ NextOf(a) \in Int
    BY <2>4, <2>7, HeaderFacts
  <2>10. NextOf(a) \in b .. b + n /\ NextOf(a) \in NextOf(a) .. NextOf(a) + mem[NextOf(a)].size
    BY <1>1, <2>1, <2>3, <2>6, <2>9
  <2> QED BY <2>2, <2>8, <2>10
<1>4. ret' = Null /\ [a \in owned' |-> mem'[a].size] = [a \in owned |-> mem[a].size]
  BY DEF MallocFail
<1> QED
  BY <1>3, <1>4 DEF Abstract!Fail

(* The heap implements Allocator.                                            *)
THEOREM ImplementsAllocator == Spec => Refinement
<1>1. Init => Abstract!Init
  BY DEF Init, Abstract!Init
<1>2. IInv /\ [Next]_vars => [Abstract!Next]_Abstract!vars
  <2> SUFFICES ASSUME IInv, Next PROVE Abstract!Next \/ UNCHANGED Abstract!vars
    BY DEF vars, Abstract!vars
  <2>1. CASE MallocTake
    BY <2>1, TakeIsAlloc DEF Abstract!Next, IInv, TypeOK
  <2>2. CASE MallocFail
    BY <2>2, FailIsFail DEF Abstract!Next, IInv, TypeOK
  <2>3. ASSUME NEW a \in owned, FreeCall(a) PROVE Abstract!Next
    <3>1. owned' = owned \ {a} /\ ret' = ret
      BY <2>3 DEF FreeCall
    <3>2. \A x \in owned' : mem'[x].size = mem[x].size
      BY <3>1, OwnedKept
    <3>3. Abstract!Free(a)
      BY <3>1, <3>2 DEF Abstract!Free
    <3> QED BY <3>3 DEF Abstract!Next
  <2>4. ASSUME owned' = owned, ret' = ret PROVE UNCHANGED Abstract!vars
    <3>1. \A x \in owned : mem'[x].size = mem[x].size
      BY <2>4, OwnedKept
    <3> QED BY <2>4, <3>1 DEF Abstract!vars
  <2>5. ASSUME NEW k \in 0..MaxRequest, MallocCall(k) PROVE owned' = owned /\ ret' = ret
    BY <2>5 DEF MallocCall
  <2>6. CASE MallocSkip \/ FreeMerge \/ FreeSkip \/ FreeStop
    BY <2>4, <2>6 DEF MallocSkip, FreeMerge, FreeSkip, FreeStop
  <2> QED
    BY <2>1, <2>2, <2>3, <2>4, <2>5, <2>6 DEF Next, Step
<1> QED
  BY <1>1, <1>2, Invariance, PTL DEF Spec, Refinement, Abstract!Spec
=============================================================================
