---------------------------- MODULE FsOpenProofs ----------------------------
(* The path walk of fs_open.c against the meaning of a lookup, for every     *)
(* volume, path and number of directories, clusters, sectors and entries.    *)
EXTENDS FsOpen, WellFoundedInduction, TLAPS

-----------------------------------------------------------------------------
(* Every set of numbers has a least one.                                     *)
LEMMA LeastNumber ==
  ASSUME NEW T \in SUBSET Nat, T # {}
  PROVE  \E m \in T : \A n \in T : m <= n
<1> DEFINE R == {ss \in Nat \X Nat : ss[1] < ss[2]}
<1>1. IsWellFoundedOn(R, Nat)
  BY NatLessThanWellFounded DEF OpToRel
<1>2. \A n, m \in Nat : n < m => <<n, m>> \in R
  OBVIOUS
<1> HIDE DEF R
<1>3. PICK m \in T : \A n \in T : ~(<<n, m>> \in R)
  BY <1>1, WFMin
<1>4. \A n \in T : ~(n < m)
  BY <1>2, <1>3
<1> QED BY <1>3, <1>4

(* The entry at which the scan of a sector ends is the first that stops it.  *)
StopsOf(es, name) == {n \in 1 .. Len(es) : Stops(es[n], name)}

LEMMA FirstStop ==
  ASSUME NEW S, NEW es \in Seq(S), NEW name, NEW i,
         i = IF StopsOf(es, name) # {} THEN Min(StopsOf(es, name)) ELSE 0
  PROVE  /\ i = 0 => \A n \in 1 .. Len(es) : ~Stops(es[n], name)
         /\ i # 0 => /\ i \in 1 .. Len(es) /\ Stops(es[i], name)
                     /\ \A n \in 1 .. i - 1 : ~Stops(es[n], name)
<1> DEFINE I == {n \in 1 .. Len(es) : Stops(es[n], name)}
<1>1. i = IF I # {} THEN CHOOSE x \in I : \A y \in I : x <= y ELSE 0
  BY DEF StopsOf, Min
<1>2. Len(es) \in Nat /\ I \in SUBSET Nat
  OBVIOUS
<1> DEFINE Result ==
             /\ i = 0 => \A n \in 1 .. Len(es) : ~Stops(es[n], name)
             /\ i # 0 => /\ i \in 1 .. Len(es) /\ Stops(es[i], name)
                         /\ \A n \in 1 .. i - 1 : ~Stops(es[n], name)
<1>3. ASSUME I = {} PROVE Result
  <2>1. i = 0 /\ \A n \in 1 .. Len(es) : ~Stops(es[n], name)
    BY <1>1, <1>3
  <2> QED BY <2>1
<1>4. ASSUME I # {} PROVE Result
  <2>1. \E m \in I : \A n \in I : m <= n
    BY <1>2, <1>4, LeastNumber
  <2>2. i \in I /\ \A n \in I : i <= n
    BY <1>1, <1>4, <2>1
  <2>3. i \in 1 .. Len(es) /\ Stops(es[i], name)
    BY <2>2
  <2>4. \A n \in 1 .. i - 1 : ~Stops(es[n], name)
    BY <1>2, <2>2, <2>3
  <2>5. i # 0
    BY <1>2, <2>3
  <2> QED BY <2>3, <2>4, <2>5
<1>5. Result
  BY <1>3, <1>4
<1> QED BY <1>5

-----------------------------------------------------------------------------
(* The recurrence that Trail solves.                                         *)
Next(e, name) == IF e = NoEntry THEN NoEntry ELSE LookUp(e.cluster, name)
DirOf(c) == [NoEntry EXCEPT !.kind = "dir", !.cluster = c]

(* Trail is the function that starts at the directory and looks up each name. *)
LEMMA TrailSteps ==
  ASSUME NEW dir, NEW names, Len(names) \in Nat
  PROVE  LET t == Trail(dir, names)
         IN  /\ t[0] = DirOf(dir)
             /\ \A k \in 1 .. Len(names) : t[k] = Next(t[k - 1], names[k])
<1> DEFINE F(g, n) == [k \in 0 .. n |-> IF k = 0 THEN DirOf(dir) ELSE Next(g[k - 1], names[k])]
           Good(n) == \E g : g = F(g, n)
           Bad == {n \in Nat : ~Good(n)}
<1>1. Bad = {}
  <2> SUFFICES ASSUME Bad # {} PROVE FALSE
    OBVIOUS
  <2>1. PICK m \in Bad : \A n \in Bad : m <= n
    <3>1. Bad \in SUBSET Nat
      OBVIOUS
    <3> QED BY <3>1, LeastNumber
  <2>2. m # 0
    <3>1. ASSUME m = 0 PROVE FALSE
      <4> DEFINE g == [k \in 0 .. 0 |-> DirOf(dir)]
      <4>1. g = F(g, 0)
        OBVIOUS
      <4> QED BY <2>1, <3>1, <4>1
    <3> QED BY <3>1
  <2>3. m \in Nat /\ m - 1 \in Nat /\ ~Good(m) /\ m - 1 \notin Bad
    <3> HIDE DEF Good
    <3>1. m \in Nat /\ ~Good(m)
      OBVIOUS
    <3> HIDE DEF Bad
    <3>2. m - 1 \in Nat /\ ~(m <= m - 1)
      BY <2>2, <3>1
    <3> QED BY <2>1, <3>1, <3>2
  <2>4. PICK g : g = F(g, m - 1)
    BY <2>3
  <2> DEFINE h == [k \in 0 .. m |-> IF k < m THEN g[k] ELSE Next(g[m - 1], names[m])]
  <2>5. \A k \in 0 .. m - 1 : h[k] = g[k]
    BY <2>3
  <2>6. \A k \in 0 .. m - 1 : g[k] = IF k = 0 THEN DirOf(dir) ELSE Next(g[k - 1], names[k])
    BY <2>4
  <2>7. \A k \in 0 .. m : h[k] = IF k = 0 THEN DirOf(dir) ELSE Next(h[k - 1], names[k])
    <3> SUFFICES ASSUME NEW k \in 0 .. m PROVE h[k] = IF k = 0 THEN DirOf(dir) ELSE Next(h[k - 1], names[k])
      OBVIOUS
    <3>1. CASE k = m
      <4>1. h[k] = Next(g[m - 1], names[m]) /\ h[k - 1] = g[k - 1] /\ k # 0
        BY <2>3, <2>5, <3>1
      <4> QED BY <3>1, <4>1
    <3>2. CASE k = 0
      BY <2>3, <2>5, <2>6, <3>2
    <3>3. CASE k # m /\ k # 0
      <4>1. h[k] = g[k] /\ h[k - 1] = g[k - 1] /\ k \in 0 .. m - 1
        BY <2>3, <2>5, <3>3
      <4> QED BY <2>6, <3>3, <4>1
    <3> QED BY <3>1, <3>2, <3>3
  <2>8. h = F(h, m)
    <3>1. h = [k \in 0 .. m |-> h[k]]
      OBVIOUS
    <3> HIDE DEF h
    <3> QED BY <2>7, <3>1
  <2> QED BY <2>3, <2>8
<1>2. Good(Len(names))
  BY <1>1
<1> DEFINE t == Trail(dir, names)
<1>3. t = F(t, Len(names))
  BY <1>2 DEF Trail, Next, DirOf
<1>4. \A k \in 0 .. Len(names) : t[k] = IF k = 0 THEN DirOf(dir) ELSE Next(t[k - 1], names[k])
  <2> HIDE DEF t
  <2> QED BY <1>3
<1> HIDE DEF t
<1>5. t[0] = DirOf(dir) /\ \A k \in 1 .. Len(names) : t[k] = Next(t[k - 1], names[k])
  BY <1>4
<1> QED BY <1>5 DEF t

(* Behind an entry that is missing, the trail leads nowhere.                 *)
LEMMA TrailEnds ==
  ASSUME NEW dir, NEW names, Len(names) \in Nat, NEW d \in 0 .. Len(names),
         Trail(dir, names)[d] = NoEntry
  PROVE  Trail(dir, names)[Len(names)] = NoEntry
<1> DEFINE t == Trail(dir, names)
           Bad == {k \in Nat : d <= k /\ k <= Len(names) /\ t[k] # NoEntry}
<1>1. \A k \in 1 .. Len(names) : t[k] = Next(t[k - 1], names[k])
  BY TrailSteps
<1>2. t[d] = NoEntry
  OBVIOUS
<1> HIDE DEF t
<1>3. Bad = {}
  <2> SUFFICES ASSUME Bad # {} PROVE FALSE
    OBVIOUS
  <2>1. PICK m \in Bad : \A n \in Bad : m <= n
    <3>1. Bad \in SUBSET Nat
      OBVIOUS
    <3> QED BY <3>1, LeastNumber
  <2>2. m \in Nat /\ d <= m /\ m <= Len(names) /\ t[m] # NoEntry
    OBVIOUS
  <2>3. d < m /\ m \in 1 .. Len(names) /\ m - 1 \in Nat
    BY <1>2, <2>2
  <2>4. m - 1 \notin Bad
    BY <2>1, <2>3
  <2>5. t[m - 1] = NoEntry
    BY <2>2, <2>3, <2>4
  <2> QED BY <1>1, <2>2, <2>3, <2>5 DEF Next
<1>4. Len(names) \notin Bad /\ d <= Len(names)
  BY <1>3
<1> QED BY <1>4 DEF t

-----------------------------------------------------------------------------
(* The volume is one of those described by OpenAssumption.                   *)
Volume == \E d \in Disks : fat = d.fat /\ disk = d.entries /\ chains = d.chain

Usable == {e \in Entry : e.kind \in {"file", "dir"} => e.cluster \in ClusterOrNone}

(* A chain starts at its cluster and is linked by the FAT up to an end mark. *)
LEMMA ChainFacts ==
  ASSUME Volume, NEW c \in ClusterOrNone
  PROVE  /\ chains[c] \in Seq(ClusterOrNone) /\ Len(chains[c]) \in Nat \ {0} /\ chains[c][1] = c
         /\ \A k \in 1 .. Len(chains[c]) :
              /\ chains[c][k] \in ClusterOrNone
              /\ k < Len(chains[c]) => fat[chains[c][k]] = chains[c][k + 1] /\ ~EndOfChain(chains[c][k + 1])
              /\ k = Len(chains[c]) => EndOfChain(fat[chains[c][k]])
<1>1. PICK d \in Disks : fat = d.fat /\ disk = d.entries /\ chains = d.chain
  BY DEF Volume
<1>2. /\ d.chain[c] \in Seq(ClusterOrNone) /\ Len(d.chain[c]) > 0 /\ d.chain[c][1] = c
      /\ \A k \in 1 .. Len(d.chain[c]) :
           IF k < Len(d.chain[c])
           THEN d.fat[d.chain[c][k]] = d.chain[c][k + 1] /\ d.chain[c][k + 1] \in Cluster
           ELSE EndOfChain(d.fat[d.chain[c][k]])
  BY OpenAssumption
<1>3. \A n \in Cluster : ~EndOfChain(n)
  BY FatAssumption DEF EndOfChain
<1>4. chains[c] \in Seq(ClusterOrNone) /\ Len(chains[c]) \in Nat \ {0} /\ chains[c][1] = c
  BY <1>1, <1>2
<1>5. ASSUME NEW k \in 1 .. Len(chains[c])
      PROVE  /\ chains[c][k] \in ClusterOrNone
             /\ k < Len(chains[c]) => fat[chains[c][k]] = chains[c][k + 1] /\ ~EndOfChain(chains[c][k + 1])
             /\ k = Len(chains[c]) => EndOfChain(fat[chains[c][k]])
  <2>1. chains[c][k] \in ClusterOrNone
    BY <1>4
  <2>2. CASE k < Len(chains[c])
    BY <1>1, <1>2, <1>3, <1>4, <2>1, <2>2
  <2>3. CASE k = Len(chains[c])
    BY <1>1, <1>2, <1>4, <2>1, <2>3
  <2> QED BY <1>4, <2>1, <2>2, <2>3
<1> QED BY <1>4, <1>5

(* A sector of a directory holds entries.                                    *)
LEMMA SectorFacts ==
  ASSUME Volume, NEW c \in ClusterOrNone, NEW k \in 1 .. Len(chains[c]), NEW s \in 0 .. SectorsPerCluster - 1
  PROVE  Sector(c, k, s) \in Seq(Usable)
<1>1. chains[c][k] \in ClusterOrNone
  BY ChainFacts
<1>2. PICK d \in Disks : fat = d.fat /\ disk = d.entries /\ chains = d.chain
  BY DEF Volume
<1>3. \A b \in ClusterOrNone : d.entries[ClusterToLba(b) + s] \in Seq(Usable)
  BY OpenAssumption DEF Usable
<1> QED BY <1>1, <1>2, <1>3 DEF Sector

(* The places of a directory.                                                *)
LEMMA PlaceFacts ==
  ASSUME Volume, NEW c \in ClusterOrNone
  PROVE  \A p : p \in Places(c) <=>
           \E k \in 1 .. Len(chains[c]), s \in 0 .. SectorsPerCluster - 1 :
             \E n \in 1 .. Len(Sector(c, k, s)) : p = <<k, s, n>>
<1> DEFINE K == 1 .. Len(chains[c])
           S == 0 .. SectorsPerCluster - 1
           In(k, s) == {<<k, s, n>> : n \in 1 .. Len(Sector(c, k, s))}
           Is(k, s, p) == \E n \in 1 .. Len(Sector(c, k, s)) : p = <<k, s, n>>
           All == {In(k, s) : k \in K, s \in S}
<1>1. Places(c) = UNION All
  BY DEF Places
<1>2. ASSUME NEW k, NEW s, NEW p
      PROVE  p \in In(k, s) <=> Is(k, s, p)
  OBVIOUS
<1> HIDE DEF In, Is, K, S
<1>3. ASSUME NEW y
      PROVE  y \in All <=> \E k \in K, s \in S : y = In(k, s)
  OBVIOUS
<1> HIDE DEF All
<1>4. ASSUME NEW p
      PROVE  p \in Places(c) <=> \E k \in K, s \in S : p \in In(k, s)
  <2>1. p \in Places(c) <=> \E y \in All : p \in y
    BY <1>1
  <2> QED BY <1>3, <2>1
<1>5. ASSUME NEW p
      PROVE  p \in Places(c) <=> \E k \in K, s \in S : Is(k, s, p)
  BY <1>2, <1>4
<1> QED BY <1>5 DEF K, S, Is

(* Two different places come one before the other.                           *)
LEMMA PlacesOrdered ==
  ASSUME Volume, NEW c \in ClusterOrNone, NEW p \in Places(c), NEW q \in Places(c)
  PROVE  p = q \/ Before(p, q) \/ Before(q, p)
<1>1. ASSUME NEW x \in Places(c)
      PROVE  x = <<x[1], x[2], x[3]>> /\ x[1] \in Nat /\ x[2] \in Nat /\ x[3] \in Nat
  <2>1. PICK k \in 1 .. Len(chains[c]), s \in 0 .. SectorsPerCluster - 1 :
          \E n \in 1 .. Len(Sector(c, k, s)) : x = <<k, s, n>>
    BY PlaceFacts
  <2>2. PICK n \in 1 .. Len(Sector(c, k, s)) : x = <<k, s, n>>
    BY <2>1
  <2>3. Len(Sector(c, k, s)) \in Nat /\ Len(chains[c]) \in Nat /\ SectorsPerCluster \in Nat
    BY SectorFacts, ChainFacts, FatAssumption
  <2>4. k \in Nat /\ s \in Nat /\ n \in Nat
    BY <2>3
  <2> QED BY <2>2, <2>4
<1>2. ASSUME p[1] = q[1], p[2] = q[2], p[3] = q[3] PROVE p = q
  BY <1>1, <1>2
<1> QED BY <1>1, <1>2 DEF Before

(* At most one place is a hit, so a lookup's answer is the entry there.      *)
LEMMA HitFound ==
  ASSUME Volume, NEW c \in ClusterOrNone, NEW name, NEW p \in Hits(c, name)
  PROVE  LookUp(c, name) = EntryAt(c, p)
<1> DEFINE x == CHOOSE y \in Hits(c, name) : TRUE
<1>1. x \in Hits(c, name) /\ p \in Hits(c, name)
  OBVIOUS
<1> HIDE DEF x
<1>2. x \in Places(c) /\ p \in Places(c) /\ ~Before(x, p) /\ ~Before(p, x)
  BY <1>1 DEF Hits
<1>3. x = p
  BY <1>2, PlacesOrdered
<1> QED BY <1>3 DEF LookUp, x

-----------------------------------------------------------------------------
(* The volume does not change, so no lookup does.                            *)
LEMMA SamePlaces ==
  ASSUME UNCHANGED <<disk, chains>>, NEW c
  PROVE  /\ Places(c)' = Places(c)
         /\ \A p : EntryAt(c, p)' = EntryAt(c, p)
<1>1. \A k, s : Sector(c, k, s)' = Sector(c, k, s)
  BY DEF Sector
<1>2. Places(c)' = Places(c)
  BY <1>1 DEF Places
<1>3. \A p : EntryAt(c, p)' = EntryAt(c, p)
  BY <1>1 DEF EntryAt
<1> QED BY <1>2, <1>3

(* Nor does the answer to a lookup.                                          *)
LEMMA SameLookUp ==
  ASSUME UNCHANGED <<disk, chains>>, NEW c, NEW name
  PROVE  LookUp(c, name)' = LookUp(c, name)
<1>1. Hits(c, name)' = Hits(c, name)
  BY SamePlaces DEF Hits
<1> QED BY <1>1, SamePlaces DEF LookUp

(* Nor a trail.                                                              *)
LEMMA SameTrail ==
  ASSUME UNCHANGED <<disk, chains>>, NEW dir, NEW names
  PROVE  Trail(dir, names)' = Trail(dir, names)
BY SameLookUp DEF Trail

-----------------------------------------------------------------------------
Path == Seq(Seq(STRING))

(* A path of two parts or more is not one of those without a next part.      *)
LEMMA Longer ==
  ASSUME NEW s, Len(s) \in Nat, Len(s) >= 2
  PROVE  s \notin {<<>>, << <<>> >>}
<1>1. Len(<<>>) = 0 /\ Len(<< <<>> >>) = 1
  OBVIOUS
<1>2. s # <<>>
  BY <1>1
<1>3. s # << <<>> >>
  BY <1>1
<1> QED BY <1>2, <1>3

(* What is left behind the first part.                                       *)
LEMMA TailOf ==
  ASSUME NEW S, NEW s \in Seq(S)
  PROVE  /\ Len(s) = 1 => s # <<>> /\ Tail(s) = <<>>
         /\ Len(s) >= 2 => Tail(s) # <<>>
<1>1. Len(s) \in Nat
  OBVIOUS
<1>2. ASSUME Len(s) >= 1 PROVE s # <<>> /\ Len(Tail(s)) = Len(s) - 1 /\ Tail(s) \in Seq(S)
  <2>1. s # <<>>
    BY <1>2
  <2> QED BY <1>1, <1>2, <2>1
<1> DEFINE t == Tail(s)
<1>3. ASSUME Len(s) >= 1 PROVE s # <<>> /\ Len(t) = Len(s) - 1 /\ t \in Seq(S)
  BY <1>2, <1>3
<1> HIDE DEF t
<1>4. t \in Seq(S) => (t = <<>> <=> Len(t) = 0)
  OBVIOUS
<1>5. Len(s) = 1 => s # <<>> /\ t = <<>>
  BY <1>1, <1>3, <1>4
<1>6. Len(s) >= 2 => t # <<>>
  BY <1>1, <1>3, <1>4
<1> QED BY <1>5, <1>6 DEF t

(* The parts from the m-th on.                                               *)
LEMMA Suffix ==
  ASSUME NEW S, NEW s \in Seq(S), NEW m \in 1 .. Len(s)
  PROVE  LET r == SubSeq(s, m, Len(s))
         IN  /\ r \in Seq(S) /\ Len(r) = Len(s) - m + 1 /\ r # <<>> /\ Head(r) = s[m]
             /\ Tail(r) = SubSeq(s, m + 1, Len(s))
<1> DEFINE r == SubSeq(s, m, Len(s))
           L == Len(s)
           n == L - m + 1
           q == SubSeq(s, m + 1, L)
<1>1. L \in Nat /\ m \in Nat /\ n \in Nat /\ n >= 1 /\ m + 1 <= L + 1
  OBVIOUS
<1>2. r \in Seq(S) /\ Len(r) = n /\ \A k \in 1 .. n : r[k] = s[m + k - 1]
  BY <1>1
<1>3. q \in Seq(S) /\ Len(q) = n - 1 /\ \A k \in 1 .. n - 1 : q[k] = s[m + 1 + k - 1]
  BY <1>1
<1> HIDE DEF r, q, n
<1>4. r # <<>> /\ Head(r) = s[m]
  <2>1. 1 \in 1 .. n /\ m + 1 - 1 = m
    BY <1>1
  <2> QED BY <1>1, <1>2, <2>1
<1>5. Tail(r) \in Seq(S) /\ Len(Tail(r)) = n - 1 /\ \A k \in 1 .. n - 1 : Tail(r)[k] = r[k + 1]
  BY <1>1, <1>2, <1>4
<1>6. \A k \in 1 .. n - 1 : Tail(r)[k] = q[k]
  <2> SUFFICES ASSUME NEW k \in 1 .. n - 1 PROVE Tail(r)[k] = q[k]
    OBVIOUS
  <2>1. k + 1 \in 1 .. n /\ m + (k + 1) - 1 = m + 1 + k - 1
    BY <1>1
  <2> QED BY <1>2, <1>3, <1>5, <2>1
<1>7. Tail(r) = q
  BY <1>1, <1>3, <1>5, <1>6
<1> QED BY <1>2, <1>4, <1>7 DEF r, q, n

(* The names fs_open looks up: those of the parts but the last, and the last *)
(* of them again.                                                            *)
LEMMA LookedUp ==
  ASSUME NEW parts \in Path
  PROVE  LET names == NamesLookedUp(parts)
         IN  /\ names[1] = FirstName(parts)
             /\ Len(parts) < 2 => Len(names) = 1
             /\ Len(parts) >= 2 =>
                  /\ Len(names) = Len(parts)
                  /\ \A k \in 1 .. Len(parts) - 1 : names[k] = MakeFat83Name(parts[k])
                  /\ names[Len(parts)] = MakeFat83Name(parts[Len(parts) - 1])
<1> DEFINE names == NamesLookedUp(parts)
           L == Len(parts)
           f == Front(parts)
<1>1. L \in Nat
  BY DEF Path
<1>2. CASE L < 2
  <2>1. names = <<FirstName(parts)>>
    BY <1>2 DEF NamesLookedUp
  <2>2. Len(names) = 1 /\ names[1] = FirstName(parts)
    BY <2>1
  <2> QED BY <1>1, <1>2, <2>2
<1>3. CASE L >= 2
  <2>1. /\ f \in Seq(Seq(STRING)) /\ Len(f) = L - 1
        /\ \A k \in 1 .. L - 1 : f[k] = parts[k]
    BY <1>1, <1>3 DEF Path, Front
  <2> DEFINE m == MakeFat83Name(Last(f))
             g == Names(f)
  <2>2. names = g \o <<m>>
    BY <1>1, <1>3 DEF NamesLookedUp
  <2>3. g = [k \in 1 .. L - 1 |-> MakeFat83Name(f[k])]
    BY <2>1 DEF Names
  <2>4. m = MakeFat83Name(parts[L - 1])
    BY <1>1, <1>3, <2>1 DEF Last
  <2> HIDE DEF g, m, f, names
  <2>5. \E T : g \in Seq(T) /\ m \in T
    <3> DEFINE T == {g[k] : k \in 1 .. L - 1} \cup {m}
    <3>1. L - 1 \in Nat /\ \A k \in 1 .. L - 1 : g[k] \in T
      BY <1>1, <1>3
    <3>2. g \in [1 .. L - 1 -> T]
      BY <2>3, <3>1
    <3>3. g \in Seq(T)
      BY <3>1, <3>2
    <3> QED BY <3>3
  <2>6. Len(g) = L - 1
    BY <1>1, <1>3, <2>3
  <2>7. /\ Len(names) = L /\ names[L] = m
        /\ \A k \in 1 .. L - 1 : names[k] = g[k]
    BY <1>1, <1>3, <2>2, <2>5, <2>6
  <2>8. \A k \in 1 .. L - 1 : names[k] = MakeFat83Name(parts[k])
    BY <2>1, <2>3, <2>7
  <2>9. FirstName(parts) = MakeFat83Name(parts[1])
    <3>1. parts \notin {<<>>, << <<>> >>}
      BY <1>1, <1>3, Longer
    <3> QED BY <1>1, <1>3, <3>1 DEF FirstName, Path
  <2>10. names[1] = FirstName(parts)
    BY <1>1, <1>3, <2>8, <2>9
  <2> QED BY <1>1, <1>3, <2>4, <2>7, <2>8, <2>10 DEF names
<1> QED BY <1>1, <1>2, <1>3

(* path_walker_t.                                                            *)
IsWalker(w) == w \in [rest : {w.rest}, more : BOOLEAN, component_83 : {w.component_83}]

(* The walker when d directories have been entered.                          *)
WalkerAt(w, parts, d) ==
  LET names == NamesLookedUp(parts)
  IN  /\ IsWalker(w)
      /\ w.component_83 = names[d + 1] /\ (w.more <=> d < Len(names) - 1)
      /\ w.more => w.rest = SubSeq(parts, d + 2, Len(parts))

(* path_walker_advance before any I/O.                                       *)
LEMMA FirstWalker ==
  ASSUME NEW parts \in Path
  PROVE  LET w == Advance([rest |-> parts, more |-> TRUE, component_83 |-> Blank])
         IN  WalkerAt([w EXCEPT !.component_83 = FirstName(parts)], parts, 0)
<1> DEFINE w0 == [rest |-> parts, more |-> TRUE, component_83 |-> Blank]
           w == Advance(w0)
           x == [w EXCEPT !.component_83 = FirstName(parts)]
           names == NamesLookedUp(parts)
<1>1. Len(parts) \in Nat /\ names[1] = FirstName(parts)
  BY LookedUp DEF Path
<1> HIDE DEF names
<1>2. CASE Len(parts) < 2
  <2>1. Len(names) = 1
    BY <1>2, LookedUp DEF names
  <2>2. ~w.more /\ IsWalker(w)
    <3>1. CASE parts \in {<<>>, << <<>> >>}
      BY <3>1 DEF Advance, IsWalker
    <3>2. CASE parts \notin {<<>>, << <<>> >>}
      <4>1. Tail(parts) = <<>>
        BY <1>1, <1>2, <3>2 DEF Path
      <4> QED BY <3>2, <4>1 DEF Advance, IsWalker
    <3> QED BY <3>1, <3>2
  <2> HIDE DEF w
  <2>3. ~x.more /\ x.component_83 = FirstName(parts) /\ IsWalker(x)
    BY <2>2 DEF IsWalker
  <2> HIDE DEF x
  <2>4. WalkerAt(x, parts, 0)
    BY <1>1, <2>1, <2>3 DEF WalkerAt, names
  <2> QED BY <2>4 DEF x, w
<1>3. CASE Len(parts) >= 2
  <2>1. Len(names) = Len(parts)
    BY <1>3, LookedUp DEF names
  <2>2. parts \notin {<<>>, << <<>> >>} /\ Tail(parts) # <<>> /\ Tail(parts) = SubSeq(parts, 2, Len(parts))
    <3>1. parts = SubSeq(parts, 1, Len(parts)) /\ parts \in Seq(Seq(STRING))
      BY <1>1, <1>3 DEF Path
    <3>2. 1 \in 1 .. Len(parts) /\ 2 \in 1 .. Len(parts) /\ 1 + 1 = 2
      BY <1>1, <1>3
    <3>3. Tail(parts) = SubSeq(parts, 2, Len(parts))
      <4>1. Tail(SubSeq(parts, 1, Len(parts))) = SubSeq(parts, 1 + 1, Len(parts))
        BY <3>1, <3>2, Suffix
      <4> QED BY <3>1, <3>2, <4>1
    <3>4. SubSeq(parts, 2, Len(parts)) # <<>>
      BY <3>1, <3>2, Suffix
    <3> QED BY <1>1, <1>3, <3>3, <3>4, Longer
  <2>3. w = [rest |-> Tail(parts), more |-> TRUE, component_83 |-> MakeFat83Name(Head(parts))]
    BY <2>2 DEF Advance
  <2> HIDE DEF w
  <2>4. IsWalker(w) /\ w.rest = Tail(parts) /\ w.more
    BY <2>3 DEF IsWalker
  <2>5. IsWalker(x) /\ x.rest = Tail(parts) /\ x.more /\ x.component_83 = FirstName(parts)
    BY <2>4 DEF IsWalker
  <2> HIDE DEF x
  <2>6. WalkerAt(x, parts, 0)
    BY <1>1, <1>3, <2>1, <2>2, <2>5 DEF WalkerAt, names
  <2> QED BY <2>6 DEF x, w
<1> QED BY <1>1, <1>2, <1>3

(* path_walker_advance after a directory was found.                          *)
LEMMA NextWalker ==
  ASSUME NEW parts \in Path, NEW d \in 0 .. Len(NamesLookedUp(parts)) - 1, NEW w,
         WalkerAt(w, parts, d), w.more
  PROVE  d + 1 \in 0 .. Len(NamesLookedUp(parts)) - 1 /\ WalkerAt(Advance(w), parts, d + 1)
<1> DEFINE names == NamesLookedUp(parts)
           L == Len(parts)
           x == Advance(w)
<1>1. L \in Nat /\ d < Len(names) - 1 /\ w.rest = SubSeq(parts, d + 2, L) /\ w.component_83 = names[d + 1]
      /\ IsWalker(w)
  BY DEF WalkerAt, Path
<1>2. L >= 2 /\ Len(names) = L /\ d \in Nat
  <2>1. L < 2 => Len(names) = 1
    BY LookedUp
  <2>2. L >= 2
    <3>1. ASSUME L < 2 PROVE FALSE
      <4>1. Len(names) = 1 /\ d \in 0 .. Len(names) - 1 /\ d < Len(names) - 1
        BY <1>1, <2>1, <3>1
      <4> HIDE DEF names
      <4> QED BY <4>1
    <3> QED BY <1>1, <3>1
  <2> QED BY <1>1, <2>2, LookedUp
<1>3. d + 1 \in 0 .. L - 1 /\ d + 2 \in 2 .. L
  BY <1>1, <1>2
<1>4. /\ \A k \in 1 .. L - 1 : names[k] = MakeFat83Name(parts[k])
      /\ names[L] = MakeFat83Name(parts[L - 1])
  BY <1>2, LookedUp
<1> HIDE DEF names
<1>5. /\ Len(w.rest) = L - d - 1 /\ w.rest \in Seq(Seq(STRING))
      /\ Head(w.rest) = parts[d + 2]
      /\ (d + 2 < L => Tail(w.rest) = SubSeq(parts, d + 3, L))
  <2>1. d + 2 \in 1 .. L /\ parts \in Seq(Seq(STRING))
    BY <1>2, <1>3 DEF Path
  <2> DEFINE r == SubSeq(parts, d + 2, L)
  <2>a. /\ r \in Seq(Seq(STRING)) /\ Len(r) = L - (d + 2) + 1 /\ Head(r) = parts[d + 2]
        /\ Tail(r) = SubSeq(parts, (d + 2) + 1, L)
    BY <2>1, Suffix
  <2> HIDE DEF r
  <2>b. w.rest = r
    BY <1>1 DEF r
  <2>2. /\ w.rest \in Seq(Seq(STRING)) /\ Len(w.rest) = L - (d + 2) + 1 /\ Head(w.rest) = parts[d + 2]
        /\ Tail(w.rest) = SubSeq(parts, (d + 2) + 1, L)
    BY <2>a, <2>b, Zenon
  <2>3. (d + 2) + 1 = d + 3 /\ L - (d + 2) + 1 = L - d - 1
    BY <1>1, <1>2
  <2> QED BY <2>2, <2>3
<1>6. CASE d + 2 = L
  <2>1. Len(w.rest) = 1 /\ w.rest \in Seq(Seq(STRING))
    BY <1>2, <1>5, <1>6
  <2>a. w.rest # <<>> /\ Tail(w.rest) = <<>>
    BY <2>1, TailOf
  <2>2. ~x.more /\ x.component_83 = w.component_83 /\ IsWalker(x)
    BY <1>1, <2>a DEF Advance, IsWalker
  <2>3. names[d + 1] = MakeFat83Name(parts[d + 1]) /\ names[d + 2] = MakeFat83Name(parts[d + 1])
    BY <1>2, <1>3, <1>4, <1>6
  <2> HIDE DEF x
  <2>4. WalkerAt(x, parts, d + 1)
    <3>1. (d + 1) + 1 = d + 2 /\ ~(d + 1 < L - 1)
      BY <1>2, <1>6
    <3> QED BY <1>1, <1>2, <2>2, <2>3, <3>1 DEF WalkerAt, names
  <2> QED BY <1>2, <1>3, <2>4 DEF x, names
<1>7. CASE d + 2 < L
  <2>a. Len(w.rest) >= 2 /\ Len(w.rest) \in Nat /\ w.rest \in Seq(Seq(STRING))
    BY <1>1, <1>2, <1>5, <1>7
  <2>1. w.rest \notin {<<>>, << <<>> >>} /\ Tail(w.rest) # <<>>
    BY <2>a, Longer, TailOf
  <2>2. x = [rest |-> Tail(w.rest), more |-> TRUE, component_83 |-> MakeFat83Name(Head(w.rest))]
    BY <2>1 DEF Advance
  <2> HIDE DEF x
  <2>b. IsWalker(x) /\ x.rest = Tail(w.rest) /\ x.more /\ x.component_83 = MakeFat83Name(Head(w.rest))
    BY <2>2 DEF IsWalker
  <2>3. x.rest = SubSeq(parts, d + 3, L) /\ x.more /\ x.component_83 = names[d + 2] /\ IsWalker(x)
    <3>1. names[d + 2] = MakeFat83Name(parts[d + 2])
      BY <1>2, <1>3, <1>4, <1>7
    <3> QED BY <1>5, <1>7, <2>b, <3>1
  <2>4. WalkerAt(x, parts, d + 1)
    <3>1. (d + 1) + 1 = d + 2 /\ (d + 1) + 2 = d + 3 /\ d + 1 < L - 1
      BY <1>2, <1>7
    <3> QED BY <1>2, <2>3, <3>1 DEF WalkerAt, names
  <2> QED BY <1>2, <1>3, <2>4 DEF x, names
<1> QED BY <1>3, <1>2, <1>6, <1>7

-----------------------------------------------------------------------------
(* The scan has passed every place of the directory in front of sector s of  *)
(* its k-th cluster without a stop.                                          *)
Passed(c, name, k, s) ==
  \A q \in Places(c) :
    (q[1] < k \/ (q[1] = k /\ q[2] < s)) => ~Stops(EntryAt(c, q), name)

(* A place, taken apart.                                                     *)
LEMMA PlaceIs ==
  ASSUME Volume, NEW c \in ClusterOrNone, NEW q \in Places(c)
  PROVE  /\ q[1] \in 1 .. Len(chains[c]) /\ q[2] \in 0 .. SectorsPerCluster - 1
         /\ q[3] \in 1 .. Len(Sector(c, q[1], q[2])) /\ q[1] \in Nat /\ q[2] \in Nat /\ q[3] \in Nat
<1>1. PICK k \in 1 .. Len(chains[c]), s \in 0 .. SectorsPerCluster - 1 :
        \E n \in 1 .. Len(Sector(c, k, s)) : q = <<k, s, n>>
  BY PlaceFacts
<1>2. PICK n \in 1 .. Len(Sector(c, k, s)) : q = <<k, s, n>>
  BY <1>1
<1>3. q[1] = k /\ q[2] = s /\ q[3] = n
  BY <1>2
<1>4. Len(Sector(c, k, s)) \in Nat /\ Len(chains[c]) \in Nat /\ SectorsPerCluster \in Nat
  BY SectorFacts, ChainFacts, FatAssumption
<1> QED BY <1>3, <1>4

(* A scan that starts has passed nothing.                                    *)
LEMMA NothingPassed ==
  ASSUME Volume, NEW c \in ClusterOrNone, NEW name
  PROVE  Passed(c, name, 1, 0)
<1> SUFFICES ASSUME NEW q \in Places(c), q[1] < 1 \/ (q[1] = 1 /\ q[2] < 0) PROVE FALSE
  BY DEF Passed
<1>1. q[1] \in 1 .. Len(chains[c]) /\ q[1] \in Nat /\ q[2] \in Nat
  BY PlaceIs
<1> QED BY <1>1

(* A sector without a stop is passed.                                        *)
LEMMA PassSector ==
  ASSUME Volume, NEW c \in ClusterOrNone, NEW name, NEW k \in Nat, NEW s \in Nat,
         Passed(c, name, k, s), \A n \in 1 .. Len(Sector(c, k, s)) : ~Stops(Sector(c, k, s)[n], name)
  PROVE  Passed(c, name, k, s + 1)
<1> SUFFICES ASSUME NEW q \in Places(c), q[1] < k \/ (q[1] = k /\ q[2] < s + 1)
             PROVE  ~Stops(EntryAt(c, q), name)
  BY DEF Passed
<1>1. q[1] \in Nat /\ q[2] \in Nat /\ q[3] \in 1 .. Len(Sector(c, q[1], q[2]))
  BY PlaceIs
<1>2. CASE q[1] = k /\ q[2] = s
  BY <1>1, <1>2 DEF EntryAt
<1>3. CASE q[1] < k \/ (q[1] = k /\ q[2] < s)
  BY <1>3 DEF Passed
<1> QED BY <1>1, <1>2, <1>3

(* So is a cluster with its last sector.                                     *)
LEMMA PassCluster ==
  ASSUME Volume, NEW c \in ClusterOrNone, NEW name, NEW k \in Nat,
         Passed(c, name, k, SectorsPerCluster)
  PROVE  Passed(c, name, k + 1, 0)
<1> SUFFICES ASSUME NEW q \in Places(c), q[1] < k + 1 \/ (q[1] = k + 1 /\ q[2] < 0)
             PROVE  ~Stops(EntryAt(c, q), name)
  BY DEF Passed
<1>1. q[1] \in Nat /\ q[2] \in Nat /\ q[2] \in 0 .. SectorsPerCluster - 1 /\ SectorsPerCluster \in Nat
  BY PlaceIs, FatAssumption
<1>2. q[1] < k \/ (q[1] = k /\ q[2] < SectorsPerCluster)
  BY <1>1
<1> QED BY <1>2 DEF Passed

(* A name is not in a directory that was passed to the end of its chain.     *)
LEMMA AllPassed ==
  ASSUME Volume, NEW c \in ClusterOrNone, NEW name, Passed(c, name, Len(chains[c]) + 1, 0)
  PROVE  LookUp(c, name) = NoEntry
<1>1. ASSUME NEW p \in Hits(c, name) PROVE FALSE
  <2>1. p \in Places(c) /\ Carries(EntryAt(c, p), name)
    BY <1>1 DEF Hits
  <2>2. p[1] \in 1 .. Len(chains[c]) /\ Len(chains[c]) \in Nat
    BY <2>1, PlaceIs, ChainFacts
  <2>3. p[1] < Len(chains[c]) + 1
    BY <2>2
  <2>4. ~Stops(EntryAt(c, p), name)
    BY <2>1, <2>3 DEF Passed
  <2> QED BY <2>1, <2>4 DEF Carries, Stops
<1> QED BY <1>1 DEF LookUp

(* Nothing in front of the first stop of a sector stops the scan.            *)
LEMMA Earlier ==
  ASSUME Volume, NEW c \in ClusterOrNone, NEW name, NEW k, NEW s, NEW i,
         Passed(c, name, k, s), \A n \in 1 .. i - 1 : ~Stops(Sector(c, k, s)[n], name),
         NEW q \in Places(c), Before(q, <<k, s, i>>), i \in Nat
  PROVE  ~Stops(EntryAt(c, q), name)
<1>1. q[3] \in Nat /\ q[3] \in 1 .. Len(Sector(c, q[1], q[2]))
  BY PlaceIs
<1>2. CASE q[1] < k \/ (q[1] = k /\ q[2] < s)
  BY <1>2 DEF Passed
<1>3. CASE q[1] = k /\ q[2] = s /\ q[3] < i
  <2>1. q[3] \in 1 .. i - 1
    BY <1>1, <1>3
  <2> QED BY <1>3, <2>1 DEF EntryAt
<1> QED BY <1>2, <1>3 DEF Before

(* A stop that is the end mark: the name is not in the directory.            *)
LEMMA StopAtEnd ==
  ASSUME Volume, NEW c \in ClusterOrNone, NEW name,
         NEW k \in 1 .. Len(chains[c]), NEW s \in 0 .. SectorsPerCluster - 1,
         NEW i \in 1 .. Len(Sector(c, k, s)), Passed(c, name, k, s),
         \A n \in 1 .. i - 1 : ~Stops(Sector(c, k, s)[n], name),
         Sector(c, k, s)[i].kind = "end"
  PROVE  LookUp(c, name) = NoEntry
<1> DEFINE p == <<k, s, i>>
<1>0. i \in Nat
  BY SectorFacts
<1>1. p \in Places(c) /\ EntryAt(c, p) = Sector(c, k, s)[i]
  BY PlaceFacts DEF EntryAt
<1>2. ASSUME NEW h \in Hits(c, name) PROVE FALSE
  <2>1. h \in Places(c) /\ Carries(EntryAt(c, h), name)
        /\ \A q \in Places(c) : Before(q, h) => EntryAt(c, q).kind # "end"
    BY <1>2 DEF Hits
  <2>2. ~Before(p, h)
    BY <1>1, <2>1
  <2>3. ~Before(h, p)
    BY <1>0, <2>1, Earlier DEF Carries, Stops
  <2>4. h # p
    BY <1>1, <2>1 DEF Carries
  <2> HIDE DEF p
  <2> QED BY <1>1, <2>1, <2>2, <2>3, <2>4, PlacesOrdered
<1> QED BY <1>2 DEF LookUp

(* A stop that is no end mark is the entry that the lookup means.            *)
LEMMA StopAtHit ==
  ASSUME Volume, NEW c \in ClusterOrNone, NEW name,
         NEW k \in 1 .. Len(chains[c]), NEW s \in 0 .. SectorsPerCluster - 1,
         NEW i \in 1 .. Len(Sector(c, k, s)), Passed(c, name, k, s),
         \A n \in 1 .. i - 1 : ~Stops(Sector(c, k, s)[n], name),
         Stops(Sector(c, k, s)[i], name), Sector(c, k, s)[i].kind # "end"
  PROVE  /\ LookUp(c, name) = Sector(c, k, s)[i] /\ LookUp(c, name) # NoEntry
         /\ LookUp(c, name).cluster \in ClusterOrNone
<1> DEFINE p == <<k, s, i>>
           e == Sector(c, k, s)[i]
<1>0. i \in Nat /\ e \in Usable
  BY SectorFacts
<1>1. p \in Places(c) /\ EntryAt(c, p) = e
  BY PlaceFacts DEF EntryAt
<1>2. Carries(e, name)
  BY DEF Carries, Stops
<1>3. ASSUME NEW q \in Places(c), Before(q, p)
      PROVE  ~Carries(EntryAt(c, q), name) /\ EntryAt(c, q).kind # "end"
  <2>1. ~Stops(EntryAt(c, q), name)
    BY <1>0, <1>3, Earlier
  <2> QED BY <2>1 DEF Stops, Carries
<1> HIDE DEF e, p
<1>4. p \in Hits(c, name)
  BY <1>1, <1>2, <1>3 DEF Hits
<1>5. LookUp(c, name) = e
  BY <1>1, <1>4, HitFound
<1>6. e # NoEntry /\ e.cluster \in ClusterOrNone
  BY <1>0, <1>2 DEF Carries, Usable, NoEntry
<1> QED BY <1>5, <1>6 DEF e

-----------------------------------------------------------------------------
(* fs_open_ctx_t once an open has been submitted.                            *)
IsContext(c) ==
  c \in [state : {c.state}, walker : {c.walker}, current_cluster : {c.current_cluster},
         sector_in_cluster : {c.sector_in_cluster}, current_lba : {c.current_lba}]

(* d directories of the trail T have been entered and the k-th cluster of    *)
(* the last of them is being scanned: its first cluster is the one stored    *)
(* for the caller, the walker holds the name to look for, and nothing that   *)
(* was passed stops the scan.                                                *)
Scanning(parts, names, T, d, k) ==
  /\ T[d] # NoEntry /\ T[d].cluster \in ClusterOrNone /\ parent = T[d].cluster
  /\ k \in 1 .. Len(chains[parent])
  /\ IsContext(ctx) /\ WalkerAt(ctx.walker, parts, d) /\ ctx.current_cluster = chains[parent][k]
  /\ ctx.state = "PARSE_DIR_SECTOR" =>
       /\ ctx.sector_in_cluster \in 0 .. SectorsPerCluster - 1
       /\ ctx.current_lba = ClusterToLba(ctx.current_cluster) + ctx.sector_in_cluster
       /\ Passed(parent, names[d + 1], k, ctx.sector_in_cluster)
  /\ ctx.state = "PROCESS_FAT" => Passed(parent, names[d + 1], k + 1, 0)

Busy == ctx.state \in {"PARSE_DIR_SECTOR", "PROCESS_FAT"}

(* How far the walk has come, of a caller that asked for these parts.        *)
Progress(parts, names, T) ==
  /\ Busy => \E d \in 0 .. Len(names) - 1 : \E k \in 1 .. Len(chains[parent]) : Scanning(parts, names, T, d, k)
  /\ Success => ctx.state = "DONE"
  /\ ctx.state = "DONE" =>
       /\ T[Len(names)] # NoEntry /\ parent = T[Len(names) - 1].cluster
       /\ out = [first_cluster |-> T[Len(names)].cluster, file_size |-> T[Len(names)].size]
  /\ ctx.state = "NOT_FOUND" => T[Len(names)] = NoEntry

Looked == NamesLookedUp(request.path.parts)

OpenInv ==
  /\ Volume /\ request.path.parts \in Path /\ Start \in ClusterOrNone
  /\ ctx.state \in {"free", "PARSE_DIR_SECTOR", "PROCESS_FAT", "DONE", "NOT_FOUND", "ERROR", "lost"}
  /\ Progress(request.path.parts, Looked, Trail(Start, Looked))

(* fs_open_finish.                                                           *)
LEMMA Finished ==
  ASSUME IsContext(ctx), NEW state \in {"DONE", "NOT_FOUND", "ERROR"}, FsOpenFinish(state)
  PROVE  ctx.state' = state /\ (Success' <=> state = "DONE")
<1>1. ctx.state' = state
  BY DEF IsContext, FsOpenFinish
<1>2. state = "DONE" => told' = "a0 = 0" \/ told' = "status 0"
  BY DEF FsOpenFinish
<1>3. state # "DONE" => told' = "a0 = out_file" \/ told' = "status -1"
  <2>1. -1 # 0
    OBVIOUS
  <2> QED BY <2>1 DEF FsOpenFinish
<1> QED BY <1>1, <1>2, <1>3 DEF Success

(* The context that Scan sets up.                                            *)
LEMMA ScanFields ==
  ASSUME NEW w, NEW c, NEW s
  PROVE  LET x == Scan(w, c, s)
         IN  /\ IsContext(x) /\ x.state = "PARSE_DIR_SECTOR" /\ x.walker = w
             /\ x.current_cluster = c /\ x.sector_in_cluster = s /\ x.current_lba = ClusterToLba(c) + s
BY DEF Scan, IsContext

(* What was passed stays passed.                                             *)
LEMMA SamePassed ==
  ASSUME UNCHANGED <<disk, chains>>, NEW c, NEW name, NEW k, NEW s
  PROVE  Passed(c, name, k, s)' <=> Passed(c, name, k, s)
BY SamePlaces DEF Passed

(* A scan that goes on: in a sector of the d-th directory.                   *)
LEMMA GoesOn ==
  ASSUME UNCHANGED <<disk, chains>>, NEW parts, NEW names, NEW T, NEW d \in 0 .. Len(names) - 1, NEW k,
         NEW w, NEW c \in ClusterOrNone, NEW s \in 0 .. SectorsPerCluster - 1,
         T[d] # NoEntry, T[d].cluster = c, parent' = c, k \in 1 .. Len(chains[c]),
         WalkerAt(w, parts, d), Passed(c, names[d + 1], k, s),
         ctx' = Scan(w, chains[c][k], s), ~Success, told' = told
  PROVE  Progress(parts, names, T)' /\ ctx.state' = "PARSE_DIR_SECTOR"
<1> DEFINE b == chains[c][k]
           x == Scan(w, b, s)
<1>1. /\ IsContext(x) /\ x.state = "PARSE_DIR_SECTOR" /\ x.walker = w
      /\ x.current_cluster = b /\ x.sector_in_cluster = s /\ x.current_lba = ClusterToLba(b) + s
  BY ScanFields
<1>2. ctx' = x /\ b = chains'[c][k]
  OBVIOUS
<1> HIDE DEF x, b
<1>3. Passed(c, names[d + 1], k, s)'
  BY SamePassed
<1>4. Scanning(parts, names, T, d, k)'
  BY <1>1, <1>2, <1>3 DEF Scanning
<1>5. ctx.state' = "PARSE_DIR_SECTOR" /\ ~Success'
  BY <1>1, <1>2 DEF Success
<1>6. k \in 1 .. Len(chains'[parent'])
  OBVIOUS
<1> QED BY <1>4, <1>5, <1>6 DEF Progress

(* What is known of a trail: each step is a lookup, and behind a missing     *)
(* entry it leads nowhere.                                                   *)
IsTrail(T, names) ==
  /\ \A k \in 1 .. Len(names) : T[k] = Next(T[k - 1], names[k])
  /\ \A d \in 0 .. Len(names) : T[d] = NoEntry => T[Len(names)] = NoEntry

(* fs_open_step in FSOPEN_PARSE_DIR_SECTOR.                                  *)
LEMMA ParseStep ==
  ASSUME Volume, NEW parts \in Path, NEW names, NEW T, names = NamesLookedUp(parts),
         Len(names) \in Nat, IsTrail(T, names), Progress(parts, names, T), ParseDirSector
  PROVE  /\ Progress(parts, names, T)'
         /\ ctx.state' \in {"PARSE_DIR_SECTOR", "PROCESS_FAT", "DONE", "NOT_FOUND"}
<1> DEFINE es == disk[ctx.current_lba]
           i == SelectInSeq(es, LAMBDA e : Stops(e, ctx.walker.component_83))
           s == ctx.sector_in_cluster
<1>1. ctx.state = "PARSE_DIR_SECTOR" /\ UNCHANGED <<fat, helpers, disk, chains, request>> /\ ~Success
  BY DEF ParseDirSector, Progress
<1>2. PICK d \in 0 .. Len(names) - 1 : \E k \in 1 .. Len(chains[parent]) : Scanning(parts, names, T, d, k)
  BY <1>1 DEF Progress, Busy
<1>3. PICK k \in 1 .. Len(chains[parent]) : Scanning(parts, names, T, d, k)
  BY <1>2
<1> DEFINE c == T[d].cluster
           name == names[d + 1]
<1>4. /\ T[d] # NoEntry /\ c \in ClusterOrNone /\ parent = c /\ k \in 1 .. Len(chains[c])
      /\ IsContext(ctx) /\ WalkerAt(ctx.walker, parts, d) /\ ctx.current_cluster = chains[c][k]
      /\ s \in 0 .. SectorsPerCluster - 1 /\ ctx.current_lba = ClusterToLba(chains[c][k]) + s
      /\ Passed(c, name, k, s)
  BY <1>1, <1>3 DEF Scanning
<1>5. es = Sector(c, k, s) /\ es \in Seq(Usable)
  BY <1>4, SectorFacts DEF Sector
<1>6. ctx.walker.component_83 = name
  BY <1>4 DEF WalkerAt
<1>7. /\ i = 0 => \A n \in 1 .. Len(es) : ~Stops(es[n], name)
      /\ i # 0 => /\ i \in 1 .. Len(es) /\ Stops(es[i], name)
                  /\ \A n \in 1 .. i - 1 : ~Stops(es[n], name)
  <2>1. i = IF StopsOf(es, name) # {} THEN Min(StopsOf(es, name)) ELSE 0
    BY <1>6 DEF SelectInSeq, StopsOf
  <2> HIDE DEF es, i, name
  <2> QED BY <1>5, <2>1, FirstStop
<1>8. d \in Nat /\ d + 1 \in 1 .. Len(names) /\ d + 1 - 1 = d /\ T[d + 1] = LookUp(c, name)
  <2>1. d \in Nat /\ d + 1 \in 1 .. Len(names) /\ d + 1 - 1 = d
    OBVIOUS
  <2>2. T[d + 1] = Next(T[d], name)
    BY <2>1 DEF IsTrail
  <2> QED BY <1>4, <2>1, <2>2 DEF Next
<1>9. \/ i = 0 /\ NextSector /\ UNCHANGED <<parent, out, told>>
      \/ i # 0 /\ es[i].kind = "end" /\ FsOpenFinish("NOT_FOUND") /\ UNCHANGED <<parent, out>>
      \/ i # 0 /\ es[i].kind # "end" /\ ~ctx.walker.more /\ Found(es[i])
      \/ i # 0 /\ es[i].kind # "end" /\ ctx.walker.more /\ Descend(es[i])
  BY DEF ParseDirSector
<1>10. k \in Nat /\ s \in Nat /\ SectorsPerCluster \in Nat
  BY <1>4, ChainFacts, FatAssumption
<1> HIDE DEF es, i, c, name
<1>11. CASE i = 0 /\ NextSector /\ UNCHANGED <<parent, out, told>>
  <2>1. Passed(c, name, k, s + 1)
    <3> HIDE DEF s
    <3> QED BY <1>4, <1>5, <1>7, <1>10, <1>11, PassSector
  <2>2. CASE s + 1 >= SectorsPerCluster
    <3>1. ctx' = [ctx EXCEPT !.state = "PROCESS_FAT"]
      BY <1>11, <2>2 DEF NextSector
    <3>2. /\ IsContext(ctx)' /\ ctx.state' = "PROCESS_FAT" /\ ctx.walker' = ctx.walker
          /\ ctx.current_cluster' = ctx.current_cluster
      BY <1>4, <3>1 DEF IsContext
    <3>3. s + 1 = SectorsPerCluster
      BY <1>4, <1>10, <2>2
    <3>4. Passed(c, name, k + 1, 0)
      BY <1>4, <1>10, <2>1, <3>3, PassCluster
    <3>5. Passed(c, name, k + 1, 0)'
      BY <1>1, <3>4, SamePassed
    <3>6. Scanning(parts, names, T, d, k)'
      BY <1>1, <1>4, <1>11, <3>2, <3>5 DEF Scanning, c, name
    <3>7. ~Success'
      BY <1>1, <1>11 DEF Success
    <3> QED BY <1>1, <1>4, <1>11, <3>2, <3>6, <3>7 DEF Progress
  <2>3. CASE ~(s + 1 >= SectorsPerCluster)
    <3>1. ctx' = Scan(ctx.walker, chains[c][k], s + 1) /\ s + 1 \in 0 .. SectorsPerCluster - 1
      BY <1>4, <1>10, <1>11, <2>3 DEF NextSector
    <3> HIDE DEF s
    <3>2. parent' = c /\ told' = told
      BY <1>4, <1>11
    <3> QED BY <1>1, <1>4, <1>11, <2>1, <3>1, <3>2, GoesOn DEF c, name
  <2> QED BY <2>2, <2>3
<1>12. CASE i # 0 /\ es[i].kind = "end" /\ FsOpenFinish("NOT_FOUND") /\ UNCHANGED <<parent, out>>
  <2>1. ctx.state' = "NOT_FOUND" /\ ~Success'
    BY <1>4, <1>12, Finished
  <2>2. LookUp(c, name) = NoEntry
    <3> HIDE DEF s
    <3> QED BY <1>4, <1>5, <1>7, <1>12, StopAtEnd
  <2>3. T[Len(names)] = NoEntry
    BY <1>8, <2>2 DEF IsTrail
  <2> QED BY <2>1, <2>3 DEF Progress, Busy
<1>13. ASSUME i # 0, es[i].kind # "end"
       PROVE  /\ T[d + 1] = es[i] /\ T[d + 1] # NoEntry /\ T[d + 1].cluster \in ClusterOrNone
  <2> HIDE DEF s
  <2>1. LookUp(c, name) = es[i] /\ LookUp(c, name) # NoEntry /\ LookUp(c, name).cluster \in ClusterOrNone
    BY <1>4, <1>5, <1>7, <1>13, StopAtHit
  <2> QED BY <1>8, <2>1
<1>14. CASE i # 0 /\ es[i].kind # "end" /\ ~ctx.walker.more /\ Found(es[i])
  <2>1. d = Len(names) - 1
    BY <1>4, <1>8, <1>14 DEF WalkerAt
  <2>2. /\ out' = [first_cluster |-> es[i].cluster, file_size |-> es[i].size]
        /\ FsOpenFinish("DONE") /\ parent' = parent
    BY <1>14 DEF Found
  <2>3. ctx.state' = "DONE"
    BY <1>4, <2>2, Finished
  <2>4. T[d + 1] = es[i] /\ T[d + 1] # NoEntry /\ d + 1 = Len(names)
    BY <1>8, <1>13, <1>14, <2>1
  <2>5. T[Len(names)] = es[i] /\ T[Len(names)] # NoEntry
    BY <2>4
  <2>6. parent' = T[Len(names) - 1].cluster
    BY <1>4, <2>1, <2>2 DEF c
  <2> QED BY <2>2, <2>3, <2>5, <2>6 DEF Progress, Busy
<1>15. CASE i # 0 /\ es[i].kind # "end" /\ ctx.walker.more /\ Descend(es[i])
  <2> DEFINE w == Advance(ctx.walker)
             b == T[d + 1].cluster
  <2>1. ctx' = Scan(w, b, 0) /\ parent' = b /\ UNCHANGED <<out, told>>
    BY <1>13, <1>15 DEF Descend
  <2>2. d + 1 \in 0 .. Len(names) - 1 /\ WalkerAt(w, parts, d + 1)
    BY <1>4, <1>15, NextWalker
  <2>3. b \in ClusterOrNone /\ T[d + 1] # NoEntry
    BY <1>13, <1>15
  <2>4. 1 \in 1 .. Len(chains[b]) /\ chains[b][1] = b
    BY <2>3, ChainFacts
  <2>5. Passed(b, names[d + 2], 1, 0) /\ d + 1 + 1 = d + 2
    BY <1>8, <2>3, NothingPassed
  <2>6. 0 \in 0 .. SectorsPerCluster - 1
    BY FatAssumption
  <2> HIDE DEF w
  <2> QED BY <1>1, <2>1, <2>2, <2>3, <2>4, <2>5, <2>6, GoesOn
<1> QED BY <1>9, <1>11, <1>12, <1>14, <1>15

(* fs_open_step in FSOPEN_PROCESS_FAT.                                       *)
LEMMA FatStep ==
  ASSUME Volume, NEW parts \in Path, NEW names, NEW T, names = NamesLookedUp(parts),
         Len(names) \in Nat, IsTrail(T, names), Progress(parts, names, T), ProcessFat
  PROVE  Progress(parts, names, T)' /\ ctx.state' \in {"PARSE_DIR_SECTOR", "NOT_FOUND"}
<1>1. /\ ctx.state = "PROCESS_FAT" /\ UNCHANGED <<fat, helpers, disk, chains, request, parent, out>>
      /\ ~Success
  BY DEF ProcessFat, Progress
<1>2. PICK d \in 0 .. Len(names) - 1 : \E k \in 1 .. Len(chains[parent]) : Scanning(parts, names, T, d, k)
  BY <1>1 DEF Progress, Busy
<1>3. PICK k \in 1 .. Len(chains[parent]) : Scanning(parts, names, T, d, k)
  BY <1>2
<1> DEFINE c == T[d].cluster
           name == names[d + 1]
           next == fat[chains[c][k]]
<1>4. /\ T[d] # NoEntry /\ c \in ClusterOrNone /\ parent = c /\ k \in 1 .. Len(chains[c])
      /\ IsContext(ctx) /\ WalkerAt(ctx.walker, parts, d) /\ ctx.current_cluster = chains[c][k]
      /\ Passed(c, name, k + 1, 0)
  BY <1>1, <1>3 DEF Scanning
<1>5. IF EndOfChain(next) THEN FsOpenFinish("NOT_FOUND")
      ELSE ctx' = Scan(ctx.walker, next, 0) /\ UNCHANGED told
  BY <1>4 DEF ProcessFat, GetNextCluster
<1>6. /\ k \in Nat /\ Len(chains[c]) \in Nat
      /\ k < Len(chains[c]) => next = chains[c][k + 1] /\ ~EndOfChain(chains[c][k + 1])
      /\ k = Len(chains[c]) => EndOfChain(next)
  BY <1>4, ChainFacts
<1>7. d \in Nat /\ d + 1 \in 1 .. Len(names) /\ T[d + 1] = LookUp(c, name)
  <2>1. d \in Nat /\ d + 1 \in 1 .. Len(names) /\ d + 1 - 1 = d
    OBVIOUS
  <2>2. T[d + 1] = Next(T[d], name)
    BY <2>1 DEF IsTrail
  <2> QED BY <1>4, <2>1, <2>2 DEF Next
<1> HIDE DEF c, name, next
<1>8. CASE k = Len(chains[c])
  <2>1. FsOpenFinish("NOT_FOUND")
    BY <1>5, <1>6, <1>8
  <2>2. ctx.state' = "NOT_FOUND" /\ ~Success'
    BY <1>4, <2>1, Finished
  <2>3. LookUp(c, name) = NoEntry
    BY <1>4, <1>8, AllPassed
  <2>4. T[Len(names)] = NoEntry
    BY <1>7, <2>3 DEF IsTrail
  <2> QED BY <2>2, <2>4 DEF Progress, Busy
<1>9. CASE k < Len(chains[c])
  <2>1. ctx' = Scan(ctx.walker, chains[c][k + 1], 0) /\ told' = told
    BY <1>5, <1>6, <1>9
  <2>2. k + 1 \in 1 .. Len(chains[c]) /\ parent' = c /\ 0 \in 0 .. SectorsPerCluster - 1
    BY <1>1, <1>4, <1>6, <1>9, FatAssumption
  <2> QED BY <1>1, <1>4, <2>1, <2>2, GoesOn DEF c, name
<1> QED BY <1>4, <1>6, <1>8, <1>9

(* An error, or a helper that does not come back.                            *)
LEMMA StopStep ==
  ASSUME NEW parts, NEW names, NEW T, Progress(parts, names, T), IoError \/ OpenHelperLost
  PROVE  Progress(parts, names, T)' /\ ctx.state' \in {"ERROR", "lost"}
<1>1. Busy /\ IsContext(ctx) /\ ~Success
  BY DEF IoError, OpenHelperLost, Progress, Busy, Scanning
<1>2. CASE IoError
  <2>1. ctx.state' = "ERROR" /\ ~Success'
    BY <1>1, <1>2, Finished DEF IoError
  <2> QED BY <2>1 DEF Progress, Busy
<1>3. CASE OpenHelperLost
  <2>1. ctx.state' = "lost" /\ ~Success'
    BY <1>1, <1>3 DEF OpenHelperLost, IsContext, Success
  <2> QED BY <2>1 DEF Progress, Busy
<1> QED BY <1>2, <1>3

(* The names are a sequence, and what is known of the trail holds of it.     *)
LEMMA TrailKnown ==
  ASSUME NEW parts \in Path, NEW dir
  PROVE  LET names == NamesLookedUp(parts)
         IN  /\ Len(names) \in Nat \ {0} /\ Trail(dir, names)[0] = DirOf(dir)
             /\ IsTrail(Trail(dir, names), names)
<1> DEFINE names == NamesLookedUp(parts)
<1>1. Len(names) \in Nat \ {0}
  <2>1. Len(parts) \in Nat
    BY DEF Path
  <2>2. (Len(parts) < 2 => Len(names) = 1) /\ (Len(parts) >= 2 => Len(names) = Len(parts))
    BY LookedUp
  <2> HIDE DEF names
  <2> QED BY <2>1, <2>2
<1> HIDE DEF names
<1>2. Trail(dir, names)[0] = DirOf(dir) /\ IsTrail(Trail(dir, names), names)
  BY <1>1, TrailSteps, TrailEnds DEF IsTrail
<1> QED BY <1>1, <1>2 DEF names

(* fs_open_submit: the scan starts in the initial directory.                 *)
LEMMA ScanStarts ==
  ASSUME Volume, UNCHANGED <<disk, chains>>, NEW parts, NEW names, NEW T, NEW w, NEW c \in ClusterOrNone,
         Len(names) \in Nat \ {0}, T[0] = DirOf(c), WalkerAt(w, parts, 0),
         ctx' = Scan(w, c, 0), parent' = c, ~Success, told' = told
  PROVE  Progress(parts, names, T)' /\ ctx.state' = "PARSE_DIR_SECTOR"
<1>1. T[0] # NoEntry /\ T[0].cluster = c
  <2>1. DirOf(c).kind = "dir" /\ DirOf(c).cluster = c
    BY DEF DirOf, NoEntry
  <2>2. NoEntry.kind = "none"
    BY DEF NoEntry
  <2>3. DirOf(c) # NoEntry
    BY <2>1, <2>2
  <2> QED BY <2>1, <2>3
<1>2. Passed(c, names[0 + 1], 1, 0) /\ 1 \in 1 .. Len(chains[c]) /\ chains[c][1] = c
  BY NothingPassed, ChainFacts
<1>3. 0 \in 0 .. SectorsPerCluster - 1 /\ 0 \in 0 .. Len(names) - 1
  BY FatAssumption
<1>4. ctx' = Scan(w, chains[c][1], 0)
  BY <1>2
<1> QED BY <1>1, <1>2, <1>3, <1>4, GoesOn

(* fs_open_submit keeps the invariant.                                       *)
LEMMA SubmitStep ==
  ASSUME OpenInv, NEW path \in Paths, NEW proc \in Procs, FsOpenSubmit(path, proc)
  PROVE  OpenInv'
<1>1. PICK parts, names, c, T, w :
        /\ parts = path.parts /\ names = NamesLookedUp(parts) /\ c = InitialDir(path, proc)
        /\ T = Trail(c, names)
        /\ w = [Advance([rest |-> parts, more |-> TRUE, component_83 |-> Blank])
                 EXCEPT !.component_83 = FirstName(parts)]
  OBVIOUS
<1>2. /\ ctx.state = "free" /\ UNCHANGED <<fat, helpers, disk, chains, out, told>>
      /\ request' = [path |-> path, proc |-> proc] /\ parent' = c /\ ctx' = Scan(w, c, 0)
  BY <1>1 DEF FsOpenSubmit
<1>3. parts \in Path /\ c \in ClusterOrNone
  BY <1>1, OpenAssumption DEF Path, InitialDir
<1>4. request'.path.parts = parts /\ Start' = c /\ Looked' = names
  <2>1. request'.path = path /\ request'.proc = proc
    BY <1>2
  <2> QED BY <1>1, <2>1 DEF Start, Looked, InitialDir
<1>5. Volume /\ Volume' /\ ~Success
  BY <1>2 DEF OpenInv, Volume, Progress
<1>6. Len(names) \in Nat \ {0} /\ T[0] = DirOf(c)
  BY <1>1, <1>3, TrailKnown
<1>7. WalkerAt(w, parts, 0)
  BY <1>1, <1>3, FirstWalker
<1>8. Trail(c, names)' = T
  BY <1>1, <1>2, SameTrail
<1>9. Trail(Start, Looked)' = T
  BY <1>4, <1>8
<1>10. Progress(parts, names, T)' /\ ctx.state' = "PARSE_DIR_SECTOR"
  BY <1>2, <1>3, <1>5, <1>6, <1>7, ScanStarts
<1>11. Progress(request.path.parts, Looked, Trail(Start, Looked))'
  BY <1>4, <1>9, <1>10
<1> QED BY <1>3, <1>4, <1>5, <1>10, <1>11 DEF OpenInv

-----------------------------------------------------------------------------
(* Every step does.                                                          *)
LEMMA OpenStep ==
  ASSUME OpenInv, [OpenNext]_ovars
  PROVE  OpenInv'
<1>1. CASE \E p \in Paths, i \in Procs : FsOpenSubmit(p, i)
  BY <1>1, SubmitStep
<1>2. ASSUME ParseDirSector \/ ProcessFat \/ OpenHelperLost \/ IoError \/ UNCHANGED ovars
      PROVE  OpenInv'
  <2>1. UNCHANGED <<fat, disk, chains, request>>
    BY <1>2 DEF ParseDirSector, ProcessFat, OpenHelperLost, IoError, ovars
  <2>2. PICK parts, names, T : parts = request.path.parts /\ names = Looked /\ T = Trail(Start, Looked)
    OBVIOUS
  <2>3. Volume /\ parts \in Path /\ Start \in ClusterOrNone /\ Progress(parts, names, T)
    BY <2>2 DEF OpenInv
  <2>4. names = NamesLookedUp(parts) /\ Len(names) \in Nat /\ IsTrail(T, names)
    BY <2>2, <2>3, TrailKnown DEF Looked
  <2>5. Looked' = names /\ Start' = Start /\ request.path.parts' = parts
    BY <2>1, <2>2 DEF Looked, Start, InitialDir
  <2>6. Trail(Start, Looked)' = T
    <3>1. PICK c : c = Start
      OBVIOUS
    <3>2. Trail(c, names)' = Trail(c, names)
      BY <2>1, SameTrail
    <3> QED BY <2>2, <2>5, <3>1, <3>2
  <2>7. Volume'
    BY <2>1, <2>3 DEF Volume
  <2>8. /\ Progress(parts, names, T)'
        /\ ctx.state' \in {"free", "PARSE_DIR_SECTOR", "PROCESS_FAT", "DONE", "NOT_FOUND", "ERROR", "lost"}
    <3>1. CASE ParseDirSector
      BY <2>3, <2>4, <3>1, ParseStep
    <3>2. CASE ProcessFat
      BY <2>3, <2>4, <3>2, FatStep
    <3>3. CASE OpenHelperLost \/ IoError
      BY <2>3, <3>3, StopStep
    <3>4. CASE UNCHANGED ovars
      <4>1. \A c, name, k, s : Passed(c, name, k, s)' <=> Passed(c, name, k, s)
        BY <2>1, SamePassed
      <4>2. \A d, k : Scanning(parts, names, T, d, k)' <=> Scanning(parts, names, T, d, k)
        BY <3>4, <4>1 DEF ovars, Scanning
      <4> QED BY <2>3, <3>4, <4>2 DEF ovars, Progress, Busy, Success, OpenInv
    <3> QED BY <1>2, <3>1, <3>2, <3>3, <3>4
  <2>9. Progress(request.path.parts, Looked, Trail(Start, Looked))'
    BY <2>5, <2>6, <2>8
  <2> QED BY <2>3, <2>5, <2>7, <2>8, <2>9 DEF OpenInv
<1> QED BY <1>1, <1>2 DEF OpenNext, FsOpenStep

(* It holds before the first open.                                           *)
LEMMA OpenStarts == OpenInit => OpenInv
<1> SUFFICES ASSUME OpenInit PROVE OpenInv
  OBVIOUS
<1>1. request.path.parts = <<>> /\ Start = Root
  BY DEF OpenInit, Start, InitialDir
<1>2. ctx.state = "free" /\ ~Success /\ Volume
  BY DEF OpenInit, Success, Volume
<1>3. Root \in ClusterOrNone /\ <<>> \in Path
  BY OpenAssumption DEF Path
<1> QED BY <1>1, <1>2, <1>3 DEF OpenInv, Progress, Busy

(* The state of an open, whatever the volume, the path and the number of     *)
(* sectors and entries: the directory on its trail that is being scanned,    *)
(* and that nothing the scan has passed could have ended it.                 *)
THEOREM OpenInvariance == OpenSpec => []OpenInv
<1>1. OpenInit => OpenInv
  BY OpenStarts
<1>2. OpenInv /\ [OpenNext]_ovars => OpenInv'
  BY OpenStep
<1> QED BY <1>1, <1>2, PTL DEF OpenSpec

(* An open that reports success has filled the FILE of its caller from the   *)
(* entry that the names it looks up lead to (fs_open_step, FSOPEN_DONE).     *)
THEOREM OpenAlwaysFindsEntry == OpenSpec => []OpenFindsEntry
<1>1. OpenInv => OpenFindsEntry
  BY DEF OpenInv, Progress, OpenFindsEntry, Resolve, Looked
<1> QED BY <1>1, OpenInvariance, PTL

(* The cluster it has stored as the parent is that of the directory in which *)
(* the entry was found.                                                      *)
THEOREM ParentAlwaysDirectory == OpenSpec => []ParentIsDirectory
<1>1. OpenInv => ParentIsDirectory
  BY DEF OpenInv, Progress, ParentIsDirectory, Looked
<1> QED BY <1>1, OpenInvariance, PTL

(* An open that ends in FSOPEN_NOT_FOUND was for a name that is not there:   *)
(* no sector, cluster or entry in front of the end mark was left out.        *)
THEOREM NotFoundAlwaysTrue == OpenSpec => []NotFoundIsTrue
<1>1. OpenInv => NotFoundIsTrue
  BY DEF OpenInv, Progress, NotFoundIsTrue, Resolve, Looked
<1> QED BY <1>1, OpenInvariance, PTL
=============================================================================
