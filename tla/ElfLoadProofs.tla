--------------------------- MODULE ElfLoadProofs ----------------------------
(* Files and the loader that reads them.  Part one: where seeks leave a file *)
(* and what a read copies, for every volume, every chain of clusters and     *)
(* every size in the directory entry, whatever I/O errors happen in between. *)
(* Part two: the loader, for every image and every order of completions and  *)
(* errors: which memory the process is left with, in which order program     *)
(* headers are read, and what a segment holds.                               *)
EXTENDS ElfLoad, TLAPS, FiniteSetTheorems

Index(offset) == SeekDecompose(offset).cluster_index

FILE(ch) ==
  [first_cluster : {ch[1]}, current_cluster : Cluster, current_sector : Nat,
   current_byte : Int, file_offset : Nat, file_size : Nat]

Call(ch) ==
  [op : {"open", "read", "seek", "close"}, n : Nat, file : FILE(ch),
   status : {-1, 0, 1, Pending, Lost}]

SeekCtx ==
  [state : {"WALK_FAT"}, current_cluster : Cluster, clusters_remaining : Int, target_offset : Nat]

ReadCtx == [state : {"COPY_CONTENTS", "LOAD_CONTENTS"}, bytes_remaining : Int]

Typed ==
  /\ IsChain(chain) /\ fat = FatOf(chain)
  /\ file \in FILE(chain) /\ call \in Call(chain)
  /\ io \in [lba : Int, callback : {"none", "fs_seek_step", "fs_read_step"}]
  /\ io.callback = "fs_seek_step" => sk \in SeekCtx
  /\ io.callback = "fs_read_step" => rd # NoCtx
  /\ rd \in ReadCtx \cup {NoCtx}
  /\ call.status # Pending => rd = NoCtx /\ io = NoIo

(* The walk has come to the cluster that lies clusters_remaining before the  *)
(* cluster of the target.                                                    *)
OnTheWay(ch, s, target) ==
  /\ s.clusters_remaining >= 1
  /\ \E j \in 1 .. Len(ch) :
       s.current_cluster = ch[j] /\ j + s.clusters_remaining = Index(target) + 1

(* While the caller's seek walks, nothing else has the file.                 *)
Walking ==
  call.op = "seek" /\ call.status = Pending =>
    /\ rd = NoCtx /\ io.callback = "fs_seek_step" /\ file = call.file
    /\ sk.target_offset = call.n
    /\ InStep(call.file) => OnTheWay(chain, sk, call.n)

(* Where a seek from f to target that succeeds leaves the file: a seek back  *)
(* into the first cluster keeps the cluster it finds.                        *)
Landed(f, g, target) ==
  /\ InChain(target)
  /\ g = At(f, IF IntoFirst(f, target) THEN f.current_cluster ELSE ClusterOf(target), target)

SeekPlaced == Done("seek") /\ InStep(call.file) => Landed(call.file, file, call.n)

(* The inductive invariant.                                                  *)
IInv == Typed /\ Walking /\ FailedSeekKeepsPlace /\ SeekPlaced

-----------------------------------------------------------------------------
(* Quotient and remainder by a positive number.                              *)
LEMMA Division ==
  ASSUME NEW n \in Nat, NEW c \in Nat \ {0}
  PROVE  n \div c \in Nat /\ n % c \in Nat /\ (n \div c = 0 <=> n < c)
<1>1. n \div c \in Int /\ n % c \in 0 .. c - 1
  BY Z3
<1>2. n \div c >= 0
  BY Z3
<1>3. n < c => n \div c = 0
  BY Z3
<1>4. n \div c = 0 => n < c
  BY Z3
<1> QED BY <1>1, <1>2, <1>3, <1>4

(* A cluster has bytes.                                                      *)
LEMMA ClusterSizePositive == ClusterSize \in Nat \ {0}
BY FatAssumption, Z3 DEF ClusterSize

(* The parts of an offset are natural; the index is 0 in the first cluster.  *)
LEMMA Decompose ==
  ASSUME NEW o \in Nat
  PROVE  /\ Index(o) \in Nat /\ Index(o) = o \div ClusterSize
         /\ SeekDecompose(o).sector_in_cluster \in Nat
         /\ SeekDecompose(o).byte_in_sector \in Nat
         /\ Index(o) = 0 <=> o < ClusterSize
<1>1. o \div ClusterSize \in Nat /\ o % ClusterSize \in Nat /\ (o \div ClusterSize = 0 <=> o < ClusterSize)
  BY Division, ClusterSizePositive
<1>2. (o % ClusterSize) \div SectorSize \in Nat /\ (o % ClusterSize) % SectorSize \in Nat
  BY <1>1, Division, FatAssumption
<1> QED BY <1>1, <1>2 DEF Index, SeekDecompose

(* Positioning a file keeps it well-formed.                                  *)
LEMMA AtType ==
  ASSUME NEW ch, NEW f \in FILE(ch), NEW c \in Cluster, NEW o \in Nat
  PROVE  At(f, c, o) \in FILE(ch)
<1> DEFINE p == SeekDecompose(o)
<1>1. p.sector_in_cluster \in Nat /\ p.byte_in_sector \in Nat
  BY Decompose
<1>2. At(f, c, o) = [f EXCEPT !.current_cluster = c, !.current_sector = p.sector_in_cluster,
                              !.current_byte = p.byte_in_sector, !.file_offset = o]
  BY DEF At
<1> HIDE DEF p
<1>3. p.byte_in_sector \in Int
  BY <1>1
<1> QED BY <1>1, <1>2, <1>3 DEF FILE

(* The FAT entry of a cluster of the chain is the next one, or the end mark. *)
LEMMA NextInChain ==
  ASSUME NEW ch, IsChain(ch), NEW j \in 1 .. Len(ch)
  PROVE  /\ FatOf(ch)[ch[j]] = IF j < Len(ch) THEN ch[j + 1] ELSE EOC
         /\ ch[j] \in Cluster
<1>1. ch[j] \in Cluster /\ Len(ch) \in Nat
  BY DEF IsChain
<1>2. CASE j < Len(ch)
  <2>1. j \in 1 .. Len(ch) - 1
    BY <1>1, <1>2
  <2> DEFINE i == CHOOSE i \in 1 .. Len(ch) - 1 : ch[i] = ch[j]
  <2>2. i \in 1 .. Len(ch) - 1 /\ ch[i] = ch[j]
    BY <2>1
  <2>3. i = j
    BY <2>2, <1>1 DEF IsChain
  <2> HIDE DEF i
  <2>4. FatOf(ch)[ch[j]] = ch[i + 1]
    BY <1>1, <2>1 DEF FatOf, i
  <2> QED BY <1>1, <1>2, <2>3, <2>4
<1>3. CASE j = Len(ch)
  <2>1. ~ \E i \in 1 .. Len(ch) - 1 : ch[i] = ch[j]
    BY <1>1, <1>3 DEF IsChain
  <2> QED BY <1>1, <1>3, <2>1 DEF FatOf
<1> QED BY <1>1, <1>2, <1>3

(* Any entry that does not end a chain is a cluster.                         *)
LEMMA NextIsCluster ==
  ASSUME NEW ch, IsChain(ch), NEW c \in Cluster, ~EndOfChain(FatOf(ch)[c])
  PROVE  FatOf(ch)[c] \in Cluster
<1>1. CASE \E i \in 1 .. Len(ch) - 1 : ch[i] = c
  <2> DEFINE i == CHOOSE i \in 1 .. Len(ch) - 1 : ch[i] = c
  <2>1. i \in 1 .. Len(ch) - 1
    BY <1>1
  <2>2. FatOf(ch)[c] = ch[i + 1]
    BY <1>1 DEF FatOf
  <2> HIDE DEF i
  <2> QED BY <2>1, <2>2 DEF IsChain
<1>2. CASE ~ \E i \in 1 .. Len(ch) - 1 : ch[i] = c
  <2>1. FatOf(ch)[c] \in {EOC, 0}
    BY <1>2 DEF FatOf
  <2> QED BY <2>1, FatAssumption DEF EndOfChain
<1> QED BY <1>1, <1>2

-----------------------------------------------------------------------------
(* fs_seek_submit either answers at once, well-formed, or starts a walk from *)
(* a cluster of the chain and leaves the file alone.                         *)
LEMMA Submit ==
  ASSUME IsChain(chain), NEW f \in FILE(chain), NEW o \in Nat
  PROVE  LET a == SeekSubmit(f, o)
         IN  /\ a.status \in {-1, 0, Pending} /\ a.file \in FILE(chain)
             /\ a.status # 0 => a.file = f
             /\ a.status # Pending => a.sk = NoCtx
             /\ a.status = Pending => a.sk \in SeekCtx /\ a.sk.target_offset = o
             /\ a.status = Pending /\ InStep(f) => OnTheWay(chain, a.sk, o)
             /\ a.status = 0 /\ InStep(f) => Landed(f, a.file, o)
<1> DEFINE a      == SeekSubmit(f, o)
           target == Index(o)
           here   == Index(f.file_offset)
           start  == SeekStart(f, target, here)
           hops   == target - start[2]
<1>1. /\ f.file_offset \in Nat /\ f.file_size \in Nat
      /\ f.current_cluster \in Cluster /\ f.first_cluster = chain[1]
  BY DEF FILE
<1>2. target \in Nat /\ here \in Nat
  BY <1>1, Decompose
<1>3. /\ chain[1] \in Cluster /\ Len(chain) \in Nat /\ Len(chain) >= 1
  BY DEF IsChain
<1>4. \/ target >= here /\ start[1] = f.current_cluster /\ start[2] = here
      \/ target < here /\ start[1] = chain[1] /\ start[2] = 0
  BY <1>1, <1>2 DEF SeekStart
<1>5. hops \in Int /\ start[1] \in Cluster /\ hops >= 0
  BY <1>1, <1>2, <1>3, <1>4
<1>6. a = IF o > f.file_size THEN Answer(f, -1)
          ELSE IF hops = 0 THEN Answer(At(f, f.current_cluster, o), 0)
          ELSE Walk(f, start[1], hops, o)
  BY DEF SeekSubmit, Index
<1>7. InStep(f) => here + 1 \in 1 .. Len(chain) /\ f.current_cluster = chain[here + 1]
  <2> SUFFICES ASSUME InStep(f) PROVE here + 1 \in 1 .. Len(chain) /\ f.current_cluster = chain[here + 1]
    OBVIOUS
  <2>1. f.file_offset \div ClusterSize < Len(chain) /\ f.current_cluster = chain[here + 1]
    BY DEF InStep, InChain, ClusterOf, Index
  <2>2. here = f.file_offset \div ClusterSize
    BY <1>1, Decompose
  <2> QED BY <1>2, <1>3, <2>1, <2>2
<1> HIDE DEF a, target, here, start, hops
<1>8. CASE o > f.file_size
  BY <1>6, <1>8 DEF Answer, a, Pending
<1>9. CASE ~(o > f.file_size) /\ hops = 0
  <2>1. a.file = At(f, f.current_cluster, o) /\ a.sk = NoCtx /\ a.status = 0
    BY <1>6, <1>9 DEF Answer
  <2>2. a.file \in FILE(chain)
    BY <1>1, <2>1, AtType
  <2>3. ASSUME InStep(f) PROVE Landed(f, a.file, o)
    <3>1. o < ClusterSize <=> target = 0
      BY Decompose DEF target
    <3>2. f.file_offset >= ClusterSize <=> here # 0
      <4>1. f.file_offset < ClusterSize <=> here = 0
        BY <1>1, Decompose DEF here
      <4> QED BY <4>1, <1>1, ClusterSizePositive
    <3>3. InChain(o) <=> target < Len(chain)
      BY Decompose DEF InChain, target
    <3>4. ClusterOf(o) = chain[target + 1]
      BY DEF ClusterOf, target, Index
    <3>5. CASE target >= here
      <4>1. target = here
        BY <1>2, <1>4, <1>9, <3>5 DEF hops
      <4>2. InChain(o) /\ f.current_cluster = ClusterOf(o) /\ ~(o < ClusterSize /\ f.file_offset >= ClusterSize)
        BY <1>2, <1>3, <1>7, <2>3, <3>1, <3>2, <3>3, <3>4, <4>1
      <4> QED BY <2>1, <4>2 DEF Landed, IntoFirst
    <3>6. CASE target < here
      <4>1. target = 0 /\ here # 0
        BY <1>2, <1>4, <1>9, <3>6 DEF hops
      <4>2. InChain(o) /\ o < ClusterSize /\ f.file_offset >= ClusterSize
        BY <1>3, <3>1, <3>2, <3>3, <4>1
      <4> QED BY <2>1, <4>2 DEF Landed, IntoFirst
    <3> QED BY <1>2, <3>5, <3>6
  <2> QED BY <2>1, <2>2, <2>3 DEF a, Pending
<1>10. CASE ~(o > f.file_size) /\ hops # 0
  <2>1. /\ a.file = f /\ a.status = Pending
        /\ a.sk = [state |-> "WALK_FAT", current_cluster |-> start[1],
                   clusters_remaining |-> hops, target_offset |-> o]
    BY <1>6, <1>10 DEF Walk
  <2>2. a.sk \in SeekCtx /\ a.sk.target_offset = o
    BY <1>5, <2>1 DEF SeekCtx
  <2>3. ASSUME InStep(f) PROVE OnTheWay(chain, a.sk, o)
    <3>1. a.sk.current_cluster = start[1] /\ a.sk.clusters_remaining = hops /\ hops >= 1
      BY <1>5, <1>10, <2>1
    <3>2. start[2] \in Nat /\ start[2] + 1 \in 1 .. Len(chain) /\ start[1] = chain[start[2] + 1]
      BY <1>2, <1>3, <1>4, <1>7, <2>3
    <3>3. (start[2] + 1) + hops = target + 1
      BY <1>2, <3>2 DEF hops
    <3> QED BY <3>1, <3>2, <3>3 DEF OnTheWay, target
  <2> QED BY <2>1, <2>2, <2>3 DEF a, Pending
<1> QED BY <1>5, <1>8, <1>9, <1>10 DEF a

(* A walk that is on its way is one hop further after a step, and in the     *)
(* cluster of the target after the last one.                                 *)
LEMMA Hop ==
  ASSUME IsChain(chain), fat = FatOf(chain), sk \in SeekCtx, NEW target \in Nat,
         OnTheWay(chain, sk, target), ~EndOfChain(GetNextCluster(sk.current_cluster))
  PROVE  LET next == GetNextCluster(sk.current_cluster)
             left == sk.clusters_remaining - 1
         IN  /\ left # 0 =>
                  OnTheWay(chain, [sk EXCEPT !.current_cluster = next, !.clusters_remaining = left], target)
             /\ left = 0 => InChain(target) /\ next = ClusterOf(target) /\ ~(target < ClusterSize)
<1> DEFINE next == GetNextCluster(sk.current_cluster)
           left == sk.clusters_remaining - 1
<1>1. PICK j \in 1 .. Len(chain) :
        sk.current_cluster = chain[j] /\ j + sk.clusters_remaining = Index(target) + 1
  BY DEF OnTheWay
<1>2. sk.clusters_remaining \in Int /\ sk.clusters_remaining >= 1 /\ Index(target) \in Nat /\ Len(chain) \in Nat
  BY Decompose DEF OnTheWay, SeekCtx, IsChain
<1>3. next = (IF j < Len(chain) THEN chain[j + 1] ELSE EOC)
  BY <1>1, NextInChain DEF GetNextCluster
<1>4. j < Len(chain) /\ next = chain[j + 1]
  BY <1>3, FatAssumption DEF EndOfChain
<1>5. ASSUME left # 0
      PROVE  OnTheWay(chain, [sk EXCEPT !.current_cluster = next, !.clusters_remaining = left], target)
  <2> DEFINE s == [sk EXCEPT !.current_cluster = next, !.clusters_remaining = left]
  <2>1. s.current_cluster = next /\ s.clusters_remaining = left
    BY DEF SeekCtx
  <2>2. left >= 1 /\ j + 1 \in 1 .. Len(chain) /\ (j + 1) + left = Index(target) + 1
    <3>1. ASSUME NEW r \in Int, NEW x \in Nat, NEW l \in Nat, NEW h \in 1 .. l,
                 r >= 1, r - 1 # 0, h + r = x + 1, h < l
          PROVE  r - 1 >= 1 /\ h + 1 \in 1 .. l /\ (h + 1) + (r - 1) = x + 1
      BY <3>1
    <3> HIDE DEF next
    <3> QED BY <1>1, <1>2, <1>4, <1>5, <3>1
  <2> HIDE DEF s, next, left
  <2>3. /\ s.clusters_remaining >= 1
        /\ s.current_cluster = chain[j + 1] /\ (j + 1) + s.clusters_remaining = Index(target) + 1
    BY <2>1, <2>2, <1>4, Zenon
  <2>4. OnTheWay(chain, s, target)
    BY <2>2, <2>3 DEF OnTheWay
  <2> QED BY <2>4 DEF s
<1>6. ASSUME left = 0 PROVE InChain(target) /\ next = ClusterOf(target) /\ ~(target < ClusterSize)
  <2>1. Index(target) = j /\ Index(target) # 0
    BY <1>1, <1>2, <1>6
  <2>2. Index(target) = target \div ClusterSize /\ ~(target < ClusterSize)
    BY <2>1, Decompose
  <2> QED BY <1>4, <2>1, <2>2 DEF InChain, ClusterOf, Index
<1> QED BY <1>5, <1>6

-----------------------------------------------------------------------------
(* An open file is where its directory entry says, and nobody uses it.       *)
LEMMA InitIInv == FileInit => IInv
<1> SUFFICES ASSUME NEW f \in Files, FileOpen(f) PROVE IInv
  BY DEF FileInit
<1>1. IsChain(chain) /\ f.size \in Nat /\ chain = f.chain
  BY FilesAssumption DEF FileOpen
<1>2. chain[1] \in Cluster
  BY <1>1 DEF IsChain
<1>3. file \in FILE(chain)
  BY <1>1, <1>2 DEF FileOpen, Opened, FILE
<1>4. call \in Call(chain) /\ call.op = "open" /\ call.status = 0
  BY <1>3 DEF FileOpen, Call
<1>5. Typed
  BY <1>1, <1>3, <1>4 DEF FileOpen, Typed, NoIo
<1> QED BY <1>4, <1>5 DEF IInv, Walking, FailedSeekKeepsPlace, SeekPlaced, Done

(* The volume and the file's chain never change.                             *)
LEMMA Volume ==
  ASSUME [FileNext]_fvars
  PROVE  fat' = fat /\ chain' = chain
BY DEF FileNext, fvars, Client, IoDone, FsReadSubmit, FsSeekWhence, FsSeekUnknown, FsCloseSubmit,
       FsSeekStep, FsReadStep, FatHelperLost

(* SeekPlaced and the place of a walk, as conditions on the next state.      *)
LEMMA Primed ==
  ASSUME chain' = chain
  PROVE  /\ (call'.op = "seek" /\ call'.status = 0 /\ InStep(call'.file) =>
               Landed(call'.file, file', call'.n))
            => SeekPlaced'
         /\ (call'.op = "seek" /\ call'.status = Pending =>
               /\ rd' = NoCtx /\ io'.callback = "fs_seek_step" /\ file' = call'.file
               /\ sk'.target_offset = call'.n
               /\ InStep(call'.file) => OnTheWay(chain, sk', call'.n))
            => Walking'
BY DEF SeekPlaced, Landed, IntoFirst, Walking, InStep, InChain, ClusterOf, Done

(* The sector a file stands in has a number.                                 *)
LEMMA SectorType ==
  ASSUME NEW ch, NEW f \in FILE(ch)
  PROVE  DataSector(f) \in Int
<1>1. f.current_cluster \in Int /\ f.current_sector \in Int
  <2>1. f.current_cluster \in Cluster /\ f.current_sector \in Nat
    BY DEF FILE
  <2>2. \A c \in Cluster : c \in Int
    BY FatAssumption
  <2> QED BY <2>1, <2>2
<1>2. \A a, b \in Int : a * b \in Int
  OBVIOUS
<1>3. f.current_cluster - 2 \in Int /\ SectorsPerCluster \in Int /\ ClusterBeginLba \in Int
  BY <1>1, FatAssumption
<1>4. (f.current_cluster - 2) * SectorsPerCluster \in Int
  BY <1>2, <1>3
<1> QED BY <1>1, <1>3, <1>4 DEF DataSector, ClusterToLba

(* The caller starts an operation.                                           *)
LEMMA ReadSubmitIInv ==
  ASSUME IInv, NEW n \in Nat, FsReadSubmit(n)
  PROVE  IInv'
<1>1. chain' = chain /\ fat' = fat /\ file' = file
  BY DEF FsReadSubmit
<1>2. n \in Nat /\ IsChain(chain) /\ fat = FatOf(chain) /\ file \in FILE(chain)
  BY FilesAssumption DEF IInv, Typed
<1>3. call' \in Call(chain) /\ call'.op = "read" /\ call'.status = Pending
  BY <1>2 DEF FsReadSubmit, Call
<1>4. DataSector(file) \in Int
  BY <1>2, SectorType
<1>5. /\ rd' \in ReadCtx /\ rd' # NoCtx /\ io' \in [lba : Int, callback : {"none", "fs_seek_step", "fs_read_step"}]
      /\ io'.callback = "fs_read_step"
  BY <1>2, <1>4 DEF FsReadSubmit, Post, ReadCtx, NoCtx
<1>6. Typed'
  BY <1>1, <1>2, <1>3, <1>5 DEF Typed
<1> QED BY <1>1, <1>3, <1>6, Primed DEF IInv, FailedSeekKeepsPlace

(* A call of fs_seek, whether it fails, is done at once or starts a walk.    *)
LEMMA SeekWhenceIInv ==
  ASSUME IInv, NEW o \in Int, NEW w \in {"SET", "CUR", "END"}, FsSeekWhence(o, w)
  PROVE  IInv'
<1> DEFINE t == SeekTarget(file, o, w)
           a == SeekSubmit(file, t)
<1>1. chain' = chain /\ fat' = fat /\ rd' = rd /\ file' = a.file /\ sk' = a.sk
  BY DEF FsSeekWhence
<1>2. /\ IsChain(chain) /\ fat = FatOf(chain) /\ file \in FILE(chain) /\ o \in Int
      /\ rd = NoCtx
  BY FilesAssumption DEF IInv, Typed, FsSeekWhence, Idle
<1>3. t \in Nat
  <2>1. file.file_offset \in Nat /\ file.file_size \in Nat
    BY <1>2 DEF FILE
  <2> QED BY <1>2, <2>1, FilesAssumption DEF SeekTarget
<1> HIDE DEF t
<1>4. /\ a.status \in {-1, 0, Pending} /\ a.file \in FILE(chain)
      /\ a.status # 0 => a.file = file
      /\ a.status # Pending => a.sk = NoCtx
      /\ a.status = Pending => a.sk \in SeekCtx /\ a.sk.target_offset = t
      /\ a.status = Pending /\ InStep(file) => OnTheWay(chain, a.sk, t)
      /\ a.status = 0 /\ InStep(file) => Landed(file, a.file, t)
  BY <1>2, <1>3, Submit
<1>5. call' = [op |-> "seek", n |-> t, file |-> file, status |-> a.status]
  BY DEF FsSeekWhence, t
<1>6. io' = IF a.status = Pending THEN [lba |-> 0, callback |-> "fs_seek_step"] ELSE NoIo
  BY DEF FsSeekWhence, FatRead, Post, t
<1> HIDE DEF a
<1>7. call' \in Call(chain) /\ call'.op = "seek" /\ call'.n = t /\ call'.file = file /\ call'.status = a.status
  BY <1>2, <1>3, <1>4, <1>5 DEF Call
<1>8. Typed'
  BY <1>1, <1>2, <1>4, <1>6, <1>7 DEF Typed, NoIo, Pending
<1>9. SeekPlaced'
  BY <1>1, <1>4, <1>7, Primed
<1>10. Walking'
  BY <1>1, <1>2, <1>4, <1>6, <1>7, Primed DEF Pending
<1>11. FailedSeekKeepsPlace'
  BY <1>1, <1>4, <1>7 DEF FailedSeekKeepsPlace, Pending
<1> QED BY <1>8, <1>9, <1>10, <1>11 DEF IInv

(* A call of fs_seek with an unknown whence.                                 *)
LEMMA UnknownIInv ==
  ASSUME IInv, FsSeekUnknown
  PROVE  IInv'
<1>1. /\ chain' = chain /\ fat' = fat /\ file' = file /\ rd' = rd /\ sk' = sk /\ io' = io
      /\ call' = [op |-> "seek", n |-> 0, file |-> file, status |-> -1]
  BY DEF FsSeekUnknown
<1>2. Typed /\ call.status # Pending
  BY DEF IInv, FsSeekUnknown, Idle
<1>3. call' \in Call(chain) /\ call'.op = "seek" /\ call'.status = -1 /\ call'.file = file
  BY <1>1, <1>2 DEF Call, Typed
<1>4. Typed'
  BY <1>1, <1>2, <1>3 DEF Typed, Pending
<1> QED BY <1>1, <1>3, <1>4, Primed DEF IInv, FailedSeekKeepsPlace, Pending

(* A call of fs_close.                                                       *)
LEMMA CloseIInv ==
  ASSUME IInv, FsCloseSubmit
  PROVE  IInv'
<1>1. /\ chain' = chain /\ fat' = fat /\ file' = file /\ rd' = rd /\ sk' = sk /\ io' = io
      /\ call' = [op |-> "close", n |-> 0, file |-> file, status |-> 0]
  BY DEF FsCloseSubmit
<1>2. Typed /\ call.status # Pending
  BY DEF IInv, FsCloseSubmit, Idle
<1>3. call' \in Call(chain) /\ call'.op = "close" /\ call'.status = 0
  BY <1>1, <1>2 DEF Call, Typed
<1>4. Typed'
  BY <1>1, <1>2, <1>3 DEF Typed
<1> QED BY <1>1, <1>3, <1>4, Primed DEF IInv, FailedSeekKeepsPlace

-----------------------------------------------------------------------------
IoType == [lba : Int, callback : {"none", "fs_seek_step", "fs_read_step"}]

(* An operation ends with the status it reports.                             *)
LEMMA FinishFacts ==
  ASSUME call \in Call(chain), NEW status \in {-1, 0, 1}, Finish(status)
  PROVE  /\ call' \in Call(chain) /\ call'.op = call.op /\ call'.n = call.n
         /\ call'.file = call.file /\ call'.status = status
         /\ rd' = NoCtx /\ io' = NoIo /\ io' \in IoType /\ io'.callback = "none"
BY DEF Finish, Call, NoIo, IoType

(* A seek that is over either ends the operation or lets its read go on.     *)
LEMMA SeekDoneFacts ==
  ASSUME call \in Call(chain), call.status = Pending, NEW f \in FILE(chain),
         NEW r \in ReadCtx \cup {NoCtx}, NEW status \in {-1, 0}, SeekDone(f, r, status)
  PROVE  /\ call' \in Call(chain) /\ call'.op = call.op /\ call'.n = call.n /\ call'.file = call.file
         /\ rd' \in ReadCtx \cup {NoCtx} /\ io' \in IoType
         /\ io'.callback # "fs_seek_step"
         /\ io'.callback = "fs_read_step" => rd' # NoCtx
         /\ call'.status # Pending => rd' = NoCtx /\ io' = NoIo
         /\ r = NoCtx => call'.status = status
<1>1. CASE r = NoCtx
  <2>1. Finish(status)
    BY <1>1 DEF SeekDone
  <2> QED BY <1>1, <2>1, FinishFacts
<1>2. CASE r # NoCtx /\ status # 0
  <2>1. Finish(1)
    BY <1>2 DEF SeekDone
  <2> QED BY <1>2, <2>1, FinishFacts
<1>3. CASE r # NoCtx /\ status = 0
  <2>1. /\ io' = [lba |-> DataSector(f), callback |-> "fs_read_step"]
        /\ rd' = [r EXCEPT !.state = "COPY_CONTENTS"] /\ call' = call
    BY <1>3 DEF SeekDone, Post
  <2>2. rd' \in ReadCtx /\ rd' # NoCtx
    <3>1. r \in ReadCtx
      BY <1>3
    <3>2. rd' \in ReadCtx /\ rd'.state = "COPY_CONTENTS"
      BY <2>1, <3>1 DEF ReadCtx
    <3> QED BY <3>2 DEF NoCtx
  <2>3. io' \in IoType /\ io'.callback = "fs_read_step"
    BY <2>1, SectorType DEF IoType
  <2> QED BY <1>3, <2>1, <2>2, <2>3
<1> QED BY <1>1, <1>2, <1>3

(* One hop of a walk, the caller's or a read's.                              *)
LEMMA SeekStepIInv ==
  ASSUME IInv, NEW status \in {0, 1}, FsSeekStep(status)
  PROVE  IInv'
<1> DEFINE next == GetNextCluster(sk.current_cluster)
           left == sk.clusters_remaining - 1
           here == At(file, next, sk.target_offset)
<1>1. chain' = chain /\ fat' = fat /\ io.callback = "fs_seek_step"
  BY DEF FsSeekStep
<1>2. /\ Typed /\ IsChain(chain) /\ fat = FatOf(chain) /\ file \in FILE(chain) /\ call \in Call(chain)
      /\ sk \in SeekCtx /\ rd \in ReadCtx \cup {NoCtx} /\ call.status = Pending
      /\ sk.target_offset \in Nat /\ sk.current_cluster \in Cluster /\ sk.clusters_remaining \in Int
  <2>1. Typed /\ sk \in SeekCtx
    BY <1>1 DEF IInv, Typed
  <2>2. io # NoIo
    BY <1>1 DEF NoIo
  <2> QED BY <2>1, <2>2 DEF Typed, SeekCtx
<1>3. ASSUME call.op = "seek"
      PROVE  /\ rd = NoCtx /\ file = call.file /\ sk.target_offset = call.n
             /\ InStep(call.file) => OnTheWay(chain, sk, call.n)
  BY <1>2, <1>3 DEF IInv, Walking
<1>4. \/ SeekDone(file, rd, -1) /\ file' = file
      \/ ~EndOfChain(next) /\ left = 0 /\ file' = here /\ SeekDone(here, rd, 0)
      \/ /\ ~EndOfChain(next) /\ left # 0
         /\ sk' = [sk EXCEPT !.current_cluster = next, !.clusters_remaining = left]
         /\ io' = [lba |-> 0, callback |-> "fs_seek_step"]
         /\ file' = file /\ rd' = rd /\ call' = call
  BY DEF FsSeekStep, FatRead, Post
<1>5. ~EndOfChain(next) => next \in Cluster /\ here \in FILE(chain)
  <2> SUFFICES ASSUME ~EndOfChain(next) PROVE next \in Cluster /\ here \in FILE(chain)
    OBVIOUS
  <2>1. next \in Cluster
    BY <1>2, NextIsCluster DEF GetNextCluster
  <2> QED BY <1>2, <2>1, AtType
<1>6. call.op = "seek" /\ InStep(call.file) /\ ~EndOfChain(next) =>
        /\ left # 0 =>
             OnTheWay(chain, [sk EXCEPT !.current_cluster = next, !.clusters_remaining = left], call.n)
        /\ left = 0 => InChain(call.n) /\ next = ClusterOf(call.n) /\ ~(call.n < ClusterSize)
  <2> SUFFICES ASSUME call.op = "seek", InStep(call.file), ~EndOfChain(next)
               PROVE  /\ left # 0 =>
                            OnTheWay(chain, [sk EXCEPT !.current_cluster = next, !.clusters_remaining = left], call.n)
                      /\ left = 0 => InChain(call.n) /\ next = ClusterOf(call.n) /\ ~(call.n < ClusterSize)
    OBVIOUS
  <2>1. call.n \in Nat
    BY <1>2 DEF Call
  <2> QED BY <1>2, <1>3, <2>1, Hop
<1> HIDE DEF next, left, here
<1>7. CASE SeekDone(file, rd, -1) /\ file' = file
  <2>1. /\ call' \in Call(chain) /\ call'.op = call.op /\ call'.file = call.file
        /\ rd' \in ReadCtx \cup {NoCtx} /\ io' \in IoType
        /\ io'.callback # "fs_seek_step"
        /\ io'.callback = "fs_read_step" => rd' # NoCtx
        /\ call'.status # Pending => rd' = NoCtx /\ io' = NoIo
        /\ rd = NoCtx => call'.status = -1
    BY <1>2, <1>7, SeekDoneFacts
  <2>2. Typed'
    BY <1>1, <1>2, <1>7, <2>1 DEF Typed, IoType
  <2>3. call'.op = "seek" => call'.status = -1 /\ file' = call'.file
    BY <1>3, <1>7, <2>1
  <2> QED BY <1>1, <2>2, <2>3, Primed DEF IInv, FailedSeekKeepsPlace, Pending
<1>8. CASE ~EndOfChain(next) /\ left = 0 /\ file' = here /\ SeekDone(here, rd, 0)
  <2>1. /\ call' \in Call(chain) /\ call'.op = call.op /\ call'.n = call.n /\ call'.file = call.file
        /\ rd' \in ReadCtx \cup {NoCtx} /\ io' \in IoType
        /\ io'.callback # "fs_seek_step"
        /\ io'.callback = "fs_read_step" => rd' # NoCtx
        /\ call'.status # Pending => rd' = NoCtx /\ io' = NoIo
        /\ rd = NoCtx => call'.status = 0
    BY <1>2, <1>5, <1>8, SeekDoneFacts
  <2>2. Typed'
    BY <1>1, <1>2, <1>5, <1>8, <2>1 DEF Typed, IoType
  <2>3. call'.op = "seek" => call'.status = 0
    BY <1>3, <2>1
  <2>4. ASSUME call'.op = "seek", InStep(call'.file) PROVE Landed(call'.file, file', call'.n)
    <3>1. InChain(call.n) /\ next = ClusterOf(call.n) /\ ~(call.n < ClusterSize)
      BY <1>6, <1>8, <2>1, <2>4
    <3>2. file' = At(call.file, ClusterOf(call.n), call.n)
      BY <1>3, <1>8, <2>1, <2>4, <3>1 DEF here
    <3> QED BY <2>1, <3>1, <3>2 DEF Landed, IntoFirst
  <2> QED BY <1>1, <2>2, <2>3, <2>4, Primed DEF IInv, FailedSeekKeepsPlace, Pending
<1>9. CASE /\ ~EndOfChain(next) /\ left # 0
           /\ sk' = [sk EXCEPT !.current_cluster = next, !.clusters_remaining = left]
           /\ io' = [lba |-> 0, callback |-> "fs_seek_step"]
           /\ file' = file /\ rd' = rd /\ call' = call
  <2>1. left \in Int /\ io' \in IoType /\ io'.callback = "fs_seek_step"
    BY <1>2, <1>9 DEF left, IoType
  <2>2. sk' \in SeekCtx /\ sk'.target_offset = sk.target_offset
    BY <1>2, <1>5, <1>9, <2>1 DEF SeekCtx
  <2>3. Typed'
    BY <1>1, <1>2, <1>9, <2>1, <2>2 DEF Typed, IoType
  <2>4. Walking'
    BY <1>1, <1>3, <1>6, <1>9, <2>1, <2>2, Primed
  <2>5. FailedSeekKeepsPlace' /\ SeekPlaced'
    BY <1>1, <1>2, <1>3, <1>9, Primed DEF FailedSeekKeepsPlace, Pending
  <2> QED BY <2>3, <2>4, <2>5 DEF IInv
<1> QED BY <1>4, <1>7, <1>8, <1>9

(* A read that copies bytes, ends or goes on never touches a seek of the     *)
(* caller.                                                                   *)
LEMMA ReadStepIInv ==
  ASSUME IInv, NEW status \in {0, 1}, FsReadStep(status)
  PROVE  IInv'
<1> DEFINE n    == Chunk(file, rd)
           left == rd.bytes_remaining - n
           r    == [state |-> "LOAD_CONTENTS", bytes_remaining |-> left]
           t    == SeekTarget(file, n, "CUR")
           a    == SeekSubmit(file, t)
<1>1. chain' = chain /\ fat' = fat /\ io.callback = "fs_read_step"
  BY DEF FsReadStep
<1>2. /\ IsChain(chain) /\ fat = FatOf(chain) /\ file \in FILE(chain) /\ call \in Call(chain)
      /\ rd \in ReadCtx /\ call.status = Pending /\ call.op # "seek"
  <2>1. Typed /\ rd # NoCtx
    BY <1>1 DEF IInv, Typed
  <2>2. io # NoIo /\ io.callback # "fs_seek_step"
    BY <1>1 DEF NoIo
  <2> QED BY <2>1, <2>2 DEF IInv, Typed, Walking
<1>3. n \in Int /\ left \in Int /\ r \in ReadCtx
  BY <1>2, FatAssumption DEF Chunk, FILE, ReadCtx
<1>4. t \in Nat
  <2>1. file.file_offset \in Nat
    BY <1>2 DEF FILE
  <2> QED BY <1>3, <2>1, FilesAssumption DEF SeekTarget
<1>5. \/ Finish(1) /\ file' = file
      \/ Finish(0) /\ file' = [file EXCEPT !.current_byte = @ + n]
      \/ /\ file' = a.file
         /\ \/ a.status = Pending /\ sk' = a.sk /\ rd' = r /\ FatRead /\ call' = call
            \/ a.status # Pending /\ SeekDone(a.file, r, a.status)
  BY DEF FsReadStep, Seek
<1> HIDE DEF t, r, n, left
<1>6. /\ a.status \in {-1, 0, Pending} /\ a.file \in FILE(chain)
      /\ a.status = Pending => a.sk \in SeekCtx
  BY <1>2, <1>4, Submit
<1> HIDE DEF a
<1>7. Typed' /\ call'.op # "seek"
  <2>1. CASE Finish(1) /\ file' = file
    <3>1. call' \in Call(chain) /\ call'.op = call.op /\ rd' = NoCtx /\ io' = NoIo /\ io' \in IoType /\ io'.callback = "none"
      BY <1>2, <2>1, FinishFacts
    <3> QED BY <1>1, <1>2, <2>1, <3>1 DEF Typed, IoType
  <2>2. CASE Finish(0) /\ file' = [file EXCEPT !.current_byte = @ + n]
    <3>1. call' \in Call(chain) /\ call'.op = call.op /\ rd' = NoCtx /\ io' = NoIo /\ io' \in IoType /\ io'.callback = "none"
      BY <1>2, <2>2, FinishFacts
    <3>2. file' \in FILE(chain)
      BY <1>2, <1>3, <2>2 DEF FILE
    <3> QED BY <1>1, <1>2, <3>1, <3>2 DEF Typed, IoType
  <2>3. CASE file' = a.file /\ a.status = Pending /\ sk' = a.sk /\ rd' = r /\ FatRead /\ call' = call
    <3>1. io' \in IoType /\ io'.callback = "fs_seek_step"
      BY <2>3 DEF FatRead, Post, IoType
    <3> QED BY <1>1, <1>2, <1>3, <1>6, <2>3, <3>1 DEF Typed, IoType
  <2>4. CASE file' = a.file /\ a.status # Pending /\ SeekDone(a.file, r, a.status)
    <3>1. /\ call' \in Call(chain) /\ call'.op = call.op
          /\ rd' \in ReadCtx \cup {NoCtx} /\ io' \in IoType
          /\ io'.callback # "fs_seek_step"
          /\ io'.callback = "fs_read_step" => rd' # NoCtx
          /\ call'.status # Pending => rd' = NoCtx /\ io' = NoIo
      BY <1>2, <1>3, <1>6, <2>4, SeekDoneFacts
    <3> QED BY <1>1, <1>2, <1>6, <2>4, <3>1 DEF Typed, IoType
  <2> QED BY <1>5, <2>1, <2>2, <2>3, <2>4
<1> QED BY <1>1, <1>7, Primed DEF IInv, FailedSeekKeepsPlace

(* When the FAT helper does not return, no operation is left.                *)
LEMMA LostIInv ==
  ASSUME IInv, FatHelperLost
  PROVE  IInv'
<1>1. /\ chain' = chain /\ fat' = fat /\ file' = file /\ io' = NoIo /\ rd' = NoCtx
      /\ call' = [call EXCEPT !.status = Lost, !.op = "close"]
  BY DEF FatHelperLost
<1>2. call \in Call(chain) /\ IsChain(chain) /\ fat = FatOf(chain) /\ file \in FILE(chain)
  BY DEF IInv, Typed
<1>3. call' \in Call(chain) /\ call'.op = "close"
  BY <1>1, <1>2 DEF Call
<1>4. io' \in IoType /\ io'.callback = "none"
  BY <1>1 DEF NoIo, IoType
<1>5. Typed'
  BY <1>1, <1>2, <1>3, <1>4 DEF Typed, IoType
<1> QED BY <1>1, <1>3, <1>5, Primed DEF IInv, FailedSeekKeepsPlace

(* Every step keeps the invariant.                                           *)
LEMMA StepIInv == IInv /\ [FileNext]_fvars => IInv'
<1> SUFFICES ASSUME IInv, [FileNext]_fvars PROVE IInv'
  OBVIOUS
<1>1. CASE UNCHANGED fvars
  BY <1>1 DEF fvars, IInv, Typed, Walking, OnTheWay, FailedSeekKeepsPlace, SeekPlaced, Landed, IntoFirst,
              Done, InStep, InChain, ClusterOf
<1>2. CASE Client
  BY <1>2, ReadSubmitIInv, SeekWhenceIInv, UnknownIInv, CloseIInv, FilesAssumption DEF Client
<1>3. CASE IoDone
  BY <1>3, SeekStepIInv, ReadStepIInv DEF IoDone
<1>4. CASE FatHelperLost
  BY <1>4, LostIInv
<1> QED BY <1>1, <1>2, <1>3, <1>4 DEF FileNext

(* The inductive invariant holds in every reachable state.                   *)
THEOREM Invariant == FileSpec => []IInv
<1>1. FileInit => IInv
  BY InitIInv
<1>2. IInv /\ [FileNext]_fvars => IInv'
  BY StepIInv
<1> QED BY <1>1, <1>2, PTL DEF FileSpec

(* A seek that succeeds leaves the file at its target, however many clusters *)
(* fs_seek_step walked, unless it leads back into the first cluster.         *)
THEOREM SeekLandsAlways == FileSpec => []SeekLands
<1>1. IInv => SeekLands
  BY DEF IInv, SeekPlaced, Landed, SeekLands
<1> QED BY <1>1, Invariant, PTL

(* A seek that fails, at whatever hop and for whatever reason, has not moved *)
(* the file (fs_seek_step).                                                  *)
THEOREM FailedSeekAlwaysKeepsPlace == FileSpec => []FailedSeekKeepsPlace
<1>1. IInv => FailedSeekKeepsPlace
  BY DEF IInv
<1> QED BY <1>1, Invariant, PTL

-----------------------------------------------------------------------------
(* Reads.  A file offset and the sector behind it stay below Mod: a read     *)
(* that leaves the last sector below 2^32 would go on at offset 0.           *)
FilesFit == \A f \in Files : f.size + SectorSize < Mod

(* No position behind the end of the file is ever stored or walked to.       *)
Bounded ==
  /\ file.file_size + SectorSize < Mod /\ file.file_offset <= file.file_size
  /\ io.callback = "fs_seek_step" => sk.target_offset <= file.file_size

(* d holds bytes of the file, in order, from offset o on.                    *)
Copied(d, o) ==
  d \in Seq(Int) /\ \A i \in 1 .. Len(d) : InChain(o + i - 1) /\ d[i] = FileByte(o + i - 1)

(* A read that began at start goes on at the start of a sector.              *)
AtPart(o, start) == o >= start /\ (o = start \/ SeekDecompose(o).byte_in_sector = 0)

(* A read c with context r has copied to d the file's bytes up to the place  *)
(* where it goes on: the position of the file f, or the target of the seek s *)
(* that it waits for.                                                        *)
ReadingOf(c, r, d, f, i, s) ==
  c.op = "read" /\ c.status = Pending /\ Coherent(c.file) =>
    /\ r \in ReadCtx /\ r.bytes_remaining >= 0 /\ (c.n > 0 => r.bytes_remaining > 0)
    /\ Copied(d, c.file.file_offset) /\ Len(d) + r.bytes_remaining = c.n
    /\ Coherent(f)
    /\ i.callback = "fs_read_step" =>
         /\ f.file_offset = c.file.file_offset + Len(d) /\ i.lba = DataSector(f)
         /\ AtPart(f.file_offset, c.file.file_offset)
    /\ i.callback = "fs_seek_step" =>
         /\ s.target_offset = c.file.file_offset + Len(d) /\ OnTheWay(chain, s, s.target_offset)
         /\ AtPart(s.target_offset, c.file.file_offset)

Reading == ReadingOf(call, rd, dst, file, io, sk)

(* What a read that succeeded leaves.                                        *)
ReadDone(c, d, f) ==
  c.op = "read" /\ c.status = 0 /\ Coherent(c.file) =>
    /\ Len(d) = c.n /\ Copied(d, c.file.file_offset)
    /\ InStep(f) /\ (c.n > 0 => f.file_offset < c.file.file_offset + c.n)
    /\ f.file_offset - SeekDecompose(f.file_offset).byte_in_sector + f.current_byte
         = c.file.file_offset + c.n
    /\ AtPart(f.file_offset, c.file.file_offset) /\ f.current_byte \in 0 .. SectorSize

RInv == Bounded /\ Reading /\ ReadDone(call, dst, file)

-----------------------------------------------------------------------------
(* Division of naturals.                                                     *)
LEMMA DivMod ==
  ASSUME NEW n \in Nat, NEW c \in Nat \ {0}
  PROVE  n = c * (n \div c) + (n % c) /\ n \div c \in Nat /\ n % c \in 0 .. c - 1
<1>1. n = c * (n \div c) + (n % c)
  BY Z3
<1>2. n % c \in 0 .. c - 1
  BY Z3
<1> QED BY <1>1, <1>2, Division

(* Quotient and remainder are the only ones.                                 *)
LEMMA DivUnique ==
  ASSUME NEW n \in Nat, NEW c \in Nat \ {0}, NEW q \in Int, NEW r \in Int,
         0 <= r, r < c, n = c * q + r
  PROVE  n \div c = q /\ n % c = r
<1>1. n \div c = q
  BY Z3
<1>2. n % c = r
  BY Z3
<1> QED BY <1>1, <1>2

(* Offsets of one sector differ in the byte only.                            *)
LEMMA SameSector ==
  ASSUME NEW o \in Nat, NEW j \in Nat, SeekDecompose(o).byte_in_sector + j < SectorSize
  PROVE  SeekDecompose(o + j) = [SeekDecompose(o) EXCEPT !.byte_in_sector = @ + j]
<1> DEFINE C == ClusterSize
           S == SectorSize
           K == SectorsPerCluster
           q == o \div C
           r == o % C
           s == r \div S
           b == r % S
<1>0. C \in Nat \ {0} /\ S \in Nat \ {0} /\ K \in Nat \ {0} /\ C = S * K
  BY ClusterSizePositive, FatAssumption DEF ClusterSize
<1>1. SeekDecompose(o) = [cluster_index |-> q, sector_in_cluster |-> s, byte_in_sector |-> b]
  BY DEF SeekDecompose
<1>2. SeekDecompose(o + j) = [cluster_index |-> (o + j) \div C, sector_in_cluster |-> ((o + j) % C) \div S,
                              byte_in_sector |-> ((o + j) % C) % S]
  BY DEF SeekDecompose
<1>3. b + j < S
  BY <1>1
<1> HIDE DEF C, S, K
<1>4. o = C * q + r /\ q \in Nat /\ r \in 0 .. C - 1
  BY <1>0, DivMod
<1> HIDE DEF q, r
<1>5. r = S * s + b /\ s \in Nat /\ b \in 0 .. S - 1
  <2>1. r \in Nat
    BY <1>0, <1>4
  <2> QED BY <1>0, <2>1, DivMod
<1> HIDE DEF s, b
<1>6. r + j \in Nat /\ r + j < C
  <2>1. s < K
    <3>1. S * s < S * K
      BY <1>0, <1>4, <1>5, Z3
    <3> QED BY <1>0, <1>5, <3>1, Z3
  <2>2. S * (s + 1) <= S * K
    BY <1>0, <1>5, <2>1, Z3
  <2>3. S * (s + 1) = S * s + S
    BY <1>0, <1>5, Z3
  <2>4. S * s \in Int /\ S * K \in Int
    BY <1>0, <1>5, Z3
  <2> QED BY <1>0, <1>3, <1>4, <1>5, <2>2, <2>3, <2>4
<1>7. o + j = C * q + (r + j)
  <2>1. C * q \in Int
    BY <1>0, <1>4, Z3
  <2> QED BY <1>4, <2>1
<1>8. (o + j) \div C = q /\ (o + j) % C = r + j
  <2>1. o + j \in Nat /\ q \in Int /\ r + j \in Int /\ 0 <= r + j
    BY <1>0, <1>4, <1>6
  <2> QED BY <1>0, <1>6, <1>7, <2>1, DivUnique, Zenon
<1>9. r + j = S * s + (b + j) /\ b + j \in Nat
  <2>1. S * s \in Int
    BY <1>0, <1>5, Z3
  <2> QED BY <1>5, <2>1
<1>10. (r + j) \div S = s /\ (r + j) % S = b + j
  <2>1. s \in Int /\ b + j \in Int /\ 0 <= b + j
    BY <1>5, <1>9
  <2> QED BY <1>0, <1>3, <1>6, <1>9, <2>1, DivUnique, Zenon
<1> QED BY <1>1, <1>2, <1>8, <1>10

(* A multiple leaves no remainder.                                           *)
LEMMA Multiple ==
  ASSUME NEW c \in Nat \ {0}, NEW q \in Int, c * q \in Nat
  PROVE  (c * q) % c = 0
BY Z3

(* The end of a sector is the start of one.                                  *)
LEMMA SectorEnd ==
  ASSUME NEW o \in Nat, NEW j \in Nat, SeekDecompose(o).byte_in_sector + j = SectorSize
  PROVE  SeekDecompose(o + j).byte_in_sector = 0 /\ (o + j) % SectorSize = 0
<1> DEFINE C == ClusterSize
           S == SectorSize
           K == SectorsPerCluster
           q == o \div C
           r == o % C
           s == r \div S
           b == r % S
           u == K * q + s + 1
           v == (o + j) \div C
           w == (o + j) % C
<1>0. C \in Nat \ {0} /\ S \in Nat \ {0} /\ K \in Nat \ {0} /\ C = S * K
  BY ClusterSizePositive, FatAssumption DEF ClusterSize
<1>1. b + j = S /\ SeekDecompose(o + j).byte_in_sector = w % S
  BY DEF SeekDecompose
<1> HIDE DEF C, S, K
<1>2. o = C * q + r /\ q \in Nat /\ r \in 0 .. C - 1
  BY <1>0, DivMod
<1>3. o + j \in Nat
  OBVIOUS
<1>4. o + j = C * v + w /\ v \in Nat /\ w \in 0 .. C - 1
  BY <1>0, <1>3, DivMod
<1> HIDE DEF q, r, v, w
<1>5. r = S * s + b /\ s \in Nat /\ b \in 0 .. S - 1
  <2>1. r \in Nat
    BY <1>0, <1>2
  <2> QED BY <1>0, <2>1, DivMod
<1> HIDE DEF s, b
<1>6. u \in Int /\ o + j = S * u
  <2>1. K * q \in Int /\ S * s \in Int /\ S * (K * q) \in Int
    BY <1>0, <1>2, <1>5, Z3
  <2>2. C * q = S * (K * q)
    BY <1>0, <1>2, Z3
  <2>3. S * u = S * (K * q) + S * s + S
    BY <1>0, <1>2, <1>5, <2>1, Z3
  <2> QED BY <1>0, <1>1, <1>2, <1>5, <2>1, <2>2, <2>3
<1> HIDE DEF u
<1>7. (o + j) % S = 0
  <2>1. S * u \in Nat
    BY <1>3, <1>6
  <2> QED BY <1>0, <1>6, <2>1, Multiple
<1>8. w = S * (u - K * v) /\ u - K * v \in Int
  <2>1. C * v = S * (K * v) /\ K * v \in Int /\ S * u \in Int /\ S * (K * v) \in Int
    BY <1>0, <1>4, <1>6, Z3
  <2>2. S * (u - K * v) = S * u - S * (K * v)
    BY <1>0, <1>4, <1>6, <2>1, Z3
  <2> QED BY <1>4, <1>6, <2>1, <2>2
<1>9. w % S = 0
  <2> DEFINE x == u - K * v
  <2>1. w \in Nat /\ w = S * x + 0 /\ 0 < S /\ x \in Int
    BY <1>0, <1>4, <1>8
  <2> HIDE DEF x
  <2> QED BY <1>0, <2>1, DivUnique
<1> QED BY <1>1, <1>7, <1>9 DEF S

(* The chunk that fs_read_step copies from one sector.                       *)
LEMMA CopyChunk ==
  ASSUME NEW f \in FILE(chain), Coherent(f), NEW d, NEW o \in Nat, Copied(d, o),
         f.file_offset = o + Len(d), NEW n \in Nat, f.current_byte + n <= SectorSize
  PROVE  LET e == d \o Bytes(DataSector(f), f.current_byte, n)
         IN  Copied(e, o) /\ Len(e) = Len(d) + n
<1> DEFINE t == Bytes(DataSector(f), f.current_byte, n)
           e == d \o t
           b == f.current_byte
           L == DataSector(f)
           x == f.file_offset
<1>1. /\ x \in Nat /\ b \in Int /\ L \in Int /\ SectorSize \in Nat \ {0}
      /\ d \in Seq(Int) /\ Len(d) \in Nat /\ x = o + Len(d)
  BY SectorType, FatAssumption DEF FILE, Copied
<1>2. /\ InChain(x) /\ f.current_cluster = ClusterOf(x) /\ b = SeekDecompose(x).byte_in_sector
      /\ f.current_sector = SeekDecompose(x).sector_in_cluster
  BY DEF Coherent, InStep
<1>3. \A i \in 1 .. n : L * SectorSize + b + i - 1 \in Int
  <2>1. L * SectorSize \in Int
    BY <1>1, Z3
  <2> QED BY <1>1, <2>1
<1>4. t \in Seq(Int) /\ Len(t) = n /\ \A i \in 1 .. n : t[i] = L * SectorSize + b + i - 1
  BY <1>3 DEF Bytes
<1>5. e \in Seq(Int) /\ Len(e) = Len(d) + n
  <2>1. \A u, v \in Seq(Int) : u \o v \in Seq(Int) /\ Len(u \o v) = Len(u) + Len(v)
    OBVIOUS
  <2>2. d \in Seq(Int) /\ t \in Seq(Int) /\ Len(t) = n
    BY <1>1, <1>4
  <2> HIDE DEF t
  <2> QED BY <2>1, <2>2
<1>6. ASSUME NEW j \in Nat, j < n
      PROVE  InChain(x + j) /\ FileByte(x + j) = L * SectorSize + b + j
  <2>1. SeekDecompose(x + j) = [SeekDecompose(x) EXCEPT !.byte_in_sector = @ + j]
    BY <1>1, <1>2, <1>6, SameSector
  <2>2. /\ SeekDecompose(x + j).cluster_index = SeekDecompose(x).cluster_index
        /\ SeekDecompose(x + j).sector_in_cluster = f.current_sector
        /\ SeekDecompose(x + j).byte_in_sector = b + j
    BY <1>2, <2>1 DEF SeekDecompose
  <2>3. ClusterOf(x + j) = f.current_cluster
    BY <1>2, <2>2 DEF ClusterOf
  <2>4. InChain(x + j)
    <3>1. (x + j) \div ClusterSize = x \div ClusterSize
      BY <2>2 DEF SeekDecompose
    <3> QED BY <1>2, <3>1 DEF InChain
  <2>5. FileByte(x + j) = L * SectorSize + (b + j)
    BY <2>2, <2>3 DEF FileByte, DataSector
  <2>6. L * SectorSize \in Int
    BY <1>1, Z3
  <2> HIDE DEF L
  <2> QED BY <1>1, <2>4, <2>5, <2>6
<1> HIDE DEF L, b, x, t
<1>7. ASSUME NEW i \in 1 .. Len(e) PROVE InChain(o + i - 1) /\ e[i] = FileByte(o + i - 1)
  <2>1. CASE i <= Len(d)
    <3>1. i \in 1 .. Len(d) /\ e[i] = d[i]
      BY <1>1, <1>4, <1>5, <2>1
    <3> QED BY <3>1 DEF Copied
  <2>2. CASE i > Len(d)
    <3>1. PICK j \in Nat : j < n /\ i = Len(d) + (j + 1)
      <4>1. i - Len(d) - 1 \in Nat /\ i - Len(d) - 1 < n /\ i = Len(d) + ((i - Len(d) - 1) + 1)
        BY <1>1, <1>5, <2>2
      <4> QED BY <4>1
    <3>2. j + 1 \in 1 .. n /\ o + i - 1 = x + j
      BY <1>1, <3>1
    <3>3. e[i] = t[j + 1]
      BY <1>1, <1>4, <3>1, <3>2
    <3>4. e[i] = L * SectorSize + b + (j + 1) - 1
      BY <1>4, <3>2, <3>3
    <3>5. L * SectorSize \in Int
      BY <1>1, Z3
    <3>6. e[i] = L * SectorSize + b + j
      BY <1>1, <3>1, <3>4, <3>5
    <3> QED BY <1>6, <3>1, <3>2, <3>6
  <2> QED BY <1>1, <1>5, <2>1, <2>2
<1> HIDE DEF e
<1>8. Copied(e, o)
  BY <1>5, <1>7 DEF Copied
<1> QED BY <1>5, <1>8 DEF e, t, L, b

-----------------------------------------------------------------------------
(* fs_seek_submit keeps within the file.                                     *)
LEMMA SubmitBound ==
  ASSUME NEW f \in FILE(chain), NEW o \in Nat, f.file_offset <= f.file_size
  PROVE  LET a == SeekSubmit(f, o)
         IN  /\ a.file.file_size = f.file_size /\ a.file.file_offset <= f.file_size
             /\ a.status = Pending => o <= f.file_size
<1>1. f.file_offset \in Nat /\ f.file_size \in Nat
  BY DEF FILE
<1>2. CASE o > f.file_size
  BY <1>1, <1>2 DEF SeekSubmit, Answer, Pending
<1>3. CASE ~(o > f.file_size)
  <2>1. At(f, f.current_cluster, o).file_size = f.file_size /\ At(f, f.current_cluster, o).file_offset = o
    BY DEF At, FILE
  <2> QED BY <1>1, <1>3, <2>1 DEF SeekSubmit, Answer, Walk, Pending
<1> QED BY <1>2, <1>3

(* A file positioned in the cluster of an offset is coherent.                *)
LEMMA AtCoherent ==
  ASSUME NEW f \in FILE(chain), NEW o \in Nat, InChain(o)
  PROVE  /\ Coherent(At(f, ClusterOf(o), o)) /\ At(f, ClusterOf(o), o).file_offset = o
         /\ At(f, ClusterOf(o), o).file_size = f.file_size
BY DEF At, FILE, Coherent, InStep

(* The chain does not change, so the invariant of reads may be shown of the  *)
(* new state's values.                                                       *)
LEMMA RPrimed ==
  ASSUME chain' = chain
  PROVE  /\ ReadingOf(call', rd', dst', file', io', sk') => Reading'
         /\ ReadDone(call', dst', file') => ReadDone(call, dst, file)'
BY DEF Reading, ReadingOf, ReadDone, Copied, Coherent, InStep, InChain, FileByte, ClusterOf

(* It holds before the first call.                                           *)
LEMMA RInit ==
  ASSUME FilesFit, FileInit
  PROVE  RInv
<1> PICK f \in Files : FileOpen(f)
  BY DEF FileInit
<1>1. /\ f.size \in Nat /\ f.size + SectorSize < Mod
      /\ file.file_size = f.size /\ file.file_offset = 0 /\ io.callback = "none" /\ call.op = "open"
  BY FilesAssumption DEF FileOpen, Opened, NoIo, FilesFit
<1>2. Bounded
  BY <1>1 DEF Bounded
<1> QED BY <1>1, <1>2 DEF RInv, Reading, ReadingOf, ReadDone

(* The caller starts an operation.                                           *)
LEMMA RReadSubmit ==
  ASSUME IInv, RInv, NEW n \in Nat, FsReadSubmit(n)
  PROVE  RInv'
<1>1. /\ chain' = chain /\ file' = file /\ sk' = sk /\ dst' = <<>>
      /\ call' = [op |-> "read", n |-> n, file |-> file, status |-> Pending]
      /\ rd' = [state |-> "COPY_CONTENTS", bytes_remaining |-> n]
      /\ io' = [lba |-> DataSector(file), callback |-> "fs_read_step"]
  BY DEF FsReadSubmit, Post
<1>2. n \in Nat /\ file \in FILE(chain) /\ file.file_offset \in Nat
  BY FilesAssumption DEF IInv, Typed, FILE
<1>3. Bounded'
  BY <1>1 DEF RInv, Bounded
<1>4. Copied(<<>>, file.file_offset)
  BY DEF Copied
<1>5. rd' \in ReadCtx /\ rd'.bytes_remaining = n
  BY <1>1, <1>2 DEF ReadCtx
<1>6. ReadingOf(call', rd', dst', file', io', sk')
  BY <1>1, <1>2, <1>4, <1>5 DEF ReadingOf, AtPart
<1>7. ReadDone(call', dst', file')
  BY <1>1 DEF ReadDone, Pending
<1> QED BY <1>1, <1>3, <1>6, <1>7, RPrimed DEF RInv

(* A call of fs_seek keeps it: no read is under way.                         *)
LEMMA RSeekWhence ==
  ASSUME IInv, RInv, NEW o \in Int, NEW w \in {"SET", "CUR", "END"}, FsSeekWhence(o, w)
  PROVE  RInv'
<1> DEFINE t == SeekTarget(file, o, w)
           a == SeekSubmit(file, t)
<1>1. /\ chain' = chain /\ file' = a.file /\ sk' = a.sk
      /\ call' = [op |-> "seek", n |-> t, file |-> file, status |-> a.status]
      /\ io' = IF a.status = Pending THEN [lba |-> 0, callback |-> "fs_seek_step"] ELSE NoIo
  BY DEF FsSeekWhence, FatRead, Post
<1>2. file \in FILE(chain) /\ IsChain(chain) /\ file.file_offset \in Nat /\ file.file_size \in Nat
  BY DEF IInv, Typed, FILE
<1>3. t \in Nat
  BY <1>2, FilesAssumption DEF SeekTarget
<1> HIDE DEF t
<1>4. /\ a.file.file_size = file.file_size /\ a.file.file_offset <= file.file_size
      /\ a.status = Pending => t <= file.file_size /\ a.sk.target_offset = t
  BY <1>2, <1>3, Submit, SubmitBound DEF RInv, Bounded
<1> HIDE DEF a
<1>5. Bounded'
  BY <1>1, <1>4 DEF RInv, Bounded, NoIo
<1>6. ReadingOf(call', rd', dst', file', io', sk') /\ ReadDone(call', dst', file')
  BY <1>1 DEF ReadingOf, ReadDone
<1> QED BY <1>1, <1>5, <1>6, RPrimed DEF RInv

(* A call that is answered without a look at the file, a helper that does    *)
(* not return, and no step at all.                                           *)
LEMMA RIdle ==
  ASSUME IInv, RInv, FsCloseSubmit \/ FsSeekUnknown \/ FatHelperLost \/ UNCHANGED fvars
  PROVE  RInv'
<1>1. chain' = chain /\ file' = file
  BY DEF FsCloseSubmit, FsSeekUnknown, FatHelperLost, fvars
<1>2. CASE FsCloseSubmit \/ FsSeekUnknown
  <2>1. call'.op \in {"close", "seek"} /\ io' = io /\ sk' = sk
    BY <1>2 DEF FsCloseSubmit, FsSeekUnknown
  <2>2. Bounded' /\ ReadingOf(call', rd', dst', file', io', sk') /\ ReadDone(call', dst', file')
    BY <1>1, <2>1 DEF RInv, Bounded, ReadingOf, ReadDone
  <2> QED BY <1>1, <2>2, RPrimed DEF RInv
<1>3. CASE FatHelperLost
  <2>1. call'.op = "close" /\ io'.callback = "none"
    BY <1>3 DEF FatHelperLost, IInv, Typed, Call, NoIo
  <2>2. Bounded' /\ ReadingOf(call', rd', dst', file', io', sk') /\ ReadDone(call', dst', file')
    BY <1>1, <2>1 DEF RInv, Bounded, ReadingOf, ReadDone
  <2> QED BY <1>1, <2>2, RPrimed DEF RInv
<1>4. CASE UNCHANGED fvars
  <2>1. UNCHANGED <<call, rd, dst, file, io, sk>>
    BY <1>4 DEF fvars
  <2>2. Bounded' /\ ReadingOf(call', rd', dst', file', io', sk') /\ ReadDone(call', dst', file')
    BY <2>1 DEF RInv, Bounded, Reading
  <2> QED BY <1>1, <2>2, RPrimed DEF RInv
<1> QED BY <1>2, <1>3, <1>4

(* A read that another step has ended, or that is none, or that did not      *)
(* start from a coherent position, owes nothing.                             *)
LEMMA ROver ==
  ASSUME NEW c, c.op # "read" \/ ~Coherent(c.file) \/ c.status \notin {0, Pending}
  PROVE  \A r, d, f, i, s : ReadingOf(c, r, d, f, i, s) /\ ReadDone(c, d, f)
BY DEF ReadingOf, ReadDone

(* A seek that a read waits for comes one hop further, lands, or fails.      *)
LEMMA RSeekStep ==
  ASSUME IInv, RInv, NEW status \in {0, 1}, FsSeekStep(status)
  PROVE  RInv'
<1> DEFINE next == GetNextCluster(sk.current_cluster)
           left == sk.clusters_remaining - 1
           here == At(file, next, sk.target_offset)
           live == call.op = "read" /\ Coherent(call.file)
<1>1. chain' = chain /\ dst' = dst /\ io.callback = "fs_seek_step"
  BY DEF FsSeekStep
<1>2. /\ IsChain(chain) /\ fat = FatOf(chain) /\ file \in FILE(chain) /\ call \in Call(chain)
      /\ sk \in SeekCtx /\ rd \in ReadCtx \cup {NoCtx} /\ call.status = Pending
      /\ sk.target_offset \in Nat /\ sk.current_cluster \in Cluster /\ sk.clusters_remaining \in Int
  <2>1. Typed /\ sk \in SeekCtx
    BY <1>1 DEF IInv, Typed
  <2>2. io # NoIo
    BY <1>1 DEF NoIo
  <2> QED BY <2>1, <2>2 DEF Typed, SeekCtx
<1>3. sk.target_offset <= file.file_size /\ file.file_size + SectorSize < Mod /\ file.file_offset <= file.file_size
  BY <1>1 DEF RInv, Bounded
<1>4. live =>
        /\ rd \in ReadCtx /\ rd # NoCtx /\ rd.bytes_remaining >= 0 /\ (call.n > 0 => rd.bytes_remaining > 0)
        /\ Copied(dst, call.file.file_offset) /\ Len(dst) + rd.bytes_remaining = call.n
        /\ Coherent(file) /\ sk.target_offset = call.file.file_offset + Len(dst)
        /\ OnTheWay(chain, sk, sk.target_offset) /\ AtPart(sk.target_offset, call.file.file_offset)
  <2>1. \A r \in ReadCtx : r # NoCtx
    BY DEF ReadCtx, NoCtx
  <2> QED BY <1>1, <1>2, <2>1 DEF RInv, Reading, ReadingOf
<1>5. \/ SeekDone(file, rd, -1) /\ file' = file
      \/ ~EndOfChain(next) /\ left = 0 /\ file' = here /\ SeekDone(here, rd, 0)
      \/ /\ ~EndOfChain(next) /\ left # 0
         /\ sk' = [sk EXCEPT !.current_cluster = next, !.clusters_remaining = left]
         /\ io' = [lba |-> 0, callback |-> "fs_seek_step"]
         /\ file' = file /\ rd' = rd /\ call' = call
  BY DEF FsSeekStep, FatRead, Post
<1>6. ~EndOfChain(next) => next \in Cluster /\ here \in FILE(chain)
  <2> SUFFICES ASSUME ~EndOfChain(next) PROVE next \in Cluster /\ here \in FILE(chain)
    OBVIOUS
  <2>1. next \in Cluster
    BY <1>2, NextIsCluster DEF GetNextCluster
  <2> QED BY <1>2, <2>1, AtType
<1>7. live /\ ~EndOfChain(next) =>
        /\ left # 0 =>
             OnTheWay(chain, [sk EXCEPT !.current_cluster = next, !.clusters_remaining = left], sk.target_offset)
        /\ left = 0 => InChain(sk.target_offset) /\ next = ClusterOf(sk.target_offset)
  BY <1>2, <1>4, Hop
<1>8. here.file_offset = sk.target_offset /\ here.file_size = file.file_size
  BY <1>2 DEF At, FILE
<1> HIDE DEF next, left, here
<1>9. CASE SeekDone(file, rd, -1) /\ file' = file
  <2>1. /\ call'.op = call.op /\ call'.file = call.file /\ io'.callback # "fs_seek_step"
    BY <1>2, <1>9, SeekDoneFacts
  <2>2. Bounded'
    BY <1>3, <1>9, <2>1 DEF Bounded
  <2>3. live => call'.status = 1
    <3> SUFFICES ASSUME live PROVE call'.status = 1
      OBVIOUS
    <3>1. Finish(1)
      BY <1>4, <1>9 DEF SeekDone
    <3> QED BY <1>2, <3>1, FinishFacts
  <2>4. ReadingOf(call', rd', dst', file', io', sk') /\ ReadDone(call', dst', file')
    <3>1. call'.op # "read" \/ ~Coherent(call'.file) \/ call'.status \notin {0, Pending}
      BY <2>1, <2>3 DEF Pending
    <3> QED BY <3>1, ROver
  <2> QED BY <1>1, <2>2, <2>4, RPrimed DEF RInv
<1>10. CASE ~EndOfChain(next) /\ left = 0 /\ file' = here /\ SeekDone(here, rd, 0)
  <2>1. /\ call'.op = call.op /\ call'.file = call.file /\ io'.callback # "fs_seek_step"
    BY <1>2, <1>6, <1>10, SeekDoneFacts
  <2>2. Bounded'
    BY <1>3, <1>8, <1>10, <2>1 DEF Bounded
  <2>3. ReadingOf(call', rd', dst', file', io', sk') /\ ReadDone(call', dst', file')
    <3>1. CASE ~live
      <4>1. call'.op # "read" \/ ~Coherent(call'.file)
        BY <2>1, <3>1
      <4> QED BY <4>1, ROver
    <3>2. CASE live
      <4>1. /\ io' = [lba |-> DataSector(here), callback |-> "fs_read_step"]
            /\ rd' = [rd EXCEPT !.state = "COPY_CONTENTS"] /\ call' = call
        BY <1>4, <1>10, <3>2 DEF SeekDone, Post
      <4>2. rd' \in ReadCtx /\ rd'.bytes_remaining = rd.bytes_remaining
        BY <1>4, <3>2, <4>1 DEF ReadCtx
      <4>3. Coherent(here)
        BY <1>2, <1>7, <1>10, <3>2, AtCoherent DEF here
      <4>4. ReadDone(call', dst', file')
        BY <1>2, <4>1 DEF ReadDone, Pending
      <4>5. ReadingOf(call', rd', dst', file', io', sk')
        BY <1>1, <1>4, <1>8, <1>10, <3>2, <4>1, <4>2, <4>3 DEF ReadingOf
      <4> QED BY <4>4, <4>5
    <3> QED BY <3>1, <3>2
  <2> QED BY <1>1, <2>2, <2>3, RPrimed DEF RInv
<1>11. CASE /\ ~EndOfChain(next) /\ left # 0
            /\ sk' = [sk EXCEPT !.current_cluster = next, !.clusters_remaining = left]
            /\ io' = [lba |-> 0, callback |-> "fs_seek_step"]
            /\ file' = file /\ rd' = rd /\ call' = call
  <2>1. sk'.target_offset = sk.target_offset
    BY <1>2, <1>11 DEF SeekCtx
  <2>2. Bounded'
    BY <1>3, <1>11, <2>1 DEF Bounded
  <2>3. ReadDone(call', dst', file')
    BY <1>2, <1>11 DEF ReadDone, Pending
  <2>4. ReadingOf(call', rd', dst', file', io', sk')
    <3>1. live => OnTheWay(chain, sk', sk'.target_offset)
      BY <1>7, <1>11, <2>1
    <3> QED BY <1>1, <1>4, <1>11, <2>1, <3>1 DEF ReadingOf
  <2> QED BY <1>1, <2>2, <2>3, <2>4, RPrimed DEF RInv
<1> QED BY <1>5, <1>9, <1>10, <1>11

(* A number below the modulus is its own remainder.                          *)
LEMMA ModSmall ==
  ASSUME NEW n \in Nat, NEW c \in Nat \ {0}, n < c
  PROVE  n % c = n
BY Z3

(* How much of a coherent file's sector is copied.                           *)
LEMMA ChunkFacts ==
  ASSUME NEW f \in FILE(chain), Coherent(f), NEW r \in ReadCtx, r.bytes_remaining >= 0
  PROVE  LET n == Chunk(f, r)
         IN  /\ n \in Nat /\ f.current_byte + n <= SectorSize /\ n <= SectorSize
             /\ r.bytes_remaining - n \in Nat /\ f.current_byte \in 0 .. SectorSize - 1
             /\ r.bytes_remaining - n # 0 => n > 0 /\ f.current_byte + n = SectorSize
<1>1. /\ r.bytes_remaining \in Int /\ f.file_offset \in Nat /\ SectorSize \in Nat \ {0}
      /\ f.current_byte = SeekDecompose(f.file_offset).byte_in_sector
  BY FatAssumption DEF FILE, ReadCtx, Coherent
<1>2. f.current_byte \in 0 .. SectorSize - 1
  <2>1. f.file_offset % ClusterSize \in Nat
    BY <1>1, Division, ClusterSizePositive
  <2>2. (f.file_offset % ClusterSize) % SectorSize \in 0 .. SectorSize - 1
    BY <1>1, <2>1, DivMod
  <2> QED BY <1>1, <2>2 DEF SeekDecompose
<1> QED BY <1>1, <1>2 DEF Chunk

(* fs_read_step copies the rest of the sector or of the read.                *)
LEMMA RReadStep ==
  ASSUME IInv, RInv, NEW status \in {0, 1}, FsReadStep(status)
  PROVE  RInv'
<1> DEFINE n    == Chunk(file, rd)
           left == rd.bytes_remaining - n
           r    == [state |-> "LOAD_CONTENTS", bytes_remaining |-> left]
           t    == SeekTarget(file, n, "CUR")
           a    == SeekSubmit(file, t)
           live == call.op = "read" /\ Coherent(call.file)
           o    == call.file.file_offset
<1>1. chain' = chain /\ io.callback = "fs_read_step"
  BY DEF FsReadStep
<1>2. /\ IsChain(chain) /\ file \in FILE(chain) /\ call \in Call(chain)
      /\ rd \in ReadCtx /\ call.status = Pending
  <2>1. Typed /\ rd # NoCtx
    BY <1>1 DEF IInv, Typed
  <2>2. io # NoIo
    BY <1>1 DEF NoIo
  <2> QED BY <2>1, <2>2 DEF Typed
<1>3. /\ file.file_size + SectorSize < Mod /\ file.file_offset <= file.file_size
      /\ file.file_offset \in Nat /\ file.file_size \in Nat /\ o \in Nat /\ call.n \in Nat
      /\ SectorSize \in Nat /\ Mod \in Nat \ {0}
  BY <1>2, FatAssumption, FilesAssumption DEF RInv, Bounded, FILE, Call
<1>4. n \in Int /\ left \in Int /\ r \in ReadCtx /\ r # NoCtx /\ t \in Nat
  <2>1. n \in Int /\ left \in Int
    BY <1>2, FatAssumption DEF Chunk, FILE, ReadCtx
  <2>2. r \in ReadCtx /\ r # NoCtx
    BY <2>1 DEF ReadCtx, NoCtx
  <2>3. t \in Nat
    BY <1>3, <2>1 DEF SeekTarget
  <2> QED BY <2>1, <2>2, <2>3
<1>5. live =>
        /\ rd.bytes_remaining >= 0 /\ (call.n > 0 => rd.bytes_remaining > 0)
        /\ Copied(dst, o) /\ Len(dst) + rd.bytes_remaining = call.n /\ Len(dst) \in Nat
        /\ Coherent(file) /\ file.file_offset = o + Len(dst) /\ io.lba = DataSector(file)
        /\ AtPart(file.file_offset, o)
  BY <1>1, <1>2 DEF RInv, Reading, ReadingOf, Copied
<1>6. live => /\ n \in Nat /\ file.current_byte + n <= SectorSize /\ n <= SectorSize
              /\ left \in Nat /\ (left # 0 => n > 0 /\ file.current_byte + n = SectorSize)
              /\ file.current_byte \in 0 .. SectorSize - 1
  BY <1>2, <1>5, ChunkFacts
<1>7. live /\ dst' = dst \o Bytes(io.lba, file.current_byte, n) =>
        Copied(dst', o) /\ Len(dst') = Len(dst) + n
  <2> HIDE DEF n
  <2> SUFFICES ASSUME live, dst' = dst \o Bytes(io.lba, file.current_byte, n)
               PROVE  Copied(dst', o) /\ Len(dst') = Len(dst) + n
    OBVIOUS
  <2>1. dst' = dst \o Bytes(DataSector(file), file.current_byte, n)
    BY <1>5
  <2>2. /\ file \in FILE(chain) /\ Coherent(file) /\ o \in Nat /\ Copied(dst, o) /\ n \in Nat
        /\ file.file_offset = o + Len(dst) /\ file.current_byte + n <= SectorSize
    BY <1>2, <1>3, <1>5, <1>6
  <2> HIDE DEF o
  <2>3. /\ Copied(dst \o Bytes(DataSector(file), file.current_byte, n), o)
        /\ Len(dst \o Bytes(DataSector(file), file.current_byte, n)) = Len(dst) + n
    BY <2>2, CopyChunk
  <2> QED BY <2>1, <2>3
<1>8. live => t = file.file_offset + n
  <2> SUFFICES ASSUME live PROVE t = file.file_offset + n
    OBVIOUS
  <2>1. n + file.file_offset \in Nat /\ n + file.file_offset < Mod
    <3> HIDE DEF n
    <3> QED BY <1>3, <1>6
  <2>2. t = (n + file.file_offset) % Mod
    BY DEF SeekTarget
  <2> HIDE DEF n, t
  <2> QED BY <1>3, <1>4, <2>1, <2>2, ModSmall
<1>9. \/ Finish(1) /\ file' = file
      \/ /\ Finish(0) /\ left = 0 /\ file' = [file EXCEPT !.current_byte = @ + n]
         /\ dst' = dst \o Bytes(io.lba, file.current_byte, n)
      \/ /\ file' = a.file /\ left # 0 /\ dst' = dst \o Bytes(io.lba, file.current_byte, n)
         /\ \/ a.status = Pending /\ sk' = a.sk /\ rd' = r /\ FatRead /\ call' = call
            \/ a.status # Pending /\ SeekDone(a.file, r, a.status)
  BY DEF FsReadStep, Seek
<1> HIDE DEF t, n, left
<1>10. /\ a.status \in {-1, 0, Pending} /\ a.file \in FILE(chain)
       /\ a.status # 0 => a.file = file
       /\ a.status = Pending => a.sk.target_offset = t
       /\ a.status = Pending /\ InStep(file) => OnTheWay(chain, a.sk, t)
       /\ a.status = 0 /\ InStep(file) => Landed(file, a.file, t)
  BY <1>2, <1>4, Submit
<1>11. /\ a.file.file_size = file.file_size /\ a.file.file_offset <= file.file_size
       /\ a.status = Pending => t <= file.file_size
  BY <1>2, <1>3, <1>4, SubmitBound
<1> HIDE DEF a
<1>12. CASE Finish(1) /\ file' = file
  <2>1. call'.status = 1 /\ io'.callback = "none"
    BY <1>2, <1>12, FinishFacts
  <2>2. Bounded' /\ ReadingOf(call', rd', dst', file', io', sk') /\ ReadDone(call', dst', file')
    <3>1. Bounded'
      BY <1>3, <1>12, <2>1 DEF Bounded
    <3>2. call'.status \notin {0, Pending}
      BY <2>1 DEF Pending
    <3> QED BY <3>1, <3>2, ROver
  <2> QED BY <1>1, <2>2, RPrimed DEF RInv
<1>13. CASE /\ Finish(0) /\ left = 0 /\ file' = [file EXCEPT !.current_byte = @ + n]
            /\ dst' = dst \o Bytes(io.lba, file.current_byte, n)
  <2>1. /\ call'.status = 0 /\ call'.op = call.op /\ call'.n = call.n /\ call'.file = call.file
        /\ io'.callback = "none"
    BY <1>2, <1>13, FinishFacts
  <2>2. /\ file'.file_offset = file.file_offset /\ file'.file_size = file.file_size
        /\ file'.current_cluster = file.current_cluster /\ file'.current_sector = file.current_sector
        /\ file'.current_byte = file.current_byte + n
    BY <1>2, <1>13 DEF FILE
  <2>3. Bounded'
    BY <1>3, <2>1, <2>2 DEF Bounded
  <2>4. ReadingOf(call', rd', dst', file', io', sk')
    BY <2>1 DEF ReadingOf, Pending
  <2>5. ReadDone(call', dst', file')
    <3>1. CASE ~live
      BY <2>1, <3>1, ROver
    <3>2. CASE live
      <4>1. rd.bytes_remaining \in Int /\ n = rd.bytes_remaining
        BY <1>2, <1>4, <1>13 DEF ReadCtx, left
      <4>2. Copied(dst', o) /\ Len(dst') = call.n
        BY <1>4, <1>5, <1>7, <1>13, <3>2, <4>1
      <4>3. InStep(file')
        BY <1>5, <2>2, <3>2 DEF Coherent, InStep
      <4>4. call.n > 0 => file'.file_offset < o + call.n
        BY <1>3, <1>5, <2>2, <3>2, <4>1
      <4>5. file'.file_offset - SeekDecompose(file'.file_offset).byte_in_sector + file'.current_byte = o + call.n
        <5>1. file.current_byte = SeekDecompose(file.file_offset).byte_in_sector /\ file.current_byte \in Int
          BY <1>2, <1>5, <3>2 DEF Coherent, FILE
        <5>2. /\ file.file_offset = o + Len(dst) /\ Len(dst) \in Nat
              /\ Len(dst) + rd.bytes_remaining = call.n
          BY <1>5, <3>2
        <5>3. /\ file'.file_offset - SeekDecompose(file'.file_offset).byte_in_sector = file.file_offset - file.current_byte
              /\ file'.current_byte = file.current_byte + n
          BY <2>2, <5>1
        <5>4. file.file_offset \in Nat /\ o \in Nat /\ n \in Int /\ rd.bytes_remaining \in Int /\ n = rd.bytes_remaining
          BY <1>3, <1>4, <4>1
        <5> DEFINE p == file'.file_offset - SeekDecompose(file'.file_offset).byte_in_sector
        <5>5. p = file.file_offset - file.current_byte
          BY <5>3
        <5> HIDE DEF p, n, o
        <5>6. p + (file.current_byte + n) = file.file_offset + n
          BY <5>1, <5>4, <5>5
        <5>7. Len(dst) + n = call.n
          BY <5>2, <5>4
        <5>8. file.file_offset + n = o + (Len(dst) + n)
          BY <5>2, <5>4
        <5>9. p + (file.current_byte + n) = o + call.n
          BY <5>6, <5>7, <5>8
        <5> QED BY <5>3, <5>9 DEF p
      <4>6. AtPart(file'.file_offset, o) /\ file'.current_byte \in 0 .. SectorSize
        BY <1>3, <1>5, <1>6, <2>2, <3>2
      <4> QED BY <2>1, <4>2, <4>3, <4>4, <4>5, <4>6 DEF ReadDone
    <3> QED BY <3>1, <3>2
  <2> QED BY <1>1, <2>3, <2>4, <2>5, RPrimed DEF RInv
<1>14. ASSUME live, left # 0, dst' = dst \o Bytes(io.lba, file.current_byte, n)
       PROVE  /\ Copied(dst', o) /\ Len(dst') + left = call.n /\ left > 0
              /\ t = o + Len(dst') /\ t > file.file_offset /\ InStep(file) /\ AtPart(t, o)
  <2>1. Copied(dst', o) /\ Len(dst') = Len(dst) + n
    BY <1>7, <1>14
  <2>2. rd.bytes_remaining \in Int /\ left = rd.bytes_remaining - n
    BY <1>2 DEF ReadCtx, left
  <2>0. /\ Len(dst) \in Nat /\ n \in Nat /\ n > 0 /\ left \in Nat /\ Len(dst) + rd.bytes_remaining = call.n
        /\ file.file_offset = o + Len(dst) /\ t = file.file_offset + n
    BY <1>5, <1>6, <1>8, <1>14
  <2>3. Len(dst') + left = call.n /\ left > 0
    BY <1>14, <2>0, <2>1, <2>2
  <2>4. t = o + Len(dst') /\ t > file.file_offset
    BY <1>3, <2>0, <2>1
  <2>5. AtPart(t, o)
    <3>1. SeekDecompose(file.file_offset).byte_in_sector + n = SectorSize
      BY <1>5, <1>6, <1>14 DEF Coherent
    <3>2. SeekDecompose(file.file_offset + n).byte_in_sector = 0
      BY <1>3, <1>6, <1>14, <3>1, SectorEnd
    <3>3. t >= o
      BY <1>3, <1>5, <1>14, <2>4
    <3> QED BY <1>8, <1>14, <3>2, <3>3 DEF AtPart
  <2> QED BY <1>5, <1>14, <2>1, <2>3, <2>4, <2>5 DEF Coherent
<1>15. CASE /\ file' = a.file /\ left # 0 /\ dst' = dst \o Bytes(io.lba, file.current_byte, n)
            /\ a.status = Pending /\ sk' = a.sk /\ rd' = r /\ FatRead /\ call' = call
  <2>1. io' = [lba |-> 0, callback |-> "fs_seek_step"] /\ file' = file
    BY <1>10, <1>15 DEF FatRead, Post, Pending
  <2>2. Bounded'
    BY <1>3, <1>10, <1>11, <1>15, <2>1 DEF Bounded
  <2>3. ReadDone(call', dst', file')
    BY <1>2, <1>15 DEF ReadDone, Pending
  <2>4. ReadingOf(call', rd', dst', file', io', sk')
    <3>1. CASE ~live
      BY <1>15, <3>1, ROver
    <3>2. CASE live
      <4>1. sk'.target_offset = o + Len(dst') /\ OnTheWay(chain, sk', sk'.target_offset)
        BY <1>10, <1>14, <1>15, <3>2
      <4>2. rd' \in ReadCtx /\ rd'.bytes_remaining = left
        BY <1>4, <1>15
      <4> QED BY <1>4, <1>5, <1>14, <1>15, <2>1, <3>2, <4>1, <4>2 DEF ReadingOf
    <3> QED BY <3>1, <3>2
  <2> QED BY <1>1, <2>2, <2>3, <2>4, RPrimed DEF RInv
<1>16. CASE /\ file' = a.file /\ left # 0 /\ dst' = dst \o Bytes(io.lba, file.current_byte, n)
            /\ a.status # Pending /\ SeekDone(a.file, r, a.status)
  <2>1. /\ call'.op = call.op /\ call'.file = call.file /\ call'.n = call.n /\ io'.callback # "fs_seek_step"
    BY <1>2, <1>4, <1>10, <1>16, SeekDoneFacts
  <2>2. Bounded'
    BY <1>3, <1>11, <1>16, <2>1 DEF Bounded
  <2>3. ReadingOf(call', rd', dst', file', io', sk') /\ ReadDone(call', dst', file')
    <3>1. CASE ~live
      BY <2>1, <3>1, ROver
    <3>2. CASE live /\ a.status = -1
      <4>1. Finish(1)
        BY <1>4, <1>16, <3>2 DEF SeekDone
      <4>2. call'.status = 1
        BY <1>2, <4>1, FinishFacts
      <4> QED BY <4>2, ROver DEF Pending
    <3>3. CASE live /\ a.status = 0
      <4>1. /\ io' = [lba |-> DataSector(a.file), callback |-> "fs_read_step"]
            /\ rd' = [r EXCEPT !.state = "COPY_CONTENTS"] /\ call' = call
        BY <1>4, <1>16, <3>3 DEF SeekDone, Post
      <4>2. rd' \in ReadCtx /\ rd'.bytes_remaining = left
        BY <1>4, <4>1 DEF ReadCtx
      <4>3. InChain(t) /\ a.file = At(file, ClusterOf(t), t)
        <5>1. ~IntoFirst(file, t)
          BY <1>3, <1>4, <1>14, <1>16, <3>3, ClusterSizePositive DEF IntoFirst
        <5>2. Landed(file, a.file, t)
          BY <1>10, <1>14, <1>16, <3>3
        <5> QED BY <5>1, <5>2 DEF Landed
      <4>4. Coherent(a.file) /\ a.file.file_offset = t
        BY <1>2, <1>4, <4>3, AtCoherent
      <4>5. ReadDone(call', dst', file')
        BY <1>2, <4>1 DEF ReadDone, Pending
      <4>6. ReadingOf(call', rd', dst', file', io', sk')
        BY <1>4, <1>14, <1>16, <3>3, <4>1, <4>2, <4>4 DEF ReadingOf
      <4> QED BY <4>5, <4>6
    <3> QED BY <1>10, <1>16, <3>1, <3>2, <3>3
  <2> QED BY <1>1, <2>2, <2>3, RPrimed DEF RInv
<1> QED BY <1>9, <1>12, <1>13, <1>15, <1>16

(* Every step keeps it.                                                      *)
LEMMA RStep ==
  ASSUME IInv, RInv, [FileNext]_fvars
  PROVE  RInv'
<1>1. CASE Client
  BY <1>1, RReadSubmit, RSeekWhence, RIdle, FilesAssumption DEF Client
<1>2. CASE IoDone
  BY <1>2, RSeekStep, RReadStep DEF IoDone
<1>3. CASE FatHelperLost \/ UNCHANGED fvars
  BY <1>3, RIdle
<1> QED BY <1>1, <1>2, <1>3 DEF FileNext

-----------------------------------------------------------------------------
(* For files that end more than a sector below 2^32: a read from a coherent  *)
(* position that fs_read_step reports as done has copied the file's bytes,   *)
(* over any number of sectors and clusters.                                  *)
THEOREM ReadAlwaysExact ==
  ASSUME FilesFit
  PROVE  FileSpec => []ReadExact
<1>1. FileInit => RInv
  BY RInit
<1>2. IInv /\ RInv /\ [FileNext]_fvars => RInv'
  BY RStep
<1>3. RInv => ReadExact
  BY DEF RInv, ReadDone, ReadExact, Done, Copied
<1> QED BY <1>1, <1>2, <1>3, Invariant, PTL DEF FileSpec

(* For the same files: after such a read the file stands at the next byte,   *)
(* whatever sectors and clusters the read crossed.                           *)
THEOREM ReadAlwaysAdvances ==
  ASSUME FilesFit
  PROVE  FileSpec => []ReadAdvances
<1>1. FileInit => RInv
  BY RInit
<1>2. IInv /\ RInv /\ [FileNext]_fvars => RInv'
  BY RStep
<1>3. RInv => ReadAdvances
  BY DEF RInv, ReadDone, ReadAdvances, Done
<1> QED BY <1>1, <1>2, <1>3, Invariant, PTL DEF FileSpec

-----------------------------------------------------------------------------
(* Part two: the loader.                                                     *)

ElfCtx ==
  [state : -1 .. 8, phoff : Nat, phnum : Nat, pheader : Phdr, current_seg : Nat,
   text : Nat, data : Nat, pdata_start : Nat, heap_start : Nat, mepc : Nat, seg_buf : Nat]

Segment(ch) == [size : Nat, of : Phdr, from : FILE(ch), bytes : Seq(Int)]

Pcb ==
  [blocked : BOOLEAN, text : Int, data : Int, brk : Nat, mepc : Nat, pdata_start : Nat,
   mscratch : Int]

Last == Cardinality(DOMAIN ram)

(* The regions of the new program have been handed out, in order.            *)
ElfTyped ==
  /\ image \in Files /\ elf \in ElfCtx /\ pcb \in Pcb /\ dst \in Seq(Int)
  /\ Last \in Nat /\ ram \in [1 .. Last -> Segment(chain)]

(* Until the load is over the process owns its old regions, if it has any,   *)
(* and the loader the new ones; a segment that it has loaded is in its       *)
(* context.                                                                  *)
Owned ==
  elf.state \in NoLoad .. ELF_CLOSING =>
    /\ pcb.text \in {-1, 0} /\ pcb.data \in {-2, 0} /\ {-1, -2} \subseteq regions
    /\ {elf.text, elf.data} \ {0} \subseteq regions \cap DOMAIN ram
    /\ LoadsText => elf.text # 0
    /\ LoadsData => elf.data # 0
    /\ elf.state = NoLoad => DOMAIN ram = {}

Installs == elf.state = ELF_DONE => {pcb.text, pcb.data} \ {0} \subseteq DOMAIN ram

(* The inductive invariant of the regions.                                   *)
EInv == IInv /\ ElfTyped /\ Owned /\ Installs /\ PcbRegionsLive

-----------------------------------------------------------------------------
(* The steps of a load, one by one.                                          *)
Failed == ElfFail /\ UNCHANGED <<fvars, image, ram>>

Allocated(ph) ==
  LET r == Last + 1
  IN  /\ elf.state = ELF_READ_PHEADER /\ call.status = 0
      /\ ph \in PhdrRead /\ ph.type = "LOAD"
      /\ ram' = [x \in DOMAIN ram \cup {r} |->
                  IF x = r THEN [size |-> ph.memsz, of |-> ph, from |-> file,
                                 bytes |-> [i \in 1 .. ph.memsz |-> 0]]
                  ELSE ram[x]]
      /\ regions' = regions \cup {r}
      /\ elf' = [Placed(elf, ph, r) EXCEPT !.pheader = ph, !.seg_buf = r, !.state = ELF_SEEK_PCONTENT]
      /\ FsSeekWhence(ph.offset, "SET")
      /\ UNCHANGED <<pcb, image>>

Skipped(ph) ==
  /\ elf.state = ELF_READ_PHEADER /\ call.status = 0
  /\ ph \in PhdrRead /\ ph.type # "LOAD" /\ NextProgramHeader([elf EXCEPT !.pheader = ph])
  /\ UNCHANGED <<ram, regions, pcb, image>>

(* elf_step on a completion without error, up to the last segment.           *)
Submits == (Opening \/ ReadingHeader \/ LoadPheader \/ SeekPcontent) /\ call.status = 0 /\ UNCHANGED image

(* The steps of the loader: one submits a load or the next operation on the  *)
(* file, fails, handles a header, a payload or the close, or waits for the   *)
(* card.                                                                     *)
LEMMA Steps ==
  ASSUME [ElfNext]_evars
  PROVE  \/ Kexecve \/ EcallExecve \/ Submits
         \/ Failed /\ elf.state \in ELF_OPENING .. ELF_CLOSING
         \/ \E ph \in PhdrRead : Allocated(ph) \/ Skipped(ph)
         \/ LoadPcontent /\ call.status = 0 /\ UNCHANGED image
         \/ Closing /\ call.status = 0 /\ UNCHANGED image
         \/ Io \/ UNCHANGED evars
<1>1. CASE ElfStep
  <2>1. Called /\ call.status = 0 /\ UNCHANGED image
    BY <1>1 DEF ElfStep
  <2>2. CASE ReadPheader
    <3>1. PICK ph \in PhdrRead :
            \/ ph.type = "LOAD" /\ LoadSegment(ph)
            \/ /\ ph.type # "LOAD" /\ NextProgramHeader([elf EXCEPT !.pheader = ph])
               /\ UNCHANGED <<ram, regions, pcb>>
      BY <2>2 DEF ReadPheader
    <3>2. elf.state = ELF_READ_PHEADER /\ elf.state \in ELF_OPENING .. ELF_CLOSING
      BY <2>1, <2>2 DEF ReadPheader, Called
    <3>3. CASE ph.type = "LOAD" /\ LoadSegment(ph)
      BY <2>1, <3>2, <3>3 DEF LoadSegment, Failed, Allocated, Last
    <3>4. CASE /\ ph.type # "LOAD" /\ NextProgramHeader([elf EXCEPT !.pheader = ph])
               /\ UNCHANGED <<ram, regions, pcb>>
      BY <2>1, <3>2, <3>4 DEF Skipped
    <3> QED BY <3>1, <3>3, <3>4
  <2> QED BY <1>1, <2>1, <2>2 DEF ElfStep, Submits
<1>2. CASE ElfStepError
  BY <1>2 DEF ElfStepError, Failed, Called
<1> QED BY <1>1, <1>2 DEF ElfNext

(* Whatever a read put into the Phdr buffer has the fields of a Phdr.        *)
LEMMA PhdrType ==
  ASSUME image \in Files, NEW ph \in PhdrRead
  PROVE  ph \in Phdr /\ ph.offset \in Nat /\ ph.offset < Mod /\ ph.filesz \in Nat /\ ph.memsz \in Nat
<1>1. image.phdrs \in Seq(Phdr) /\ Garbage \subseteq Phdr
  BY ElfAssumption
<1>2. ph \in Garbage \/ \E k \in DOMAIN image.phdrs : ph = image.phdrs[k]
  BY DEF PhdrRead
<1>3. ph \in Phdr
  BY <1>1, <1>2
<1> QED BY <1>3, FilesAssumption DEF Phdr

(* What a step of the load does to the file.                                 *)
FileStep ==
  \/ \E n \in Nat : FsReadSubmit(n)
  \/ \E o \in Int : FsSeekWhence(o, "SET")
  \/ FsCloseSubmit \/ IoDone \/ FatHelperLost \/ UNCHANGED fvars

(* next_program_header is a step of the file: a read of a header or the      *)
(* close.                                                                    *)
LEMMA NextFile ==
  ASSUME NEW e, NextProgramHeader(e)
  PROVE  FileStep
<1>1. PhdrSize \in Nat
  BY ElfAssumption, FatAssumption
<1> QED BY <1>1 DEF NextProgramHeader, FileStep

(* Seen from the file, every step of the loader is one of its own operations *)
(* or leaves it alone.                                                       *)
LEMMA IsFileStep ==
  ASSUME ElfTyped, [ElfNext]_evars
  PROVE  FileStep
<1>1. /\ PhdrSize \in Nat /\ EhdrSize \in Nat /\ image \in Files /\ image.phoff \in Int
      /\ elf.pheader.filesz \in Nat
  BY ElfAssumption, FatAssumption DEF ElfTyped, ElfCtx, Phdr
<1>2. CASE Submits
  <2>1. CASE Opening
    BY <1>1, <2>1 DEF Opening, FileStep
  <2>2. CASE ReadingHeader
    BY <1>1, <2>2 DEF ReadingHeader, FileStep
  <2>3. CASE LoadPheader
    BY <1>1, <2>3 DEF LoadPheader, FileStep
  <2>4. CASE SeekPcontent
    BY <1>1, <2>4 DEF SeekPcontent, FileStep
  <2> QED BY <1>2, <2>1, <2>2, <2>3, <2>4 DEF Submits
<1>3. ASSUME NEW ph \in PhdrRead, Allocated(ph) PROVE FileStep
  <2>1. ph.offset \in Int
    BY <1>1, PhdrType
  <2> QED BY <1>3, <2>1 DEF Allocated, FileStep
<1>4. ASSUME NEW ph \in PhdrRead, Skipped(ph) PROVE FileStep
  BY <1>4, NextFile DEF Skipped
<1>5. CASE LoadPcontent
  BY <1>5, NextFile DEF LoadPcontent
<1>6. CASE Kexecve \/ EcallExecve \/ Failed \/ Closing \/ UNCHANGED evars
  BY <1>6 DEF Kexecve, EcallExecve, ElfLoadSubmit, Failed, Closing, evars, FileStep
<1>7. CASE Io
  BY <1>7 DEF Io, FileStep
<1> QED BY <1>2, <1>3, <1>4, <1>5, <1>6, <1>7, Steps

(* The file stays as FsFile promises.                                        *)
LEMMA FileKept ==
  ASSUME IInv, FileStep
  PROVE  IInv' /\ chain' = chain
<1>1. CASE UNCHANGED fvars
  <2>1. [FileNext]_fvars
    BY <1>1
  <2> QED BY <2>1, StepIInv, Volume
<1>2. CASE IoDone \/ FatHelperLost \/ FsCloseSubmit
  <2>1. [FileNext]_fvars
    BY <1>2 DEF FileNext, Client
  <2> QED BY <2>1, StepIInv, Volume
<1>3. ASSUME NEW n \in Nat, FsReadSubmit(n) PROVE IInv' /\ chain' = chain
  BY <1>3, ReadSubmitIInv DEF FsReadSubmit
<1>4. ASSUME NEW o \in Int, FsSeekWhence(o, "SET") PROVE IInv' /\ chain' = chain
  BY <1>4, SeekWhenceIInv DEF FsSeekWhence
<1> QED BY <1>1, <1>2, <1>3, <1>4 DEF FileStep

(* Bytes of the card are numbers.                                            *)
LEMMA BytesType ==
  ASSUME NEW lba \in Int, NEW b \in Int, NEW n \in Int
  PROVE  Bytes(lba, b, n) \in Seq(Int)
<1>1. lba * SectorSize \in Int
  BY FatAssumption, Z3
<1>2. \A i \in Int : lba * SectorSize + b + i - 1 \in Int
  BY <1>1
<1>3. CASE n >= 0
  BY <1>2, <1>3 DEF Bytes
<1>4. CASE n < 0
  <2>1. 1 .. n = 1 .. 0
    BY <1>4
  <2>2. Bytes(lba, b, n) = [i \in 1 .. 0 |-> lba * SectorSize + b + i - 1]
    BY <2>1 DEF Bytes
  <2> QED BY <1>2, <2>2
<1> QED BY <1>3, <1>4

(* What a read has copied stays a sequence of numbers.                       *)
LEMMA BufferType ==
  ASSUME IInv, FileStep, dst \in Seq(Int)
  PROVE  dst' \in Seq(Int)
<1>1. ASSUME NEW status \in {0, 1}, FsReadStep(status) PROVE dst' \in Seq(Int)
  <2>1. io.lba \in Int /\ file.current_byte \in Int /\ rd \in ReadCtx
    BY <1>1 DEF FsReadStep, IInv, Typed, FILE
  <2>2. Chunk(file, rd) \in Int
    BY <2>1, FatAssumption DEF Chunk, ReadCtx
  <2>3. dst' = dst \/ dst' = dst \o Bytes(io.lba, file.current_byte, Chunk(file, rd))
    BY <1>1 DEF FsReadStep
  <2>4. \A u, v \in Seq(Int) : u \o v \in Seq(Int)
    OBVIOUS
  <2> QED BY <2>1, <2>2, <2>3, <2>4, BytesType
<1>2. ASSUME NEW n \in Nat, FsReadSubmit(n) PROVE dst' \in Seq(Int)
  BY <1>2 DEF FsReadSubmit
<1>3. CASE \/ \E o \in Int : FsSeekWhence(o, "SET")
           \/ FsCloseSubmit \/ FatHelperLost \/ UNCHANGED fvars
           \/ \E status \in {0, 1} : FsSeekStep(status)
  <2>1. dst' = dst
    BY <1>3 DEF FsSeekWhence, FsCloseSubmit, FatHelperLost, fvars, FsSeekStep
  <2> QED BY <2>1
<1> QED BY <1>1, <1>2, <1>3 DEF FileStep, IoDone

-----------------------------------------------------------------------------
(* The header in hand before any was read.                                   *)
LEMMA NoPhdrType == NoPhdr \in Phdr
BY FilesAssumption DEF NoPhdr, Phdr

(* The context that elf_load_submit sets up.                                 *)
LEMMA ClearedType == Cleared \in ElfCtx
BY NoPhdrType DEF Cleared, ElfCtx, ELF_OPENING

(* A size rounded up to whole words.                                         *)
LEMMA AlignType ==
  ASSUME NEW n \in Nat
  PROVE  Align(n) \in Nat
<1>1. StackAlign \in Nat \ {0} /\ n + StackAlign - 1 \in Nat
  BY ElfAssumption
<1>2. (n + StackAlign - 1) \div StackAlign \in Nat
  BY <1>1, Division
<1>3. \A a, b \in Nat : a * b \in Nat
  BY Z3
<1> QED BY <1>1, <1>2, <1>3 DEF Align

(* The context after elf_read_next_program_header.                           *)
LEMMA NextElf ==
  ASSUME NEW e \in ElfCtx, NextProgramHeader(e)
  PROVE  /\ elf' \in ElfCtx /\ elf'.text = e.text /\ elf'.data = e.data
         /\ elf'.phnum = e.phnum /\ elf'.current_seg = e.current_seg + 1 /\ elf'.pheader = e.pheader
         /\ \/ elf'.state = ELF_READ_PHEADER /\ e.current_seg + 1 < e.phnum /\ FsReadSubmit(PhdrSize)
            \/ elf'.state = ELF_CLOSING /\ ~(e.current_seg + 1 < e.phnum) /\ FsCloseSubmit
<1>1. e.current_seg + 1 \in Nat
  BY DEF ElfCtx
<1>2. ELF_CLOSING - (ELF_CLOSING % 2) = 6
  BY Z3 DEF ELF_CLOSING
<1>3. \/ elf' = [e EXCEPT !.current_seg = e.current_seg + 1, !.state = 3] /\ e.current_seg + 1 < e.phnum /\ FsReadSubmit(PhdrSize)
      \/ elf' = [e EXCEPT !.current_seg = e.current_seg + 1, !.state = 6] /\ ~(e.current_seg + 1 < e.phnum) /\ FsCloseSubmit
  BY <1>2 DEF NextProgramHeader, ELF_READ_PHEADER
<1>4. ASSUME NEW s \in {3, 6}, elf' = [e EXCEPT !.current_seg = e.current_seg + 1, !.state = s]
      PROVE  /\ elf' \in ElfCtx /\ elf'.text = e.text /\ elf'.data = e.data /\ elf'.state = s
             /\ elf'.phnum = e.phnum /\ elf'.current_seg = e.current_seg + 1 /\ elf'.pheader = e.pheader
  <2> DEFINE n == e.current_seg + 1
  <2>1. n \in Nat /\ s \in -1 .. 8
    BY <1>1
  <2>2. elf' = [e EXCEPT !.current_seg = n, !.state = s]
    BY <1>4
  <2> HIDE DEF n
  <2>3. /\ elf' \in ElfCtx /\ elf'.text = e.text /\ elf'.data = e.data /\ elf'.state = s
        /\ elf'.phnum = e.phnum /\ elf'.current_seg = n /\ elf'.pheader = e.pheader
    BY <2>1, <2>2 DEF ElfCtx
  <2> QED BY <2>3 DEF n
<1> QED BY <1>3, <1>4 DEF ELF_READ_PHEADER, ELF_CLOSING

(* A step that hands out no memory and ends nothing.                         *)
LEMMA Quiet ==
  ASSUME EInv, IInv', chain' = chain, dst' \in Seq(Int), elf' \in ElfCtx,
         elf'.text = elf.text, elf'.data = elf.data,
         elf.state \in ELF_OPENING .. ELF_CLOSING, elf'.state \in ELF_OPENING .. ELF_CLOSING,
         UNCHANGED <<image, regions, pcb>>,
         Last' = Last, ram' \in [1 .. Last -> Segment(chain)],
         \A x \in DOMAIN ram : ram'[x].of = ram[x].of
  PROVE  EInv'
<1>1. ElfTyped'
  <2>1. image \in Files /\ pcb \in Pcb /\ Last \in Nat
    BY DEF EInv, ElfTyped
  <2>2. Segment(chain)' = Segment(chain)
    BY DEF Segment, FILE
  <2> QED BY <2>1, <2>2 DEF ElfTyped
<1>2. DOMAIN ram' = DOMAIN ram
  BY DEF EInv, ElfTyped
<1>3. Owned'
  <2>1. (LoadsText' <=> LoadsText) /\ (LoadsData' <=> LoadsData)
    BY <1>2 DEF LoadsText, LoadsData
  <2> QED BY <1>2, <2>1 DEF EInv, Owned, NoLoad, ELF_OPENING, ELF_CLOSING
<1>4. Installs' /\ PcbRegionsLive'
  BY DEF EInv, Installs, PcbRegionsLive, ELF_OPENING, ELF_CLOSING, ELF_DONE
<1> QED BY <1>1, <1>3, <1>4 DEF EInv

(* The context once the ELF header has been read.                            *)
LEMMA HeaderRead ==
  ASSUME elf \in ElfCtx, image \in Files, ReadingHeader
  PROVE  /\ elf' \in ElfCtx /\ elf'.text = elf.text /\ elf'.data = elf.data /\ elf'.state = 2
         /\ elf'.current_seg = 0 /\ elf'.phnum = image.phnum
<1> DEFINE off == image.phoff
           num == image.phnum
<1>1. elf' = [elf EXCEPT !.state = 2, !.current_seg = 0, !.phoff = off, !.phnum = num]
  BY DEF ReadingHeader, ELF_LOAD_PHEADER
<1>2. elf \in ElfCtx /\ off \in Nat /\ num \in Nat /\ 2 \in -1 .. 8
  BY ElfAssumption, FilesAssumption
<1> HIDE DEF off, num
<1>3. /\ elf' \in ElfCtx /\ elf'.text = elf.text /\ elf'.data = elf.data /\ elf'.state = 2
      /\ elf'.current_seg = 0 /\ elf'.phnum = num
  BY <1>1, <1>2 DEF ElfCtx
<1> QED BY <1>3 DEF num

(* A step that only submits the next operation keeps the ownership of        *)
(* memory.                                                                   *)
LEMMA SubmitsE ==
  ASSUME EInv, IInv', chain' = chain, dst' \in Seq(Int), Submits
  PROVE  EInv'
<1>1. elf \in ElfCtx /\ image \in Files /\ image.phoff \in Nat /\ image.phnum \in Nat
  BY ElfAssumption, FilesAssumption DEF EInv, ElfTyped
<1>2. /\ UNCHANGED <<image, ram, regions, pcb>> /\ elf' \in ElfCtx /\ elf'.text = elf.text /\ elf'.data = elf.data
      /\ elf.state \in ELF_OPENING .. ELF_CLOSING /\ elf'.state \in ELF_OPENING .. ELF_CLOSING
  <2>1. UNCHANGED <<image, ram, regions, pcb>>
    BY DEF Submits, Opening, ReadingHeader, LoadPheader, SeekPcontent
  <2>2. \/ elf.state = 0 /\ elf' = [elf EXCEPT !.state = 1]
        \/ elf.state = 1 /\ ReadingHeader
        \/ elf.state = 2 /\ elf' = [elf EXCEPT !.state = 3]
        \/ elf.state = 4 /\ elf' = [elf EXCEPT !.state = 5]
    BY DEF Submits, Opening, ReadingHeader, LoadPheader, SeekPcontent,
           ELF_OPENING, ELF_READING_HEADER, ELF_LOAD_PHEADER, ELF_READ_PHEADER, ELF_SEEK_PCONTENT,
           ELF_LOAD_PCONTENT
  <2>3. elf' \in ElfCtx /\ elf'.text = elf.text /\ elf'.data = elf.data /\ elf'.state \in {1, 2, 3, 5}
    <3>1. CASE ReadingHeader
      BY <1>1, <3>1, HeaderRead
    <3>2. ASSUME NEW s \in {1, 3, 5}, elf' = [elf EXCEPT !.state = s]
          PROVE  elf' \in ElfCtx /\ elf'.text = elf.text /\ elf'.data = elf.data /\ elf'.state = s
      <4>1. s \in -1 .. 8
        OBVIOUS
      <4> QED BY <1>1, <3>2, <4>1 DEF ElfCtx
    <3> QED BY <2>2, <3>1, <3>2
  <2>4. elf.state \in 0 .. 6 /\ elf'.state \in 0 .. 6
    BY <2>2, <2>3
  <2> QED BY <2>1, <2>3, <2>4 DEF ELF_OPENING, ELF_CLOSING
<1>3. Last' = Last /\ ram' \in [1 .. Last -> Segment(chain)] /\ \A x \in DOMAIN ram : ram'[x].of = ram[x].of
  BY <1>2 DEF Last, EInv, ElfTyped
<1> QED BY <1>2, <1>3, Quiet

(* So does a header that is no segment to load.                              *)
LEMMA SkippedE ==
  ASSUME EInv, IInv', chain' = chain, dst' \in Seq(Int), NEW ph, Skipped(ph)
  PROVE  EInv'
<1> DEFINE e == [elf EXCEPT !.pheader = ph]
<1>1. elf \in ElfCtx /\ ph \in Phdr
  BY PhdrType DEF EInv, ElfTyped, Skipped
<1>2. e \in ElfCtx /\ e.text = elf.text /\ e.data = elf.data
  BY <1>1 DEF ElfCtx
<1>3. NextProgramHeader(e) /\ elf.state = ELF_READ_PHEADER /\ UNCHANGED <<image, ram, regions, pcb>>
  BY DEF Skipped
<1> HIDE DEF e
<1>4. elf' \in ElfCtx /\ elf'.text = elf.text /\ elf'.data = elf.data /\ elf'.state \in {ELF_READ_PHEADER, ELF_CLOSING}
  BY <1>2, <1>3, NextElf
<1>5. Last' = Last /\ ram' \in [1 .. Last -> Segment(chain)] /\ \A x \in DOMAIN ram : ram'[x].of = ram[x].of
  BY <1>3 DEF Last, EInv, ElfTyped
<1>6. elf.state \in ELF_OPENING .. ELF_CLOSING /\ elf'.state \in ELF_OPENING .. ELF_CLOSING
  BY <1>3, <1>4 DEF ELF_OPENING, ELF_READ_PHEADER, ELF_CLOSING
<1> QED BY <1>3, <1>4, <1>5, <1>6, Quiet

(* A segment that the payload, from its byte d + 1 on, is written over.      *)
Spilt(s, d) == [s EXCEPT !.bytes = Overwritten(@, d)]

(* Writing a payload over a segment changes its bytes, not its size or its   *)
(* origin, and nothing when the payload does not reach it.                   *)
LEMMA SpiltType ==
  ASSUME NEW s \in Segment(chain), dst \in Seq(Int), NEW d
  PROVE  /\ Spilt(s, d) \in Segment(chain)
         /\ Spilt(s, d).size = s.size /\ Spilt(s, d).of = s.of /\ Spilt(s, d).from = s.from
         /\ Spilt(s, d).bytes = [i \in 1 .. Len(s.bytes) |-> IF d + i \in 1 .. Len(dst) THEN dst[d + i] ELSE s.bytes[i]]
         /\ d \in Nat /\ d >= Len(dst) => Spilt(s, d) = s
<1> DEFINE b == [i \in 1 .. Len(s.bytes) |-> IF d + i \in 1 .. Len(dst) THEN dst[d + i] ELSE s.bytes[i]]
<1>1. s.bytes \in Seq(Int) /\ Len(s.bytes) \in Nat /\ DOMAIN s.bytes = 1 .. Len(s.bytes) /\ DOMAIN dst = 1 .. Len(dst)
  BY DEF Segment
<1>2. Spilt(s, d) = [s EXCEPT !.bytes = b]
  BY <1>1 DEF Spilt, Overwritten
<1>3. \A i \in 1 .. Len(s.bytes) : (IF d + i \in 1 .. Len(dst) THEN dst[d + i] ELSE s.bytes[i]) \in Int
  BY <1>1
<1>4. b \in Seq(Int) /\ Len(b) = Len(s.bytes)
  BY <1>1, <1>3
<1>5. d \in Nat /\ d >= Len(dst) => b = s.bytes
  <2> SUFFICES ASSUME d \in Nat, d >= Len(dst) PROVE b = s.bytes
    OBVIOUS
  <2>1. Len(dst) \in Nat
    OBVIOUS
  <2>2. \A i \in 1 .. Len(s.bytes) : d + i \notin 1 .. Len(dst)
    BY <1>1, <2>1
  <2>3. b = [i \in 1 .. Len(s.bytes) |-> s.bytes[i]]
    BY <2>2
  <2>4. \A u \in Seq(Int) : u = [i \in 1 .. Len(u) |-> u[i]]
    OBVIOUS
  <2> QED BY <1>1, <2>3, <2>4
<1> HIDE DEF b
<1>6. /\ Spilt(s, d) \in Segment(chain) /\ Spilt(s, d).bytes = b /\ Spilt(s, d).size = s.size
      /\ Spilt(s, d).of = s.of /\ Spilt(s, d).from = s.from
  BY <1>2, <1>4 DEF Segment
<1>7. b = s.bytes => Spilt(s, d) = s
  BY <1>2 DEF Segment
<1> QED BY <1>5, <1>6, <1>7 DEF b

(* What the end of a payload changes: the segment's bytes, those of another  *)
(* one if the payload does not fit, and the next operation.                  *)
LEMMA LoadPcontentFacts ==
  ASSUME ElfTyped, LoadPcontent
  PROVE  /\ ram' \in [1 .. Last -> Segment(chain)] /\ DOMAIN ram' = DOMAIN ram /\ Last' = Last
         /\ \A x \in DOMAIN ram :
              ram'[x].of = ram[x].of /\ ram'[x].from = ram[x].from /\ ram'[x].size = ram[x].size
         /\ elf.seg_buf \in DOMAIN ram =>
              /\ ram'[elf.seg_buf] = Spilt(ram[elf.seg_buf], 0)
              /\ Len(dst) <= ram[elf.seg_buf].size =>
                   \A x \in DOMAIN ram : x # elf.seg_buf => ram'[x] = ram[x]
         /\ elf' \in ElfCtx /\ elf'.text = elf.text /\ elf'.data = elf.data /\ elf'.pheader = elf.pheader
         /\ elf'.phnum = elf.phnum /\ elf'.current_seg = elf.current_seg + 1
         /\ elf'.state \in {ELF_READ_PHEADER, ELF_CLOSING}
<1> DEFINE e == [elf EXCEPT !.seg_buf = 0]
           q == elf.seg_buf
<1>1. elf \in ElfCtx /\ dst \in Seq(Int) /\ ram \in [1 .. Last -> Segment(chain)] /\ DOMAIN ram = 1 .. Last
  BY DEF ElfTyped
<1>2. PICK behind \in (DOMAIN ram \ {q}) \cup {0}, d \in ram[q].size .. ram[q].size + Len(dst) :
        ram' = [x \in DOMAIN ram |->
                  IF x = q THEN Spilt(ram[x], 0) ELSE IF x = behind THEN Spilt(ram[x], d) ELSE ram[x]]
  BY DEF LoadPcontent, Spilt
<1> HIDE DEF q
<1>3. DOMAIN ram' = DOMAIN ram
  BY <1>2
<1>4. ASSUME NEW x \in DOMAIN ram
      PROVE  /\ ram'[x] \in Segment(chain)
             /\ ram'[x].of = ram[x].of /\ ram'[x].from = ram[x].from /\ ram'[x].size = ram[x].size
  <2>1. ram[x] \in Segment(chain)
    BY <1>1, <1>4
  <2>2. ram'[x] = ram[x] \/ ram'[x] = Spilt(ram[x], 0) \/ ram'[x] = Spilt(ram[x], d)
    BY <1>2, <1>4
  <2>3. ASSUME NEW k
        PROVE  /\ Spilt(ram[x], k) \in Segment(chain)
               /\ Spilt(ram[x], k).of = ram[x].of /\ Spilt(ram[x], k).from = ram[x].from
               /\ Spilt(ram[x], k).size = ram[x].size
    BY <1>1, <2>1, SpiltType
  <2> QED BY <2>1, <2>2, <2>3
<1>5. ram' \in [1 .. Last -> Segment(chain)] /\ Last' = Last
  <2>1. ram' = [x \in 1 .. Last |-> ram'[x]]
    BY <1>1, <1>2, <1>3
  <2> QED BY <1>1, <1>3, <1>4, <2>1 DEF Last
<1>6. ASSUME q \in DOMAIN ram
      PROVE  /\ ram'[q] = Spilt(ram[q], 0)
             /\ Len(dst) <= ram[q].size => \A x \in DOMAIN ram : x # q => ram'[x] = ram[x]
  <2>1. ram'[q] = Spilt(ram[q], 0)
    BY <1>2, <1>6
  <2>2. ram[q].size \in Nat /\ Len(dst) \in Nat
    BY <1>1, <1>6 DEF Segment
  <2>3. ASSUME Len(dst) <= ram[q].size, NEW x \in DOMAIN ram, x # q PROVE ram'[x] = ram[x]
    <3>1. d \in Nat /\ d >= Len(dst)
      BY <1>2, <2>2, <2>3
    <3>2. Spilt(ram[x], d) = ram[x]
      BY <1>1, <2>3, <3>1, SpiltType
    <3> QED BY <1>2, <2>3, <3>2
  <2> QED BY <2>1, <2>3
<1>7. /\ e \in ElfCtx /\ e.text = elf.text /\ e.data = elf.data /\ e.pheader = elf.pheader
      /\ e.phnum = elf.phnum /\ e.current_seg = elf.current_seg
  BY <1>1 DEF ElfCtx
<1>8. NextProgramHeader(e)
  BY DEF LoadPcontent
<1> HIDE DEF e
<1>9. /\ elf' \in ElfCtx /\ elf'.text = elf.text /\ elf'.data = elf.data /\ elf'.pheader = elf.pheader
      /\ elf'.phnum = elf.phnum /\ elf'.current_seg = elf.current_seg + 1
      /\ elf'.state \in {ELF_READ_PHEADER, ELF_CLOSING}
  BY <1>7, <1>8, NextElf
<1> QED BY <1>3, <1>4, <1>5, <1>6, <1>9 DEF q

(* The end of a payload keeps the ownership of memory.                       *)
LEMMA LoadPcontentE ==
  ASSUME EInv, IInv', chain' = chain, dst' \in Seq(Int), LoadPcontent, UNCHANGED image
  PROVE  EInv'
<1>1. UNCHANGED <<image, regions, pcb>> /\ elf.state = ELF_LOAD_PCONTENT /\ ElfTyped
  BY DEF LoadPcontent, EInv
<1>2. /\ ram' \in [1 .. Last -> Segment(chain)] /\ Last' = Last /\ \A x \in DOMAIN ram : ram'[x].of = ram[x].of
      /\ elf' \in ElfCtx /\ elf'.text = elf.text /\ elf'.data = elf.data
      /\ elf'.state \in {ELF_READ_PHEADER, ELF_CLOSING}
  BY <1>1, LoadPcontentFacts
<1>3. elf.state \in ELF_OPENING .. ELF_CLOSING /\ elf'.state \in ELF_OPENING .. ELF_CLOSING
  BY <1>1, <1>2 DEF ELF_OPENING, ELF_READ_PHEADER, ELF_LOAD_PCONTENT, ELF_CLOSING
<1> QED BY <1>1, <1>2, <1>3, Quiet

(* Memory for a segment: zeroed, and entered in the context.                 *)
LEMMA PlacedType ==
  ASSUME elf \in ElfCtx, image \in Files, NEW ph \in Phdr, NEW r \in Nat
  PROVE  /\ Placed(elf, ph, r) \in ElfCtx
         /\ Placed(elf, ph, r).phnum = elf.phnum /\ Placed(elf, ph, r).current_seg = elf.current_seg
         /\ Placed(elf, ph, r).text = (IF ph.exec THEN r ELSE elf.text)
         /\ Placed(elf, ph, r).data = (IF ph.exec THEN elf.data ELSE r)
<1>1. image.entry \in Nat /\ ph.vaddr \in Nat /\ ph.memsz \in Nat
  BY ElfAssumption DEF Phdr
<1>2. Align(ph.vaddr + ph.memsz) \in Nat
  BY <1>1, AlignType
<1> DEFINE h == Align(ph.vaddr + ph.memsz)
           v == ph.vaddr
           m == image.entry
           p == Placed(elf, ph, r)
<1>3. p = IF ph.exec THEN [elf EXCEPT !.text = r, !.mepc = m]
          ELSE [elf EXCEPT !.data = r, !.pdata_start = v, !.heap_start = h]
  BY DEF Placed
<1>4. h \in Nat /\ v \in Nat /\ m \in Nat
  BY <1>1, <1>2
<1> HIDE DEF h, v, m, p
<1>5. CASE ph.exec
  <2>1. p = [elf EXCEPT !.text = r, !.mepc = m]
    BY <1>3, <1>5
  <2>2. p \in ElfCtx /\ p.phnum = elf.phnum /\ p.current_seg = elf.current_seg /\ p.text = r /\ p.data = elf.data
    BY <1>4, <2>1 DEF ElfCtx
  <2> QED BY <1>5, <2>2 DEF p
<1>6. CASE ~ph.exec
  <2>1. p = [elf EXCEPT !.data = r, !.pdata_start = v, !.heap_start = h]
    BY <1>3, <1>6
  <2>2. p \in ElfCtx /\ p.phnum = elf.phnum /\ p.current_seg = elf.current_seg /\ p.text = elf.text /\ p.data = r
    BY <1>4, <2>1 DEF ElfCtx
  <2> QED BY <1>6, <2>2 DEF p
<1> QED BY <1>5, <1>6 DEF p

(* What a segment's header changes: a new zeroed region of the segment's     *)
(* size, owned by the context.                                               *)
LEMMA AllocatedFacts ==
  ASSUME IInv, ElfTyped, NEW ph, Allocated(ph)
  PROVE  LET r == Last + 1
         IN  /\ r \in Nat /\ Last' = r /\ DOMAIN ram = 1 .. Last /\ DOMAIN ram' = 1 .. r
             /\ ram' \in [1 .. r -> Segment(chain)]
             /\ ph \in Phdr /\ ph.type = "LOAD"
             /\ ram'[r].of = ph /\ ram'[r].from = file /\ ram'[r].size = ph.memsz
             /\ ram'[r].bytes = [i \in 1 .. ph.memsz |-> 0]
             /\ Len(ram'[r].bytes) = ph.memsz
             /\ \A x \in 1 .. Last : ram'[x] = ram[x]
             /\ elf' \in ElfCtx /\ elf'.state = ELF_SEEK_PCONTENT /\ elf'.pheader = ph /\ elf'.seg_buf = r
             /\ elf'.text = (IF ph.exec THEN r ELSE elf.text)
             /\ elf'.data = (IF ph.exec THEN elf.data ELSE r)
             /\ elf'.phnum = elf.phnum /\ elf'.current_seg = elf.current_seg
<1> DEFINE r == Last + 1
           new == [size |-> ph.memsz, of |-> ph, from |-> file, bytes |-> [i \in 1 .. ph.memsz |-> 0]]
           p == Placed(elf, ph, r)
<1>1. /\ elf \in ElfCtx /\ image \in Files /\ Last \in Nat /\ r \in Nat
      /\ ram \in [1 .. Last -> Segment(chain)] /\ DOMAIN ram = 1 .. Last /\ file \in FILE(chain)
  BY DEF ElfTyped, IInv, Typed
<1>2. ph \in Phdr /\ ph.memsz \in Nat /\ ph.type = "LOAD"
  BY <1>1, PhdrType DEF Allocated
<1>3. [i \in 1 .. ph.memsz |-> 0] \in Seq(Int) /\ Len([i \in 1 .. ph.memsz |-> 0]) = ph.memsz
  BY <1>2
<1>4. new \in Segment(chain)
  BY <1>1, <1>2, <1>3 DEF Segment
<1>5. ram' = [x \in DOMAIN ram \cup {r} |-> IF x = r THEN new ELSE ram[x]]
  BY DEF Allocated
<1>6. DOMAIN ram \cup {r} = 1 .. r /\ r \notin 1 .. Last /\ r \in 1 .. r /\ \A x \in 1 .. Last : x \in 1 .. r
  BY <1>1
<1>7. /\ ram' \in [1 .. r -> Segment(chain)] /\ DOMAIN ram' = 1 .. r
      /\ ram'[r] = new /\ \A x \in 1 .. Last : ram'[x] = ram[x]
  <2> HIDE DEF new, r
  <2> QED BY <1>1, <1>4, <1>5, <1>6
<1>8. Last' = r
  <2>1. Last' = Cardinality(1 .. r)
    BY <1>7 DEF Last
  <2>2. Cardinality(1 .. r) = IF 1 > r THEN 0 ELSE r - 1 + 1
    BY <1>1, FS_Interval
  <2>3. r \in Nat /\ r >= 1
    BY <1>1
  <2> HIDE DEF r
  <2> QED BY <2>1, <2>2, <2>3
<1>9. elf' = [p EXCEPT !.pheader = ph, !.seg_buf = r, !.state = 4]
  BY DEF Allocated, ELF_SEEK_PCONTENT
<1>10. /\ p \in ElfCtx
       /\ p.text = (IF ph.exec THEN r ELSE elf.text) /\ p.data = (IF ph.exec THEN elf.data ELSE r)
       /\ p.phnum = elf.phnum /\ p.current_seg = elf.current_seg
  BY <1>1, <1>2, PlacedType
<1> HIDE DEF p, r
<1>11. /\ elf' \in ElfCtx /\ elf'.state = 4 /\ elf'.pheader = ph /\ elf'.seg_buf = r
       /\ elf'.text = p.text /\ elf'.data = p.data /\ elf'.phnum = p.phnum /\ elf'.current_seg = p.current_seg
  <2>1. 4 \in -1 .. 8
    OBVIOUS
  <2> QED BY <1>1, <1>2, <1>9, <1>10, <2>1 DEF ElfCtx
<1>12. /\ ram'[r].of = ph /\ ram'[r].from = file /\ ram'[r].size = ph.memsz /\ ram'[r].bytes = [i \in 1 .. ph.memsz |-> 0]
  BY <1>7
<1> HIDE DEF new
<1> QED BY <1>1, <1>2, <1>3, <1>7, <1>8, <1>10, <1>11, <1>12 DEF r, ELF_SEEK_PCONTENT

(* A segment's header keeps the ownership: the new region is the context's.  *)
LEMMA AllocatedE ==
  ASSUME EInv, IInv', chain' = chain, dst' \in Seq(Int), NEW ph, Allocated(ph)
  PROVE  EInv'
<1> DEFINE r == Last + 1
<1>1. /\ r \in Nat /\ Last' = r /\ DOMAIN ram = 1 .. Last /\ DOMAIN ram' = 1 .. r /\ Last \in Nat
      /\ ram' \in [1 .. r -> Segment(chain)] /\ elf' \in ElfCtx /\ elf'.state = ELF_SEEK_PCONTENT
      /\ elf'.text = (IF ph.exec THEN r ELSE elf.text) /\ elf'.data = (IF ph.exec THEN elf.data ELSE r)
      /\ ram'[r].of = ph /\ ph \in Phdr /\ \A x \in 1 .. Last : ram'[x] = ram[x]
  BY AllocatedFacts DEF EInv, ElfTyped
<1>2. elf.state = ELF_READ_PHEADER /\ regions' = regions \cup {r} /\ UNCHANGED <<pcb, image>>
  BY DEF Allocated
<1> HIDE DEF r
<1>3. ElfTyped'
  <2>1. image \in Files /\ pcb \in Pcb
    BY DEF EInv, ElfTyped
  <2>2. Segment(chain)' = Segment(chain)
    BY DEF Segment, FILE
  <2> QED BY <1>1, <1>2, <2>1, <2>2 DEF ElfTyped
<1>4. /\ pcb.text \in {-1, 0} /\ pcb.data \in {-2, 0} /\ {-1, -2} \subseteq regions
      /\ {elf.text, elf.data} \ {0} \subseteq regions \cap DOMAIN ram
      /\ (LoadsText => elf.text # 0) /\ (LoadsData => elf.data # 0)
  BY <1>2 DEF EInv, Owned, ELF_READ_PHEADER, NoLoad, ELF_CLOSING
<1>5. {elf'.text, elf'.data} \ {0} \subseteq regions' \cap DOMAIN ram'
  <2>1. r \in DOMAIN ram' /\ \A x \in DOMAIN ram : x \in DOMAIN ram'
    BY <1>1 DEF r
  <2> QED BY <1>1, <1>2, <1>4, <2>1
<1>6. Owned'
  <2>1. r # 0 /\ \A x \in 1 .. r : x = r \/ x \in 1 .. Last
    BY <1>1 DEF r
  <2>2. (LoadsText' => LoadsText \/ ph.exec) /\ (LoadsData' => LoadsData \/ ~ph.exec)
    <3>1. \A x \in DOMAIN ram' : ram'[x].of = ph \/ (x \in DOMAIN ram /\ ram'[x].of = ram[x].of)
      BY <1>1, <2>1
    <3>2. ASSUME LoadsText', ~ph.exec PROVE LoadsText
      <4>1. PICK x \in DOMAIN ram' : ram'[x].of.exec
        BY <3>2 DEF LoadsText
      <4>2. x \in DOMAIN ram /\ ram'[x].of = ram[x].of
        BY <3>1, <3>2, <4>1
      <4> QED BY <4>1, <4>2, Zenon DEF LoadsText
    <3>3. ASSUME LoadsData', ph.exec PROVE LoadsData
      <4>1. PICK x \in DOMAIN ram' : ~ram'[x].of.exec
        BY <3>3 DEF LoadsData
      <4>2. x \in DOMAIN ram /\ ram'[x].of = ram[x].of
        BY <3>1, <3>3, <4>1
      <4> QED BY <4>1, <4>2, Zenon DEF LoadsData
    <3> QED BY <3>2, <3>3
  <2>3. (LoadsText' => elf'.text # 0) /\ (LoadsData' => elf'.data # 0)
    BY <1>1, <1>4, <2>1, <2>2
  <2> QED BY <1>1, <1>2, <1>4, <1>5, <2>3 DEF Owned, ELF_SEEK_PCONTENT, NoLoad
<1>7. Installs' /\ PcbRegionsLive'
  BY <1>1, <1>2, <1>4 DEF Installs, PcbRegionsLive, ELF_SEEK_PCONTENT, ELF_DONE
<1> QED BY <1>3, <1>6, <1>7 DEF EInv

(* elf_finish, after an error and after the last segment.                    *)
LEMMA FailedE ==
  ASSUME EInv, IInv', chain' = chain, dst' \in Seq(Int), Failed, elf.state \in ELF_OPENING .. ELF_CLOSING
  PROVE  EInv'
<1>1. /\ UNCHANGED <<image, ram>> /\ elf' = [elf EXCEPT !.state = 8]
      /\ regions' = regions \ {elf.text, elf.data} /\ pcb' = [pcb EXCEPT !.blocked = FALSE]
  BY DEF Failed, ElfFail, ELF_ERROR
<1>2. /\ image \in Files /\ pcb \in Pcb /\ elf \in ElfCtx /\ Last \in Nat
      /\ ram \in [1 .. Last -> Segment(chain)] /\ elf.text \in Nat /\ elf.data \in Nat
  BY DEF EInv, ElfTyped, ElfCtx
<1>3. elf' \in ElfCtx /\ elf'.state = 8
  <2>1. 8 \in -1 .. 8
    OBVIOUS
  <2> QED BY <1>1, <1>2, <2>1 DEF ElfCtx
<1>4. pcb' \in Pcb /\ pcb'.text = pcb.text /\ pcb'.data = pcb.data
  BY <1>1, <1>2 DEF Pcb
<1>5. ElfTyped'
  <2>1. Segment(chain)' = Segment(chain) /\ Last' = Last
    BY <1>1 DEF Segment, FILE, Last
  <2> QED BY <1>1, <1>2, <1>3, <1>4, <2>1 DEF ElfTyped
<1>6. pcb.text \in {-1, 0} /\ pcb.data \in {-2, 0} /\ {-1, -2} \subseteq regions
  BY DEF EInv, Owned, NoLoad, ELF_OPENING, ELF_CLOSING
<1>7. PcbRegionsLive'
  <2>1. elf.text \notin {-1, -2} /\ elf.data \notin {-1, -2}
    BY <1>2
  <2>2. {pcb'.text, pcb'.data} \ {0} \subseteq regions'
    BY <1>1, <1>4, <1>6, <2>1
  <2> QED BY <1>3, <2>2 DEF PcbRegionsLive, ELF_DONE
<1>8. Owned' /\ Installs'
  BY <1>3 DEF Owned, Installs, NoLoad, ELF_CLOSING, ELF_DONE
<1> QED BY <1>5, <1>7, <1>8 DEF EInv

(* The close hands the context's regions to the PCB.                         *)
LEMMA ClosingE ==
  ASSUME EInv, IInv', chain' = chain, dst' \in Seq(Int), Closing, UNCHANGED image
  PROVE  EInv'
<1>1. /\ elf.state = ELF_CLOSING /\ UNCHANGED <<image, ram>> /\ elf' = [elf EXCEPT !.state = 7]
      /\ regions' = regions \ {pcb.text, pcb.data} /\ pcb' = Installed
  BY DEF Closing, ElfFinish, ELF_DONE
<1>2. /\ image \in Files /\ elf \in ElfCtx /\ Last \in Nat
      /\ ram \in [1 .. Last -> Segment(chain)]
  BY DEF EInv, ElfTyped
<1>3. elf' \in ElfCtx /\ elf'.state = 7
  <2>1. 7 \in -1 .. 8
    OBVIOUS
  <2> QED BY <1>1, <1>2, <2>1 DEF ElfCtx
<1>4. /\ elf.text \in Nat /\ elf.data \in Nat /\ elf.heap_start \in Nat /\ elf.mepc \in Nat /\ elf.pdata_start \in Nat
  BY <1>2 DEF ElfCtx
<1>5. /\ pcb.text \in {-1, 0} /\ pcb.data \in {-2, 0}
      /\ {elf.text, elf.data} \ {0} \subseteq regions \cap DOMAIN ram
      /\ (LoadsText => elf.text # 0) /\ (LoadsData => elf.data # 0)
  BY <1>1 DEF EInv, Owned, NoLoad, ELF_CLOSING
<1>6. (IF elf.text = 0 THEN -1 ELSE elf.pdata_start + ram[elf.text].size) \in Int
  <2>1. elf.text # 0 => ram[elf.text] \in Segment(chain)
    BY <1>2, <1>5
  <2>2. elf.text # 0 => ram[elf.text].size \in Nat
    BY <2>1 DEF Segment
  <2> QED BY <1>4, <2>2
<1>7. pcb' \in Pcb /\ pcb'.text = elf.text /\ pcb'.data = elf.data
  BY <1>1, <1>4, <1>6 DEF Installed, Pcb
<1>8. ElfTyped'
  <2>1. Segment(chain)' = Segment(chain) /\ Last' = Last
    BY <1>1 DEF Segment, FILE, Last
  <2> QED BY <1>1, <1>2, <1>3, <1>7, <2>1 DEF ElfTyped
<1>9. PcbRegionsLive' /\ Installs'
  <2>1. elf.text \notin {-1, -2} /\ elf.data \notin {-1, -2}
    BY <1>4
  <2>2. {pcb'.text, pcb'.data} \ {0} \subseteq regions' \cap DOMAIN ram'
    BY <1>1, <1>5, <1>7, <2>1
  <2>3. (LoadsText' <=> LoadsText) /\ (LoadsData' <=> LoadsData)
    BY <1>1 DEF LoadsText, LoadsData
  <2> QED BY <1>5, <1>7, <2>2, <2>3 DEF PcbRegionsLive, Installs
<1>10. Owned'
  BY <1>3 DEF Owned, NoLoad, ELF_CLOSING
<1> QED BY <1>8, <1>9, <1>10 DEF EInv

(* elf_load_submit starts with no region of its own, for a new process or    *)
(* for one that runs.                                                        *)
LEMMA LoadSubmitE ==
  ASSUME EInv, IInv', chain' = chain, dst' \in Seq(Int), Kexecve \/ EcallExecve
  PROVE  EInv'
<1>1. /\ elf.state = NoLoad /\ UNCHANGED <<image, ram, regions>> /\ elf' = Cleared
      /\ pcb' = pcb \/ pcb' = [pcb EXCEPT !.blocked = TRUE, !.text = 0, !.data = 0]
  BY DEF Kexecve, EcallExecve, ElfLoadSubmit
<1>2. image \in Files /\ pcb \in Pcb /\ Last \in Nat /\ ram \in [1 .. Last -> Segment(chain)]
  BY DEF EInv, ElfTyped
<1>3. elf' \in ElfCtx /\ elf'.state = 0 /\ elf'.text = 0 /\ elf'.data = 0
  BY <1>1, ClearedType DEF Cleared, ELF_OPENING
<1>4. pcb' \in Pcb /\ pcb'.text \in {pcb.text, 0} /\ pcb'.data \in {pcb.data, 0}
  <2>1. CASE pcb' = pcb
    BY <1>2, <2>1
  <2>2. CASE pcb' = [pcb EXCEPT !.blocked = TRUE, !.text = 0, !.data = 0]
    <3>1. 0 \in Int /\ TRUE \in BOOLEAN
      OBVIOUS
    <3> QED BY <1>2, <2>2, <3>1 DEF Pcb
  <2> QED BY <1>1, <2>1, <2>2
<1>5. ElfTyped'
  <2>1. Segment(chain)' = Segment(chain) /\ Last' = Last
    BY <1>1 DEF Segment, FILE, Last
  <2> QED BY <1>1, <1>2, <1>3, <1>4, <2>1 DEF ElfTyped
<1>6. pcb.text \in {-1, 0} /\ pcb.data \in {-2, 0} /\ {-1, -2} \subseteq regions /\ DOMAIN ram = {}
  BY <1>1 DEF EInv, Owned, NoLoad, ELF_CLOSING
<1>7. Owned' /\ Installs' /\ PcbRegionsLive'
  <2>1. ~LoadsText' /\ ~LoadsData'
    BY <1>1, <1>6 DEF LoadsText, LoadsData
  <2> QED BY <1>1, <1>3, <1>4, <1>6, <2>1 DEF Owned, Installs, PcbRegionsLive, ELF_DONE
<1> QED BY <1>5, <1>7 DEF EInv

(* The card answers, or nothing happens.                                     *)
LEMMA WaitE ==
  ASSUME EInv, IInv', chain' = chain, dst' \in Seq(Int), UNCHANGED <<image, elf, ram, regions, pcb>>
  PROVE  EInv'
<1>1. ElfTyped'
  <2>1. Segment(chain)' = Segment(chain) /\ Last' = Last
    BY DEF Segment, FILE, Last
  <2> QED BY <2>1 DEF EInv, ElfTyped
<1>2. (LoadsText' <=> LoadsText) /\ (LoadsData' <=> LoadsData)
  BY DEF LoadsText, LoadsData
<1> QED BY <1>1, <1>2 DEF EInv, Owned, Installs, PcbRegionsLive

(* The invariant before the first load.                                      *)
LEMMA InitE ==
  ASSUME ElfInit
  PROVE  EInv /\ FileInit
<1>1. PICK f \in Files : image = f /\ FileOpen(f)
  BY DEF ElfInit
<1>2. FileInit
  BY <1>1 DEF FileInit
<1>3. elf \in ElfCtx /\ elf.state = -1 /\ elf.text = 0 /\ elf.data = 0
  <2>1. elf = [Cleared EXCEPT !.state = -1] /\ Cleared \in ElfCtx /\ -1 \in -1 .. 8
    BY ClearedType DEF ElfInit, NoLoad
  <2>2. Cleared.text = 0 /\ Cleared.data = 0
    BY DEF Cleared
  <2> QED BY <2>1, <2>2 DEF ElfCtx
<1>4. pcb \in Pcb /\ pcb.text = -1 /\ pcb.data = -2
  BY DEF ElfInit, Pcb
<1>5. Last = 0 /\ ram \in [1 .. Last -> Segment(chain)] /\ DOMAIN ram = {}
  <2>1. DOMAIN ram = {} /\ ram = [r \in {} |-> 0]
    BY DEF ElfInit
  <2>2. Last = 0
    BY <2>1, FS_EmptySet DEF Last
  <2>3. 1 .. 0 = {}
    OBVIOUS
  <2> QED BY <2>1, <2>2, <2>3
<1>6. dst = <<>>
  BY <1>1 DEF FileOpen
<1>7. ElfTyped
  BY <1>1, <1>3, <1>4, <1>5, <1>6 DEF ElfTyped
<1>8. Owned /\ Installs /\ PcbRegionsLive
  BY <1>3, <1>4, <1>5 DEF Owned, LoadsText, LoadsData, Installs, PcbRegionsLive, ElfInit, NoLoad, ELF_CLOSING, ELF_DONE
<1> QED BY <1>2, <1>7, <1>8, InitIInv DEF EInv

(* Every step of the loader keeps it.                                        *)
LEMMA StepE ==
  ASSUME EInv, [ElfNext]_evars
  PROVE  EInv'
<1>1. FileStep
  BY IsFileStep DEF EInv
<1>2. IInv' /\ chain' = chain /\ dst' \in Seq(Int)
  BY <1>1, FileKept, BufferType DEF EInv, ElfTyped
<1>3. CASE Io \/ UNCHANGED evars
  <2>1. UNCHANGED <<image, elf, ram, regions, pcb>>
    BY <1>3 DEF Io, evars
  <2> QED BY <1>2, <2>1, WaitE
<1>4. CASE Kexecve \/ EcallExecve
  BY <1>2, <1>4, LoadSubmitE
<1>5. CASE Submits
  BY <1>2, <1>5, SubmitsE
<1>6. CASE Failed /\ elf.state \in ELF_OPENING .. ELF_CLOSING
  BY <1>2, <1>6, FailedE
<1>7. CASE \E ph \in PhdrRead : Allocated(ph) \/ Skipped(ph)
  BY <1>2, <1>7, AllocatedE, SkippedE
<1>8. CASE LoadPcontent /\ UNCHANGED image
  BY <1>2, <1>8, LoadPcontentE
<1>9. CASE Closing /\ UNCHANGED image
  BY <1>2, <1>9, ClosingE
<1> QED BY <1>3, <1>4, <1>5, <1>6, <1>7, <1>8, <1>9, Steps

(* The inductive invariant of the regions holds in every reachable state.    *)
THEOREM ElfInvariant == ElfSpec => []EInv
<1>1. ElfInit => EInv
  BY InitE
<1>2. EInv /\ [ElfNext]_evars => EInv'
  BY StepE
<1> QED BY <1>1, <1>2, PTL DEF ElfSpec

(* Whatever fails and wherever, elf_finish never leaves a process, new or    *)
(* running, with a region that has been freed, and a load that is done has   *)
(* installed a region of each kind that it loaded.                           *)
THEOREM PcbRegionsAlwaysLive == ElfSpec => []PcbRegionsLive
<1>1. EInv => PcbRegionsLive
  BY DEF EInv
<1> QED BY <1>1, ElfInvariant, PTL

-----------------------------------------------------------------------------
(* A read that stays in the sector of the file needs one sector read.        *)
OneSector(c, r, d, f, i) ==
  c.op = "read" /\ c.n \in Nat /\ c.file.current_byte + c.n <= SectorSize =>
    /\ c.status = Pending =>
         /\ i = [lba |-> DataSector(c.file), callback |-> "fs_read_step"]
         /\ r.bytes_remaining = c.n /\ d = <<>> /\ f = c.file
    /\ c.status = 0 =>
         /\ d = Bytes(DataSector(c.file), c.file.current_byte, c.n)
         /\ f = [c.file EXCEPT !.current_byte = @ + c.n]

(* Up to the first segment the loader reads header after header from the     *)
(* sector of e_phoff.                                                        *)
HeadersOf(e, m, c, f) ==
  /\ e.state \in {NoLoad, ELF_OPENING} => f = Opened(image) /\ c.op = "open" /\ c.status = 0
  /\ e.state = ELF_READING_HEADER /\ c.status # Lost =>
       c.op = "read" /\ c.n = EhdrSize /\ c.file = Opened(image)
  /\ e.state = ELF_LOAD_PHEADER /\ c.status # Lost =>
       c.op = "seek" /\ c.n = image.phoff /\ InStep(c.file) /\ c.file.file_offset = 0
  /\ e.state \in NoLoad .. ELF_LOAD_PHEADER => DOMAIN m = {} /\ e.current_seg = 0
  /\ e.state \in ELF_LOAD_PHEADER .. ELF_LOAD_PCONTENT => e.phnum = image.phnum
  /\ e.state \in {ELF_SEEK_PCONTENT, ELF_LOAD_PCONTENT} => DOMAIN m # {}
  /\ TableInSector /\ e.state = ELF_READ_PHEADER /\ DOMAIN m = {} =>
       /\ e.current_seg < Len(image.phdrs)
       /\ \A k \in 1 .. e.current_seg : image.phdrs[k].type # "LOAD"
       /\ c.status # Lost =>
            /\ c.op = "read" /\ c.n = PhdrSize /\ InStep(c.file) /\ c.file.file_offset = image.phoff
            /\ c.file.current_byte = SeekDecompose(image.phoff).byte_in_sector + e.current_seg * PhdrSize

HInv == OneSector(call, rd, dst, file, io) /\ HeadersOf(elf, ram, call, file) /\ HeadersInOrder

(* The segment holds what the file says.                                     *)
Exact(s) ==
  Forward(s) =>
    \A i \in DOMAIN s.bytes :
      s.bytes[i] = IF i <= s.of.filesz THEN FileByte(s.of.offset + i - 1) ELSE 0

(* No payload is larger than its region.                                     *)
Fitting(m) == \A r \in DOMAIN m : m[r].of.filesz <= m[r].of.memsz

(* As long as payloads fit, every segment is exact but the one that the      *)
(* loader is filling, which is zero until its bytes have been read.          *)
SegmentsOf(e, m, c) ==
  /\ \A r \in DOMAIN m : m[r].size = m[r].of.memsz
  /\ e.state # ELF_ERROR /\ Fitting(m) =>
       \A r \in DOMAIN m : Exact(m[r]) \/ (e.state \in {ELF_SEEK_PCONTENT, ELF_LOAD_PCONTENT} /\ r = e.seg_buf)
  /\ e.state \in {ELF_SEEK_PCONTENT, ELF_LOAD_PCONTENT} =>
       /\ e.seg_buf \in DOMAIN m /\ m[e.seg_buf].of = e.pheader
       /\ \A i \in DOMAIN m[e.seg_buf].bytes : m[e.seg_buf].bytes[i] = 0
  /\ e.state = ELF_SEEK_PCONTENT /\ c.status # Lost =>
       c.op = "seek" /\ c.n = e.pheader.offset /\ c.file = m[e.seg_buf].from
  /\ e.state = ELF_LOAD_PCONTENT /\ c.status # Lost =>
       /\ c.op = "read" /\ c.n = e.pheader.filesz
       /\ Forward(m[e.seg_buf]) => Coherent(c.file) /\ c.file.file_offset = e.pheader.offset

(* A read delivers as many bytes as it was asked for, from wherever.         *)
LengthOf(c, r, d, f) ==
  /\ f.current_byte \in 0 .. SectorSize
  /\ c.status = Pending => c.op \in {"read", "seek"}
  /\ c.op = "read" /\ c.status = Pending =>
       r \in ReadCtx /\ r.bytes_remaining \in Nat /\ Len(d) + r.bytes_remaining = c.n
  /\ c.op = "read" /\ c.status = 0 => Len(d) = c.n

SInv == RInv /\ SegmentsOf(elf, ram, call) /\ LengthOf(call, rd, dst, file)

-----------------------------------------------------------------------------
(* An answer of the card belongs to the operation that waits for it.         *)
LEMMA IoKeeps ==
  ASSUME IInv, IoDone
  PROVE  /\ call.status = Pending /\ call'.op = call.op /\ call'.n = call.n /\ call'.file = call.file
         /\ call'.status # Lost
<1>1. call \in Call(chain) /\ file \in FILE(chain) /\ rd \in ReadCtx \cup {NoCtx} /\ IsChain(chain) /\ fat = FatOf(chain)
  BY DEF IInv, Typed
<1>2. call.status = Pending
  <2>1. io.callback \in {"fs_seek_step", "fs_read_step"}
    BY DEF IoDone, FsSeekStep, FsReadStep
  <2>2. io # NoIo
    BY <2>1 DEF NoIo
  <2> QED BY <2>2 DEF IInv, Typed
<1> DEFINE kept == call'.op = call.op /\ call'.n = call.n /\ call'.file = call.file /\ call'.status # Lost
<1>3. ASSUME NEW status \in {-1, 0, 1}, Finish(status) PROVE kept
  BY <1>1, <1>3, FinishFacts DEF Lost
<1>4. ASSUME call' = call PROVE kept
  BY <1>2, <1>4 DEF Lost, Pending
<1>5. ASSUME NEW f, NEW r, NEW status \in {-1, 0}, SeekDone(f, r, status) PROVE kept
  BY <1>3, <1>4, <1>5 DEF SeekDone
<1>6. ASSUME NEW status \in {0, 1}, FsSeekStep(status) PROVE kept
  <2>1. \/ SeekDone(file, rd, -1)
        \/ SeekDone(At(file, GetNextCluster(sk.current_cluster), sk.target_offset), rd, 0)
        \/ call' = call
    BY <1>6 DEF FsSeekStep
  <2> HIDE DEF kept
  <2> QED BY <1>4, <1>5, <2>1
<1>7. ASSUME NEW status \in {0, 1}, FsReadStep(status) PROVE kept
  <2> DEFINE t == SeekTarget(file, Chunk(file, rd), "CUR")
             a == SeekSubmit(file, t)
  <2>1. \/ Finish(1) \/ Finish(0) \/ call' = call
        \/ a.status # Pending /\ \E r : SeekDone(a.file, r, a.status)
    BY <1>7 DEF FsReadStep, Seek
  <2>2. t \in Nat
    <3>1. rd \in ReadCtx
      BY <1>1, <1>7 DEF IInv, Typed, FsReadStep
    <3>2. Chunk(file, rd) \in Int /\ file.file_offset \in Nat
      BY <1>1, <3>1, FatAssumption DEF Chunk, FILE, ReadCtx
    <3> QED BY <3>2, FilesAssumption DEF SeekTarget
  <2> HIDE DEF t
  <2>3. a.status \in {-1, 0, Pending}
    BY <1>1, <2>2, Submit
  <2> HIDE DEF kept, a
  <2> QED BY <1>3, <1>4, <1>5, <2>1, <2>3
<1> QED BY <1>2, <1>6, <1>7 DEF IoDone

(* A read within one sector keeps what it needs until it has copied its      *)
(* bytes.                                                                    *)
LEMMA OneSectorStep ==
  ASSUME IInv, FileStep, OneSector(call, rd, dst, file, io)
  PROVE  OneSector(call', rd', dst', file', io')
<1>1. ASSUME NEW n \in Nat, FsReadSubmit(n) PROVE OneSector(call', rd', dst', file', io')
  BY <1>1 DEF FsReadSubmit, Post, OneSector, Pending
<1>2. CASE \/ \E o \in Int : FsSeekWhence(o, "SET")
           \/ FsCloseSubmit \/ FatHelperLost
  <2>1. call'.op # "read"
    <3>1. CASE FatHelperLost
      <4>1. call' = [call EXCEPT !.status = Lost, !.op = "close"] /\ call \in Call(chain)
        BY <3>1 DEF FatHelperLost, IInv, Typed
      <4> QED BY <4>1 DEF Call
    <3>2. CASE ~FatHelperLost
      BY <1>2, <3>2 DEF FsSeekWhence, FsCloseSubmit
    <3> QED BY <3>1, <3>2
  <2> QED BY <2>1 DEF OneSector
<1>3. CASE UNCHANGED fvars
  <2>1. UNCHANGED <<call, rd, dst, file, io>>
    BY <1>3 DEF fvars
  <2> QED BY <2>1
<1>4. CASE IoDone
  <2> SUFFICES ASSUME call'.op = "read", call'.n \in Nat, call'.file.current_byte + call'.n <= SectorSize
               PROVE  OneSector(call', rd', dst', file', io')
    BY DEF OneSector
  <2> DEFINE b == call.file.current_byte
             n == call.n
             B == Bytes(DataSector(call.file), b, n)
  <2>1. /\ call.status = Pending /\ call'.op = call.op /\ call'.n = call.n /\ call'.file = call.file
        /\ call.op = "read" /\ n \in Nat /\ b + n <= SectorSize
    BY <1>4, IoKeeps
  <2>2. /\ io.lba = DataSector(call.file) /\ io.callback = "fs_read_step"
        /\ rd.bytes_remaining = n /\ dst = <<>> /\ file = call.file
    BY <2>1 DEF OneSector
  <2>3. PICK status \in {0, 1} : FsReadStep(status)
    BY <1>4, <2>2 DEF IoDone, FsSeekStep
  <2>4. call.file \in FILE(chain) /\ b \in Int /\ SectorSize \in Nat /\ call \in Call(chain)
    BY FatAssumption DEF IInv, Typed, Call, FILE
  <2>5. Chunk(file, rd) = n /\ rd.bytes_remaining - Chunk(file, rd) = 0
    BY <2>1, <2>2, <2>4 DEF Chunk
  <2>6. \/ Finish(1)
        \/ Finish(0) /\ dst' = dst \o B /\ file' = [file EXCEPT !.current_byte = @ + n]
    BY <2>2, <2>3, <2>5 DEF FsReadStep
  <2>7. B \in Seq(Int)
    <3>1. DataSector(call.file) \in Int /\ n \in Int
      BY <2>1, <2>4, SectorType
    <3> HIDE DEF n, b
    <3> QED BY <2>4, <3>1, BytesType
  <2>8. dst \o B = B
    BY <2>2, <2>7
  <2> HIDE DEF B
  <2>9. CASE Finish(1)
    <3>1. call'.status = 1
      BY <2>4, <2>9, FinishFacts
    <3> QED BY <3>1 DEF OneSector, Pending
  <2>10. CASE Finish(0) /\ dst' = dst \o B /\ file' = [file EXCEPT !.current_byte = @ + n]
    <3>1. call'.status = 0 /\ dst' = B /\ file' = [call'.file EXCEPT !.current_byte = @ + call'.n]
      BY <2>1, <2>2, <2>4, <2>8, <2>10, FinishFacts
    <3> QED BY <2>1, <3>1 DEF OneSector, B, Pending
  <2> QED BY <2>6, <2>9, <2>10
<1> QED BY <1>1, <1>2, <1>3, <1>4 DEF FileStep

(* The byte of the sector is the remainder by the sector size.               *)
LEMMA ByteIsMod ==
  ASSUME NEW o \in Nat
  PROVE  SeekDecompose(o).byte_in_sector = o % SectorSize
<1> DEFINE C == ClusterSize
           S == SectorSize
           K == SectorsPerCluster
           q == o \div C
           r == o % C
           s == r \div S
           b == r % S
           u == K * q + s
<1>0. C \in Nat \ {0} /\ S \in Nat \ {0} /\ K \in Nat \ {0} /\ C = S * K
  BY ClusterSizePositive, FatAssumption DEF ClusterSize
<1>1. SeekDecompose(o).byte_in_sector = b
  BY DEF SeekDecompose
<1> HIDE DEF C, S, K
<1>2. o = C * q + r /\ q \in Nat /\ r \in 0 .. C - 1
  BY <1>0, DivMod
<1> HIDE DEF q, r
<1>3. r = S * s + b /\ s \in Nat /\ b \in 0 .. S - 1
  <2>1. r \in Nat
    BY <1>0, <1>2
  <2> QED BY <1>0, <2>1, DivMod
<1> HIDE DEF s, b
<1>4. u \in Int /\ o = S * u + b
  <2>1. K * q \in Int /\ S * s \in Int /\ S * (K * q) \in Int
    BY <1>0, <1>2, <1>3, Z3
  <2>2. C * q = S * (K * q)
    BY <1>0, <1>2, Z3
  <2>3. S * u = S * (K * q) + S * s
    BY <1>0, <1>2, <1>3, <2>1, Z3
  <2> QED BY <1>0, <1>2, <1>3, <2>1, <2>2, <2>3
<1> HIDE DEF u
<1>5. b \in Int /\ 0 <= b /\ b < S
  BY <1>0, <1>3
<1>6. o % S = b
  BY <1>0, <1>4, <1>5, DivUnique
<1> QED BY <1>1, <1>6 DEF S

(* A table in one sector: the entries' bytes follow one another there.       *)
LEMMA Table ==
  ASSUME image \in Files, TableInSector, NEW k \in 1 .. Len(image.phdrs)
  PROVE  LET b == SeekDecompose(image.phoff).byte_in_sector
         IN  /\ b \in Nat /\ (k - 1) * PhdrSize \in Nat
             /\ b + (k - 1) * PhdrSize + PhdrSize <= SectorSize
<1> DEFINE S == SectorSize
           P == PhdrSize
           L == Len(image.phdrs)
           o == image.phoff
           q == o \div S
           b == o % S
           e == o + L * P - 1
<1>1. S \in Nat \ {0} /\ P \in Nat \ {0} /\ o \in Nat /\ L \in Nat /\ k \in Nat /\ 1 <= k /\ k <= L
  BY ElfAssumption, FatAssumption, FilesAssumption
<1>2. q = e \div S
  BY DEF TableInSector
<1>3. SeekDecompose(image.phoff).byte_in_sector = b
  BY <1>1, ByteIsMod
<1> HIDE DEF S, P, L, o
<1>4. o = S * q + b /\ q \in Nat /\ b \in 0 .. S - 1
  BY <1>1, DivMod
<1>5. k * P <= L * P /\ k * P \in Int /\ L * P \in Int /\ (k - 1) * P \in Nat /\ (k - 1) * P + P = k * P /\ k * P >= 1
  BY <1>1, Z3
<1>6. e \in Nat
  BY <1>1, <1>5
<1> HIDE DEF q, b, e
<1>7. e = S * q + (e % S) /\ e % S \in 0 .. S - 1
  BY <1>1, <1>2, <1>6, DivMod
<1>8. S * q \in Int
  BY <1>1, <1>4, Z3
<1>9. b + L * P <= S
  BY <1>1, <1>4, <1>5, <1>7, <1>8 DEF e
<1>10. b + (k - 1) * P + P <= S
  BY <1>1, <1>4, <1>5, <1>9
<1> QED BY <1>1, <1>3, <1>4, <1>5, <1>10 DEF S, P

(* Byte j of the sector behind offset o.                                     *)
LEMMA ByteInSector ==
  ASSUME NEW o \in Nat, NEW j \in Nat, SeekDecompose(o).byte_in_sector + j < SectorSize
  PROVE  FileByte(o + j) = (ClusterToLba(ClusterOf(o)) + SeekDecompose(o).sector_in_cluster) * SectorSize
                             + (SeekDecompose(o).byte_in_sector + j)
<1>1. SeekDecompose(o + j) = [SeekDecompose(o) EXCEPT !.byte_in_sector = @ + j]
  BY SameSector
<1>2. /\ SeekDecompose(o + j).cluster_index = SeekDecompose(o).cluster_index
      /\ SeekDecompose(o + j).sector_in_cluster = SeekDecompose(o).sector_in_cluster
      /\ SeekDecompose(o + j).byte_in_sector = SeekDecompose(o).byte_in_sector + j
  BY <1>1 DEF SeekDecompose
<1>3. ClusterOf(o + j) = ClusterOf(o)
  BY <1>2 DEF ClusterOf
<1> QED BY <1>2, <1>3 DEF FileByte

(* The bytes of the k-th header, where the file stands at the start of the   *)
(* table.                                                                    *)
LEMMA EntryBytes ==
  ASSUME image \in Files, TableInSector, NEW f \in FILE(chain), InStep(f), f.file_offset = image.phoff,
         NEW k \in 1 .. Len(image.phdrs)
  PROVE  PhdrBytes(k) = Bytes(DataSector(f), SeekDecompose(image.phoff).byte_in_sector + (k - 1) * PhdrSize, PhdrSize)
<1> DEFINE S == SectorSize
           P == PhdrSize
           o == image.phoff
           b == SeekDecompose(o).byte_in_sector
           L == DataSector(f)
           m == (k - 1) * P
<1>1. b \in Nat /\ m \in Nat /\ b + m + P <= S /\ o \in Nat /\ P \in Nat /\ S \in Nat /\ L \in Int
  BY Table, ElfAssumption, FatAssumption, FilesAssumption, SectorType
<1>2. L = ClusterToLba(ClusterOf(o)) + SeekDecompose(o).sector_in_cluster
  BY DEF InStep, DataSector
<1>3. ASSUME NEW j \in Nat, b + j < S PROVE FileByte(o + j) = L * S + (b + j)
  <2>1. o \in Nat /\ SeekDecompose(o).byte_in_sector + j < SectorSize
    BY <1>1, <1>3
  <2>2. FileByte(o + j) = (ClusterToLba(ClusterOf(o)) + SeekDecompose(o).sector_in_cluster) * SectorSize
                            + (SeekDecompose(o).byte_in_sector + j)
    BY <2>1, ByteInSector
  <2> QED BY <1>2, <2>2
<1>4. L * S \in Int
  BY <1>1, Z3
<1>5. PhdrBytes(k) = [i \in 1 .. P |-> FileByte(o + m + i - 1)]
  BY DEF PhdrBytes
<1>6. Bytes(L, b + m, P) = [i \in 1 .. P |-> L * S + (b + m) + i - 1]
  BY DEF Bytes
<1> HIDE DEF S, P, o, b, L, m
<1>7. ASSUME NEW i \in 1 .. P PROVE FileByte(o + m + i - 1) = L * S + (b + m) + i - 1
  <2> DEFINE j == m + i - 1
  <2>1. j \in Nat /\ b + j < S /\ o + m + i - 1 = o + j
    BY <1>1
  <2>2. L * S + (b + m) + i - 1 = L * S + (b + j)
    BY <1>1, <1>4
  <2> HIDE DEF j
  <2> QED BY <1>3, <2>1, <2>2
<1>8. PhdrBytes(k) = Bytes(L, b + m, P)
  BY <1>5, <1>6, <1>7
<1> QED BY <1>8 DEF S, P, o, b, L, m

(* The header in hand is the entry whose bytes were read, and no other.      *)
LEMMA HeaderInHand ==
  ASSUME image \in Files, TableInSector, NEW f \in FILE(chain), InStep(f), f.file_offset = image.phoff,
         NEW s \in Nat, s < Len(image.phdrs),
         f.current_byte = SeekDecompose(image.phoff).byte_in_sector + s * PhdrSize,
         dst = Bytes(DataSector(f), f.current_byte, PhdrSize)
  PROVE  PhdrRead = {image.phdrs[s + 1]}
<1> DEFINE P == PhdrSize
           b == SeekDecompose(image.phoff).byte_in_sector
           L == DataSector(f)
<1>1. /\ DOMAIN image.phdrs = 1 .. Len(image.phdrs) /\ Len(image.phdrs) \in Nat /\ image.phoff \in Nat
      /\ P \in Nat \ {0} /\ L \in Int /\ SectorSize \in Nat
  BY ElfAssumption, FatAssumption, FilesAssumption, SectorType
<1>2. s + 1 \in 1 .. Len(image.phdrs) /\ (s + 1) - 1 = s
  BY <1>1
<1>3. b \in Nat /\ L * SectorSize \in Int
  <2>1. b \in Nat
    BY <1>1, Decompose
  <2> HIDE DEF L
  <2>2. L * SectorSize \in Int
    BY <1>1, Z3
  <2> QED BY <2>1, <2>2
<1>4. \A k \in 1 .. Len(image.phdrs) : PhdrBytes(k) = Bytes(L, b + (k - 1) * P, P)
  BY EntryBytes
<1>5. dst = Bytes(L, b + s * P, P)
  OBVIOUS
<1> HIDE DEF P, b, L
<1>6. dst = PhdrBytes(s + 1)
  BY <1>2, <1>4, <1>5
<1>7. ASSUME NEW k \in 1 .. Len(image.phdrs), dst = PhdrBytes(k) PROVE k = s + 1
  <2>1. Bytes(L, b + (k - 1) * P, P)[1] = Bytes(L, b + s * P, P)[1]
    BY <1>4, <1>5, <1>7
  <2>2. 1 \in 1 .. P
    BY <1>1
  <2>3. \A x : Bytes(L, x, P)[1] = L * SectorSize + x + 1 - 1
    BY <2>2 DEF Bytes
  <2>4. (k - 1) * P \in Int /\ s * P \in Int
    BY <1>1, Z3
  <2>5. (k - 1) * P = s * P
    BY <1>3, <2>1, <2>3, <2>4
  <2>6. k - 1 = s
    BY <1>1, <2>5, Z3
  <2> QED BY <2>6
<1>8. {k \in DOMAIN image.phdrs : dst = PhdrBytes(k)} = {s + 1}
  BY <1>1, <1>2, <1>6, <1>7
<1> QED BY <1>8 DEF PhdrRead

-----------------------------------------------------------------------------
(* The volume and the image do not change, so the header invariant may be    *)
(* shown of the new state's values.                                          *)
LEMMA HPrimed ==
  ASSUME chain' = chain, image' = image
  PROVE  /\ HeadersOf(elf', ram', call', file') => HeadersOf(elf, ram, call, file)'
         /\ TableInSector' <=> TableInSector
BY DEF HeadersOf, TableInSector, InStep, InChain, ClusterOf, Opened

(* HeadersInOrder, of a context and the memory behind it.                    *)
InOrder(e, m) ==
  TableInSector =>
    /\ e.state \in {ELF_SEEK_PCONTENT, ELF_LOAD_PCONTENT} /\ Cardinality(DOMAIN m) = 1 =>
         e.current_seg < Len(image.phdrs) /\ e.pheader = image.phdrs[e.current_seg + 1]
    /\ e.state \in {ELF_CLOSING, ELF_DONE} /\ DOMAIN m = {} =>
         \A k \in DOMAIN image.phdrs : k <= image.phnum => image.phdrs[k].type # "LOAD"

(* The header invariant follows from its two parts.                          *)
LEMMA HDone ==
  ASSUME IInv, FileStep, chain' = chain, image' = image, HInv,
         HeadersOf(elf', ram', call', file'), InOrder(elf', ram')
  PROVE  HInv'
<1>1. OneSector(call', rd', dst', file', io')
  BY OneSectorStep DEF HInv
<1>2. OneSector(call, rd, dst, file, io)'
  BY <1>1 DEF OneSector, DataSector, ClusterToLba, Bytes
<1>3. HeadersInOrder'
  BY HPrimed DEF InOrder, HeadersInOrder
<1> QED BY <1>2, <1>3, HPrimed DEF HInv

(* A seek to a 32-bit offset goes there.                                     *)
LEMMA SeekSet ==
  ASSUME NEW o \in 0 .. Mod - 1, FsSeekWhence(o, "SET")
  PROVE  call'.op = "seek" /\ call'.n = o /\ call'.file = file
<1>1. SeekTarget(file, o, "SET") = (o + 0) % Mod
  BY DEF SeekTarget
<1>2. o + 0 = o /\ o \in Nat /\ o < Mod /\ Mod \in Nat \ {0}
  BY FilesAssumption
<1>3. SeekTarget(file, o, "SET") = o
  BY <1>1, <1>2, ModSmall
<1> QED BY <1>3 DEF FsSeekWhence

(* A file that fs_open has left is in step with its chain.                   *)
LEMMA OpenedInStep ==
  ASSUME IsChain(chain), NEW f \in FILE(chain), f.file_offset = 0, f.current_sector = 0,
         f.current_cluster = f.first_cluster
  PROVE  InStep(f)
<1>1. f.current_cluster = chain[1] /\ Len(chain) \in Nat /\ Len(chain) >= 1
  BY DEF FILE, IsChain
<1>2. 0 \div ClusterSize = 0 /\ 0 % ClusterSize = 0
  BY ClusterSizePositive, Z3
<1>3. 0 \div SectorSize = 0 /\ 0 % SectorSize = 0
  BY FatAssumption, Z3
<1>4. SeekDecompose(0).cluster_index = 0 /\ SeekDecompose(0).sector_in_cluster = 0
  BY <1>2, <1>3 DEF SeekDecompose
<1> QED BY <1>1, <1>2, <1>4 DEF InStep, InChain, ClusterOf

(* elf_load_submit keeps the header invariant.                               *)
LEMMA LoadSubmitH ==
  ASSUME EInv, HInv, ElfLoadSubmit
  PROVE  HeadersOf(elf', ram', call', file') /\ InOrder(elf', ram')
<1>1. /\ elf.state = NoLoad /\ elf' = Cleared /\ UNCHANGED <<ram, call, file>>
  BY DEF ElfLoadSubmit, fvars
<1>2. elf'.state = 0 /\ elf'.current_seg = 0
  BY <1>1 DEF Cleared, ELF_OPENING
<1>3. file = Opened(image) /\ call.op = "open" /\ call.status = 0 /\ DOMAIN ram = {}
  BY <1>1 DEF HInv, HeadersOf, NoLoad, ELF_LOAD_PHEADER
<1> QED BY <1>1, <1>2, <1>3 DEF HeadersOf, InOrder, NoLoad, ELF_OPENING, ELF_READING_HEADER,
      ELF_LOAD_PHEADER, ELF_READ_PHEADER, ELF_SEEK_PCONTENT, ELF_LOAD_PCONTENT, ELF_CLOSING, ELF_DONE

(* The open's completion keeps it.                                           *)
LEMMA OpeningH ==
  ASSUME EInv, HInv, Opening
  PROVE  HeadersOf(elf', ram', call', file') /\ InOrder(elf', ram')
<1>1. /\ elf.state = 0 /\ elf' = [elf EXCEPT !.state = 1] /\ ram' = ram /\ FsReadSubmit(EhdrSize) /\ elf \in ElfCtx
  BY DEF Opening, ELF_OPENING, ELF_READING_HEADER, EInv, ElfTyped
<1>2. elf'.state = 1 /\ elf'.current_seg = elf.current_seg
  BY <1>1 DEF ElfCtx
<1>3. file = Opened(image) /\ DOMAIN ram = {} /\ elf.current_seg = 0
  BY <1>1 DEF HInv, HeadersOf, NoLoad, ELF_OPENING, ELF_LOAD_PHEADER
<1>4. call'.op = "read" /\ call'.n = EhdrSize /\ call'.file = file
  BY <1>1 DEF FsReadSubmit
<1> QED BY <1>1, <1>2, <1>3, <1>4 DEF HeadersOf, InOrder, NoLoad, ELF_OPENING, ELF_READING_HEADER,
      ELF_LOAD_PHEADER, ELF_READ_PHEADER, ELF_SEEK_PCONTENT, ELF_LOAD_PCONTENT, ELF_CLOSING, ELF_DONE

(* The ELF header's keeps it: the seek goes to the table.                    *)
LEMMA ReadingHeaderH ==
  ASSUME EInv, HInv, ReadingHeader, call.status = 0
  PROVE  HeadersOf(elf', ram', call', file') /\ InOrder(elf', ram')
<1>1. /\ elf.state = 1 /\ ram' = ram /\ FsSeekWhence(image.phoff, "SET") /\ elf \in ElfCtx /\ image \in Files
  BY DEF ReadingHeader, ELF_READING_HEADER, EInv, ElfTyped
<1>2. elf'.state = 2 /\ elf'.current_seg = 0 /\ elf'.phnum = image.phnum
  BY <1>1, HeaderRead
<1>3. call.op = "read" /\ call.n = EhdrSize /\ call.file = Opened(image) /\ DOMAIN ram = {}
  BY <1>1 DEF HInv, HeadersOf, NoLoad, ELF_READING_HEADER, ELF_LOAD_PHEADER, Lost
<1>4. call'.op = "seek" /\ call'.n = image.phoff /\ call'.file = file
  BY <1>1, ElfAssumption, SeekSet
<1>5. file = [Opened(image) EXCEPT !.current_byte = @ + EhdrSize]
  <2>1. EhdrSize \in Nat /\ Opened(image).current_byte = 0 /\ 0 + EhdrSize <= SectorSize
    BY ElfAssumption, FatAssumption DEF Opened
  <2> QED BY <1>3, <2>1 DEF HInv, OneSector
<1>6. file.file_offset = 0 /\ file.current_sector = 0 /\ file.current_cluster = file.first_cluster
  BY <1>5 DEF Opened
<1>7. InStep(file)
  BY <1>6, OpenedInStep DEF EInv, IInv, Typed
<1> QED BY <1>1, <1>2, <1>3, <1>4, <1>6, <1>7 DEF HeadersOf, InOrder, NoLoad, ELF_OPENING, ELF_READING_HEADER,
      ELF_LOAD_PHEADER, ELF_READ_PHEADER, ELF_SEEK_PCONTENT, ELF_LOAD_PCONTENT, ELF_CLOSING, ELF_DONE

(* The seek's keeps it: the first read is that of the first header.          *)
LEMMA LoadPheaderH ==
  ASSUME EInv, HInv, LoadPheader, call.status = 0
  PROVE  HeadersOf(elf', ram', call', file') /\ InOrder(elf', ram')
<1>1. /\ elf.state = 2 /\ elf' = [elf EXCEPT !.state = 3] /\ ram' = ram /\ FsReadSubmit(PhdrSize)
      /\ elf \in ElfCtx /\ image \in Files
  BY DEF LoadPheader, ELF_LOAD_PHEADER, ELF_READ_PHEADER, EInv, ElfTyped
<1>2. elf'.state = 3 /\ elf'.current_seg = elf.current_seg /\ elf'.phnum = elf.phnum
  BY <1>1 DEF ElfCtx
<1>3. /\ call.op = "seek" /\ call.n = image.phoff /\ InStep(call.file) /\ call.file.file_offset = 0
      /\ DOMAIN ram = {} /\ elf.current_seg = 0 /\ elf.phnum = image.phnum
  BY <1>1 DEF HInv, HeadersOf, NoLoad, ELF_LOAD_PHEADER, ELF_LOAD_PCONTENT, Lost
<1>4. call'.op = "read" /\ call'.n = PhdrSize /\ call'.file = file
  BY <1>1 DEF FsReadSubmit
<1>5. /\ InChain(image.phoff) /\ file = At(call.file, ClusterOf(image.phoff), image.phoff)
      /\ call.file \in FILE(chain) /\ image.phoff \in Nat
  <2>1. ~(call.file.file_offset >= ClusterSize)
    BY <1>3, ClusterSizePositive
  <2> QED BY <1>1, <1>3, <2>1, ElfAssumption, FilesAssumption DEF EInv, IInv, Typed, Call, SeekPlaced, Landed, IntoFirst, Done
<1>6. InStep(file) /\ file.file_offset = image.phoff /\ file.current_byte = SeekDecompose(image.phoff).byte_in_sector
  BY <1>5, AtCoherent DEF Coherent
<1>7. SeekDecompose(image.phoff).byte_in_sector = SeekDecompose(image.phoff).byte_in_sector + 0 * PhdrSize
  <2>1. SeekDecompose(image.phoff).byte_in_sector \in Nat /\ PhdrSize \in Nat
    BY <1>5, Decompose, ElfAssumption, FatAssumption
  <2> QED BY <2>1
<1>8. TableInSector => 0 < Len(image.phdrs)
  BY <1>1, ElfAssumption DEF TableInSector
<1>9. HeadersOf(elf', ram', call', file')
  BY <1>1, <1>2, <1>3, <1>4, <1>6, <1>7, <1>8 DEF HeadersOf, NoLoad, ELF_OPENING, ELF_READING_HEADER,
      ELF_LOAD_PHEADER, ELF_READ_PHEADER, ELF_SEEK_PCONTENT, ELF_LOAD_PCONTENT
<1>10. InOrder(elf', ram')
  BY <1>2 DEF InOrder, ELF_SEEK_PCONTENT, ELF_LOAD_PCONTENT, ELF_CLOSING, ELF_DONE
<1> QED BY <1>9, <1>10

(* A header that has been read before any segment.                           *)
LEMMA FirstHeaders ==
  ASSUME EInv, HInv, elf.state = ELF_READ_PHEADER, call.status = 0, TableInSector, DOMAIN ram = {}
  PROVE  LET s == elf.current_seg
         IN  /\ s \in Nat /\ s < Len(image.phdrs) /\ PhdrRead = {image.phdrs[s + 1]}
             /\ \A k \in 1 .. s : image.phdrs[k].type # "LOAD"
             /\ InStep(file) /\ file.file_offset = image.phoff
             /\ file.current_byte = SeekDecompose(image.phoff).byte_in_sector + (s + 1) * PhdrSize
<1> DEFINE s == elf.current_seg
           b == SeekDecompose(image.phoff).byte_in_sector
           f == call.file
<1>1. s \in Nat /\ image \in Files /\ f \in FILE(chain) /\ PhdrSize \in Nat /\ Len(image.phdrs) \in Nat
  BY ElfAssumption, FatAssumption DEF EInv, ElfTyped, ElfCtx, IInv, Typed, Call
<1>2. /\ s < Len(image.phdrs) /\ call.op = "read" /\ call.n = PhdrSize /\ InStep(f) /\ f.file_offset = image.phoff
      /\ f.current_byte = b + s * PhdrSize /\ \A k \in 1 .. s : image.phdrs[k].type # "LOAD"
  BY DEF HInv, HeadersOf, Lost
<1>3. s + 1 \in 1 .. Len(image.phdrs) /\ (s + 1) - 1 = s
  BY <1>1, <1>2
<1> HIDE DEF s
<1>4. b \in Nat /\ s * PhdrSize \in Nat /\ b + s * PhdrSize + PhdrSize <= SectorSize
  BY <1>1, <1>3, Table
<1>5. dst = Bytes(DataSector(f), f.current_byte, PhdrSize) /\ file = [f EXCEPT !.current_byte = @ + PhdrSize]
  BY <1>1, <1>2, <1>4 DEF HInv, OneSector
<1>6. PhdrRead = {image.phdrs[s + 1]}
  BY <1>1, <1>2, <1>5, HeaderInHand
<1>7. /\ file.file_offset = f.file_offset /\ file.current_byte = f.current_byte + PhdrSize
      /\ file.current_cluster = f.current_cluster /\ file.current_sector = f.current_sector
  BY <1>1, <1>5 DEF FILE
<1>8. InStep(file)
  BY <1>2, <1>7 DEF InStep
<1>9. (s + 1) * PhdrSize = s * PhdrSize + PhdrSize
  BY <1>1, Z3
<1>10. file.current_byte = b + (s + 1) * PhdrSize
  BY <1>1, <1>2, <1>4, <1>7, <1>9
<1> QED BY <1>1, <1>2, <1>6, <1>7, <1>8, <1>10 DEF s

(* A header that is passed over leaves the file at the next one.             *)
LEMMA SkippedH ==
  ASSUME EInv, HInv, NEW ph, Skipped(ph)
  PROVE  HeadersOf(elf', ram', call', file') /\ InOrder(elf', ram')
<1> DEFINE e == [elf EXCEPT !.pheader = ph]
           s == elf.current_seg
<1>1. /\ elf.state = ELF_READ_PHEADER /\ call.status = 0 /\ ph \in PhdrRead /\ ph.type # "LOAD" /\ ram' = ram
      /\ NextProgramHeader(e) /\ elf \in ElfCtx /\ image \in Files /\ ph \in Phdr
  BY PhdrType DEF Skipped, EInv, ElfTyped
<1>2. e \in ElfCtx /\ e.current_seg = elf.current_seg /\ e.phnum = elf.phnum
  BY <1>1 DEF ElfCtx
<1>3. elf.phnum = image.phnum /\ s \in Nat /\ image.phnum \in Nat /\ Len(image.phdrs) \in Nat
  BY <1>1, ElfAssumption DEF HInv, HeadersOf, ELF_READ_PHEADER, ELF_LOAD_PHEADER, ELF_LOAD_PCONTENT, ElfCtx
<1> HIDE DEF e
<1>4. /\ elf'.phnum = elf.phnum /\ elf'.current_seg = s + 1
      /\ \/ elf'.state = 3 /\ s + 1 < elf.phnum /\ FsReadSubmit(PhdrSize)
         \/ elf'.state = 6 /\ ~(s + 1 < elf.phnum) /\ FsCloseSubmit
  <2>1. /\ elf'.phnum = e.phnum /\ elf'.current_seg = e.current_seg + 1
        /\ \/ elf'.state = ELF_READ_PHEADER /\ e.current_seg + 1 < e.phnum /\ FsReadSubmit(PhdrSize)
           \/ elf'.state = ELF_CLOSING /\ ~(e.current_seg + 1 < e.phnum) /\ FsCloseSubmit
    BY <1>1, <1>2, NextElf
  <2> QED BY <1>2, <2>1 DEF ELF_READ_PHEADER, ELF_CLOSING
<1>5. ASSUME TableInSector, DOMAIN ram = {}
      PROVE  /\ s < Len(image.phdrs) /\ image.phnum <= Len(image.phdrs)
             /\ \A k \in 1 .. s + 1 : image.phdrs[k].type # "LOAD"
             /\ InStep(file) /\ file.file_offset = image.phoff
             /\ file.current_byte = SeekDecompose(image.phoff).byte_in_sector + (s + 1) * PhdrSize
  <2>1. /\ s < Len(image.phdrs) /\ PhdrRead = {image.phdrs[s + 1]}
        /\ \A k \in 1 .. s : image.phdrs[k].type # "LOAD"
        /\ InStep(file) /\ file.file_offset = image.phoff
        /\ file.current_byte = SeekDecompose(image.phoff).byte_in_sector + (s + 1) * PhdrSize
    BY <1>1, <1>5, FirstHeaders
  <2>2. image.phdrs[s + 1].type # "LOAD"
    BY <1>1, <2>1
  <2>3. image.phnum <= Len(image.phdrs)
    BY <1>1, <1>5, ElfAssumption DEF TableInSector
  <2>4. \A k \in 1 .. s + 1 : k \in 1 .. s \/ k = s + 1
    BY <1>3
  <2> QED BY <2>1, <2>2, <2>3, <2>4
<1> HIDE DEF s
<1>6. CASE elf'.state = 3 /\ s + 1 < elf.phnum /\ FsReadSubmit(PhdrSize)
  <2>1. call'.op = "read" /\ call'.n = PhdrSize /\ call'.file = file
    BY <1>6 DEF FsReadSubmit
  <2>2. TableInSector /\ DOMAIN ram = {} => s + 1 < Len(image.phdrs)
    BY <1>3, <1>5, <1>6
  <2> QED BY <1>1, <1>3, <1>4, <1>5, <1>6, <2>1, <2>2 DEF HeadersOf, InOrder, NoLoad, ELF_OPENING, ELF_READING_HEADER,
      ELF_LOAD_PHEADER, ELF_READ_PHEADER, ELF_SEEK_PCONTENT, ELF_LOAD_PCONTENT, ELF_CLOSING, ELF_DONE
<1>7. CASE elf'.state = 6 /\ ~(s + 1 < elf.phnum) /\ FsCloseSubmit
  <2>1. HeadersOf(elf', ram', call', file')
    BY <1>7 DEF HeadersOf, NoLoad, ELF_OPENING, ELF_READING_HEADER,
      ELF_LOAD_PHEADER, ELF_READ_PHEADER, ELF_SEEK_PCONTENT, ELF_LOAD_PCONTENT
  <2>2. ASSUME TableInSector, DOMAIN ram = {}, NEW k \in DOMAIN image.phdrs, k <= image.phnum
        PROVE  image.phdrs[k].type # "LOAD"
    <3>1. k \in 1 .. Len(image.phdrs)
      BY <1>1, ElfAssumption
    <3>2. k \in 1 .. s + 1
      BY <1>3, <1>7, <2>2, <3>1
    <3> QED BY <1>5, <2>2, <3>2
  <2>3. InOrder(elf', ram')
    BY <1>1, <1>7, <2>2 DEF InOrder, ELF_SEEK_PCONTENT, ELF_LOAD_PCONTENT
  <2> QED BY <2>1, <2>3
<1> QED BY <1>4, <1>6, <1>7

(* The first segment's header ends the part of the table that is read in     *)
(* order.                                                                    *)
LEMMA AllocatedH ==
  ASSUME EInv, HInv, NEW ph, Allocated(ph)
  PROVE  HeadersOf(elf', ram', call', file') /\ InOrder(elf', ram')
<1>1. /\ elf.state = ELF_READ_PHEADER /\ call.status = 0 /\ ph \in PhdrRead
  BY DEF Allocated
<1>2. /\ Last \in Nat /\ Last' = Last + 1 /\ DOMAIN ram = 1 .. Last /\ DOMAIN ram' = 1 .. Last + 1
      /\ elf'.state = 4 /\ elf'.pheader = ph /\ elf'.phnum = elf.phnum /\ elf'.current_seg = elf.current_seg
  BY AllocatedFacts DEF EInv, ElfTyped, ELF_SEEK_PCONTENT
<1>3. elf.phnum = image.phnum
  BY <1>1 DEF HInv, HeadersOf, ELF_READ_PHEADER, ELF_LOAD_PHEADER, ELF_LOAD_PCONTENT
<1>4. DOMAIN ram' # {}
  <2>1. 1 \in 1 .. Last + 1
    BY <1>2
  <2> QED BY <1>2, <2>1
<1>5. HeadersOf(elf', ram', call', file')
  BY <1>2, <1>3, <1>4 DEF HeadersOf, NoLoad, ELF_OPENING, ELF_READING_HEADER,
      ELF_LOAD_PHEADER, ELF_READ_PHEADER, ELF_SEEK_PCONTENT, ELF_LOAD_PCONTENT
<1>6. ASSUME TableInSector, Cardinality(DOMAIN ram') = 1
      PROVE  elf'.current_seg < Len(image.phdrs) /\ elf'.pheader = image.phdrs[elf'.current_seg + 1]
  <2>1. Last = 0 /\ DOMAIN ram = {}
    <3>1. Last' = 1
      BY <1>6 DEF Last
    <3> QED BY <1>2, <3>1
  <2>2. elf.current_seg < Len(image.phdrs) /\ PhdrRead = {image.phdrs[elf.current_seg + 1]}
    BY <1>1, <1>6, <2>1, FirstHeaders
  <2> QED BY <1>1, <1>2, <2>2
<1>7. InOrder(elf', ram')
  BY <1>2, <1>4, <1>6 DEF InOrder
<1> QED BY <1>5, <1>7

(* From the seek to a payload on, nothing more is claimed of the table.      *)
LEMMA SeekPcontentH ==
  ASSUME EInv, HInv, SeekPcontent
  PROVE  HeadersOf(elf', ram', call', file') /\ InOrder(elf', ram')
<1>1. elf.state = 4 /\ elf' = [elf EXCEPT !.state = 5] /\ ram' = ram /\ elf \in ElfCtx
  BY DEF SeekPcontent, ELF_SEEK_PCONTENT, ELF_LOAD_PCONTENT, EInv, ElfTyped
<1>2. elf'.state = 5 /\ elf'.current_seg = elf.current_seg /\ elf'.phnum = elf.phnum /\ elf'.pheader = elf.pheader
  BY <1>1 DEF ElfCtx
<1>3. elf.phnum = image.phnum /\ DOMAIN ram # {}
  BY <1>1 DEF HInv, HeadersOf, ELF_SEEK_PCONTENT, ELF_LOAD_PHEADER, ELF_LOAD_PCONTENT
<1>4. HeadersOf(elf', ram', call', file')
  BY <1>1, <1>2, <1>3 DEF HeadersOf, NoLoad, ELF_OPENING, ELF_READING_HEADER,
      ELF_LOAD_PHEADER, ELF_READ_PHEADER, ELF_SEEK_PCONTENT, ELF_LOAD_PCONTENT
<1>5. InOrder(elf', ram')
  BY <1>1, <1>2, <1>3 DEF HInv, HeadersInOrder, InOrder, ELF_SEEK_PCONTENT
<1> QED BY <1>4, <1>5

(* Nor behind a payload.                                                     *)
LEMMA LoadPcontentH ==
  ASSUME EInv, HInv, LoadPcontent
  PROVE  HeadersOf(elf', ram', call', file') /\ InOrder(elf', ram')
<1>1. elf.state = 5
  BY DEF LoadPcontent, ELF_LOAD_PCONTENT
<1>2. /\ DOMAIN ram' = DOMAIN ram /\ elf'.phnum = elf.phnum
      /\ elf'.state \in {3, 6}
  <2>1. elf'.state \in {ELF_READ_PHEADER, ELF_CLOSING} /\ DOMAIN ram' = DOMAIN ram /\ elf'.phnum = elf.phnum
    BY LoadPcontentFacts DEF EInv
  <2> QED BY <2>1 DEF ELF_READ_PHEADER, ELF_CLOSING
<1>3. elf.phnum = image.phnum /\ DOMAIN ram # {}
  BY <1>1 DEF HInv, HeadersOf, ELF_SEEK_PCONTENT, ELF_LOAD_PHEADER, ELF_LOAD_PCONTENT
<1> QED BY <1>2, <1>3 DEF HeadersOf, InOrder, NoLoad, ELF_OPENING, ELF_READING_HEADER,
      ELF_LOAD_PHEADER, ELF_READ_PHEADER, ELF_SEEK_PCONTENT, ELF_LOAD_PCONTENT

(* Nor after the close or an error.                                          *)
LEMMA EndH ==
  ASSUME EInv, HInv, Closing \/ Failed
  PROVE  HeadersOf(elf', ram', call', file') /\ InOrder(elf', ram')
<1>1. /\ ram' = ram /\ elf \in ElfCtx
      /\ \/ elf.state = 6 /\ elf' = [elf EXCEPT !.state = 7]
         \/ elf' = [elf EXCEPT !.state = 8]
  BY DEF Closing, ElfFinish, Failed, ElfFail, ELF_CLOSING, ELF_DONE, ELF_ERROR, EInv, ElfTyped
<1>2. (elf'.state = 7 /\ elf.state = 6) \/ elf'.state = 8
  BY <1>1 DEF ElfCtx
<1>3. HeadersOf(elf', ram', call', file')
  BY <1>2 DEF HeadersOf, NoLoad, ELF_OPENING, ELF_READING_HEADER,
      ELF_LOAD_PHEADER, ELF_READ_PHEADER, ELF_SEEK_PCONTENT, ELF_LOAD_PCONTENT
<1>4. InOrder(elf', ram')
  BY <1>1, <1>2 DEF HInv, HeadersInOrder, InOrder, ELF_SEEK_PCONTENT, ELF_LOAD_PCONTENT, ELF_CLOSING, ELF_DONE
<1> QED BY <1>3, <1>4

(* The file's own steps keep it.                                             *)
LEMMA WaitH ==
  ASSUME EInv, HInv, Io \/ UNCHANGED evars
  PROVE  HeadersOf(elf', ram', call', file') /\ InOrder(elf', ram')
<1>1. UNCHANGED <<elf, ram, image>> /\ InOrder(elf', ram')
  BY DEF Io, evars, HInv, HeadersInOrder, InOrder
<1>2. CASE UNCHANGED evars
  <2>1. UNCHANGED <<call, file>>
    BY <1>2 DEF evars, fvars
  <2> QED BY <1>1, <2>1 DEF HInv
<1>3. CASE IoDone
  <2>1. /\ call.status = Pending /\ call'.op = call.op /\ call'.n = call.n /\ call'.file = call.file
    BY <1>3, IoKeeps DEF EInv
  <2> QED BY <1>1, <2>1 DEF HInv, HeadersOf, Pending, Lost
<1>4. CASE FatHelperLost
  <2>1. call.status = Pending
    <3>1. io # NoIo
      BY <1>4 DEF FatHelperLost, NoIo
    <3> QED BY <3>1 DEF EInv, IInv, Typed
  <2>2. call'.status = Lost
    BY <1>4 DEF FatHelperLost, EInv, IInv, Typed, Call
  <2> QED BY <1>1, <2>1, <2>2 DEF HInv, HeadersOf, Pending
<1> QED BY <1>2, <1>3, <1>4 DEF Io

(* The header invariant before the first load.                               *)
LEMMA InitH ==
  ASSUME ElfInit
  PROVE  HInv
<1>1. PICK f \in Files : image = f /\ FileOpen(f)
  BY DEF ElfInit
<1>2. file = Opened(image) /\ call.op = "open" /\ call.status = 0
  BY <1>1 DEF FileOpen
<1>3. elf.state = -1 /\ elf.current_seg = 0 /\ DOMAIN ram = {}
  <2>1. elf = [Cleared EXCEPT !.state = -1]
    BY DEF ElfInit, NoLoad
  <2>2. Cleared.current_seg = 0 /\ Cleared \in ElfCtx
    BY ClearedType DEF Cleared
  <2>3. elf.state = -1 /\ elf.current_seg = 0
    BY <2>1, <2>2 DEF ElfCtx
  <2> QED BY <2>3 DEF ElfInit
<1>4. OneSector(call, rd, dst, file, io)
  BY <1>2 DEF OneSector
<1>5. HeadersOf(elf, ram, call, file)
  BY <1>2, <1>3 DEF HeadersOf, NoLoad, ELF_OPENING, ELF_READING_HEADER,
      ELF_LOAD_PHEADER, ELF_READ_PHEADER, ELF_SEEK_PCONTENT, ELF_LOAD_PCONTENT
<1>6. HeadersInOrder
  BY <1>3 DEF HeadersInOrder, ELF_SEEK_PCONTENT, ELF_LOAD_PCONTENT, ELF_CLOSING, ELF_DONE
<1> QED BY <1>4, <1>5, <1>6 DEF HInv

(* Every step of the loader keeps it.                                        *)
LEMMA StepH ==
  ASSUME EInv, HInv, [ElfNext]_evars
  PROVE  HInv'
<1>1. FileStep /\ IInv
  BY IsFileStep DEF EInv
<1>2. chain' = chain
  BY <1>1, FileKept
<1>3. image' = image
  BY DEF ElfNext, Kexecve, EcallExecve, ElfLoadSubmit, ElfStep, ElfStepError, Io, evars
<1>4. HeadersOf(elf', ram', call', file') /\ InOrder(elf', ram')
  <2>1. CASE Submits
    BY <2>1, OpeningH, ReadingHeaderH, LoadPheaderH, SeekPcontentH DEF Submits
  <2>2. CASE \E ph \in PhdrRead : Allocated(ph) \/ Skipped(ph)
    BY <2>2, AllocatedH, SkippedH
  <2>3. CASE Kexecve \/ EcallExecve
    BY <2>3, LoadSubmitH DEF Kexecve, EcallExecve
  <2> QED BY <2>1, <2>2, <2>3, Steps, LoadPcontentH, EndH, WaitH
<1> QED BY <1>1, <1>2, <1>3, <1>4, HDone

(* For every image whose table lies in one sector: up to the first segment   *)
(* the header in hand is the one current_seg counts and none is passed over  *)
(* (elf_read_next_program_header), whatever the card and the heap do.        *)
THEOREM HeadersAlwaysInOrder == ElfSpec => []HeadersInOrder
<1>1. ElfInit => HInv
  BY InitH
<1>2. EInv /\ HInv /\ [ElfNext]_evars => HInv'
  BY StepH
<1>3. HInv => HeadersInOrder
  BY DEF HInv
<1> QED BY <1>1, <1>2, <1>3, ElfInvariant, PTL DEF ElfSpec

-----------------------------------------------------------------------------
(* The loader keeps the invariant of reads, since its steps are the file's.  *)
LEMMA ReadsKept ==
  ASSUME IInv, RInv, FileStep
  PROVE  RInv'
<1>1. CASE UNCHANGED fvars \/ FsCloseSubmit \/ FatHelperLost
  BY <1>1, RIdle
<1>2. CASE IoDone
  BY <1>2, RSeekStep, RReadStep DEF IoDone
<1> QED BY <1>1, <1>2, RReadSubmit, RSeekWhence DEF FileStep

(* The bytes of a positioned file's sector.                                  *)
LEMMA ByteBelow ==
  ASSUME NEW o \in Nat
  PROVE  SeekDecompose(o).byte_in_sector \in 0 .. SectorSize - 1
<1>1. o % ClusterSize \in Nat
  BY Division, ClusterSizePositive
<1>2. (o % ClusterSize) % SectorSize \in 0 .. SectorSize - 1
  BY <1>1, DivMod, FatAssumption
<1> QED BY <1>2 DEF SeekDecompose

(* A seek leaves the file in a sector.                                       *)
LEMMA SubmitByte ==
  ASSUME NEW f \in FILE(chain), f.current_byte \in 0 .. SectorSize, NEW o \in Nat
  PROVE  SeekSubmit(f, o).file.current_byte \in 0 .. SectorSize
<1>1. SeekSubmit(f, o).file \in {f, At(f, f.current_cluster, o)}
  BY DEF SeekSubmit, Answer, Walk
<1>2. At(f, f.current_cluster, o).current_byte = SeekDecompose(o).byte_in_sector
  BY DEF At, FILE
<1>3. SeekDecompose(o).byte_in_sector \in 0 .. SectorSize
  BY ByteBelow, FatAssumption
<1> QED BY <1>1, <1>2, <1>3

(* Chunk in numbers: of r bytes still wanted, the rest of a sector of S      *)
(* bytes from its byte c on, or all of them if they are fewer.               *)
RestOrAll(S, c, r) == IF c + r >= S THEN S - c ELSE r

(* It is no more than what is wanted and does not run over the sector.       *)
LEMMA RestOrAllFits ==
  ASSUME NEW S \in Nat, NEW c \in Nat, c <= S, NEW r \in Nat
  PROVE  /\ RestOrAll(S, c, r) \in Nat /\ r - RestOrAll(S, c, r) \in Nat
         /\ c + RestOrAll(S, c, r) <= S
BY Z3 DEF RestOrAll

(* A read counts the bytes it copies.                                        *)
LEMMA LengthStep ==
  ASSUME IInv, FileStep, dst \in Seq(Int), LengthOf(call, rd, dst, file)
  PROVE  LengthOf(call', rd', dst', file')
<1>0. /\ file \in FILE(chain) /\ call \in Call(chain) /\ file.current_byte \in 0 .. SectorSize
      /\ SectorSize \in Nat \ {0} /\ IsChain(chain) /\ io.lba \in Int
  BY FatAssumption DEF IInv, Typed, LengthOf
<1>1. ASSUME NEW n \in Nat, FsReadSubmit(n) PROVE LengthOf(call', rd', dst', file')
  <2>1. /\ file' = file /\ dst' = <<>> /\ call'.op = "read" /\ call'.n = n /\ call'.status = Pending
        /\ rd' \in ReadCtx /\ rd'.bytes_remaining = n
    BY <1>1 DEF FsReadSubmit, ReadCtx
  <2> QED BY <1>0, <2>1 DEF LengthOf, Pending
<1>2. ASSUME NEW o \in Int, FsSeekWhence(o, "SET") PROVE LengthOf(call', rd', dst', file')
  <2>1. SeekTarget(file, o, "SET") \in Nat
    BY FilesAssumption DEF SeekTarget
  <2>2. file' = SeekSubmit(file, SeekTarget(file, o, "SET")).file /\ call'.op = "seek"
    BY <1>2 DEF FsSeekWhence
  <2>3. file'.current_byte \in 0 .. SectorSize
    BY <1>0, <2>1, <2>2, SubmitByte
  <2> QED BY <2>2, <2>3 DEF LengthOf
<1>3. CASE FsCloseSubmit \/ FatHelperLost
  <2>1. file' = file /\ call'.op = "close" /\ call'.status # Pending
    <3>1. CASE FsCloseSubmit
      BY <3>1 DEF FsCloseSubmit, Pending
    <3>2. CASE FatHelperLost
      BY <1>0, <3>2 DEF FatHelperLost, Call, Pending, Lost
    <3> QED BY <1>3, <3>1, <3>2
  <2> QED BY <1>0, <2>1 DEF LengthOf
<1>4. CASE UNCHANGED fvars
  <2>1. UNCHANGED <<call, rd, dst, file>>
    BY <1>4 DEF fvars
  <2> QED BY <2>1
<1>5. CASE IoDone
  <2>1. call.status = Pending /\ call'.op = call.op /\ call'.n = call.n /\ call.op \in {"read", "seek"}
    BY <1>5, IoKeeps DEF LengthOf
  <2>2. ASSUME NEW d \in Seq(Int), dst' = d, NEW r \in ReadCtx, r.bytes_remaining \in Nat, Len(d) + r.bytes_remaining = call.n,
               NEW f \in FILE(chain), NEW status \in {-1, 0}, SeekDone(f, r, status), call.op = "read"
        PROVE  call'.status \notin {0} /\
               (call'.status = Pending => rd' \in ReadCtx /\ rd'.bytes_remaining \in Nat /\ Len(dst') + rd'.bytes_remaining = call'.n)
    <3>1. r # NoCtx
      BY <2>2 DEF ReadCtx, NoCtx
    <3>2. CASE status = 0
      <4>1. call' = call /\ rd' = [r EXCEPT !.state = "COPY_CONTENTS"]
        BY <2>2, <3>1, <3>2 DEF SeekDone
      <4>2. rd' \in ReadCtx /\ rd'.bytes_remaining = r.bytes_remaining
        BY <4>1 DEF ReadCtx
      <4> QED BY <2>1, <2>2, <4>1, <4>2 DEF Pending
    <3>3. CASE status # 0
      <4>1. Finish(1)
        BY <2>2, <3>1, <3>3 DEF SeekDone
      <4>2. call'.status = 1
        BY <1>0, <4>1, FinishFacts
      <4> QED BY <4>2 DEF Pending
    <3> QED BY <3>2, <3>3
  <2>3. ASSUME NEW status \in {0, 1}, FsSeekStep(status) PROVE LengthOf(call', rd', dst', file')
    <3> DEFINE next == GetNextCluster(sk.current_cluster)
               here == At(file, next, sk.target_offset)
    <3>1. /\ dst' = dst /\ io.callback = "fs_seek_step"
          /\ \/ SeekDone(file, rd, -1) /\ file' = file
             \/ file' = here /\ ~EndOfChain(next) /\ SeekDone(here, rd, 0)
             \/ UNCHANGED <<file, rd, call>>
      BY <2>3 DEF FsSeekStep
    <3>2. sk.target_offset \in Nat /\ sk.current_cluster \in Cluster /\ fat = FatOf(chain)
      BY <3>1 DEF IInv, Typed, SeekCtx
    <3>3. here.current_byte \in 0 .. SectorSize
      <4>1. here.current_byte = SeekDecompose(sk.target_offset).byte_in_sector
        BY <1>0 DEF At, FILE
      <4> HIDE DEF here
      <4> QED BY <1>0, <3>2, <4>1, ByteBelow
    <3>4. ~EndOfChain(next) => here \in FILE(chain)
      <4> SUFFICES ASSUME ~EndOfChain(next) PROVE here \in FILE(chain)
        OBVIOUS
      <4>1. next \in Cluster
        BY <1>0, <3>2, NextIsCluster DEF GetNextCluster
      <4> HIDE DEF next
      <4> QED BY <1>0, <3>2, <4>1, AtType
    <3> HIDE DEF here, next
    <3>5. file'.current_byte \in 0 .. SectorSize
      BY <1>0, <3>1, <3>3
    <3>6. CASE call.op = "read"
      <4>1. rd \in ReadCtx /\ rd.bytes_remaining \in Nat /\ Len(dst) + rd.bytes_remaining = call.n
        BY <2>1, <3>6 DEF LengthOf
      <4>2. CASE SeekDone(file, rd, -1) /\ file' = file
        BY <1>0, <2>1, <2>2, <3>1, <3>5, <3>6, <4>1, <4>2 DEF LengthOf
      <4>3. CASE file' = here /\ ~EndOfChain(next) /\ SeekDone(here, rd, 0)
        BY <2>1, <2>2, <3>1, <3>4, <3>5, <3>6, <4>1, <4>3 DEF LengthOf
      <4>4. CASE UNCHANGED <<file, rd, call>>
        BY <3>1, <4>4
      <4> QED BY <3>1, <4>2, <4>3, <4>4
    <3>7. CASE call.op = "seek"
      BY <2>1, <3>5, <3>7 DEF LengthOf
    <3> QED BY <2>1, <3>6, <3>7
  <2>4. ASSUME NEW status \in {0, 1}, FsReadStep(status) PROVE LengthOf(call', rd', dst', file')
    <3> DEFINE k == Chunk(file, rd)
               left == rd.bytes_remaining - k
               B == Bytes(io.lba, file.current_byte, k)
               r == [state |-> "LOAD_CONTENTS", bytes_remaining |-> left]
               t == SeekTarget(file, k, "CUR")
               a == SeekSubmit(file, t)
    <3>1. io.callback = "fs_read_step" /\ call.op = "read"
      <4>1. io.callback = "fs_read_step"
        BY <2>4 DEF FsReadStep
      <4> QED BY <2>1, <4>1 DEF IInv, Walking
    <3>2. rd \in ReadCtx /\ rd.bytes_remaining \in Nat /\ Len(dst) + rd.bytes_remaining = call.n
      BY <2>1, <3>1 DEF LengthOf
    <3>3. k \in Nat /\ left \in Nat /\ file.current_byte + k <= SectorSize
      <4>1. SectorSize \in Nat /\ file.current_byte \in Nat /\ file.current_byte <= SectorSize
        BY <1>0
      <4>2. k = RestOrAll(SectorSize, file.current_byte, rd.bytes_remaining)
        BY DEF Chunk, RestOrAll
      <4> HIDE DEF k
      <4> QED BY <3>2, <4>1, <4>2, RestOrAllFits
    <3>4. \/ Finish(1) /\ UNCHANGED <<file, dst>>
          \/ dst' = dst \o B /\ left = 0 /\ Finish(0) /\ file' = [file EXCEPT !.current_byte = @ + k]
          \/ /\ dst' = dst \o B /\ file' = a.file
             /\ \/ a.status = Pending /\ rd' = r /\ call' = call
                \/ a.status # Pending /\ SeekDone(a.file, r, a.status)
      BY <2>4 DEF FsReadStep, Seek
    <3>5. t \in Nat
      <4>1. file.file_offset \in Nat
        BY <1>0 DEF FILE
      <4> QED BY <3>3, <4>1, FilesAssumption DEF SeekTarget
    <3>6. B \in Seq(Int) /\ Len(B) = k
      <4>1. k \in Int /\ file.current_byte \in Int
        BY <1>0, <3>3
      <4> HIDE DEF k
      <4>2. B \in Seq(Int)
        BY <1>0, <4>1, BytesType
      <4> QED BY <3>3, <4>2 DEF Bytes
    <3>7. dst \o B \in Seq(Int) /\ Len(dst \o B) = Len(dst) + k
      <4>1. \A u, v \in Seq(Int) : u \o v \in Seq(Int) /\ Len(u \o v) = Len(u) + Len(v)
        OBVIOUS
      <4>2. dst \in Seq(Int) /\ B \in Seq(Int) /\ Len(B) = k
        BY <3>6
      <4> HIDE DEF B, k
      <4> QED BY <4>1, <4>2
    <3>8. r \in ReadCtx /\ r.bytes_remaining = left
      <4>1. left \in Int
        BY <3>3
      <4> HIDE DEF left
      <4> QED BY <4>1 DEF ReadCtx
    <3> HIDE DEF t, r, B
    <3>9. a.status \in {-1, 0, Pending} /\ a.file \in FILE(chain) /\ a.file.current_byte \in 0 .. SectorSize
      BY <1>0, <3>5, Submit, SubmitByte
    <3>10. Len(dst) + k + left = call.n /\ Len(dst) \in Nat
      BY <3>2, <3>3
    <3> HIDE DEF a, k, left
    <3>11. CASE Finish(1) /\ UNCHANGED <<file, dst>>
      <4>1. call'.status = 1
        BY <1>0, <3>11, FinishFacts
      <4> QED BY <1>0, <3>11, <4>1 DEF LengthOf, Pending
    <3>12. CASE dst' = dst \o B /\ left = 0 /\ Finish(0) /\ file' = [file EXCEPT !.current_byte = @ + k]
      <4>1. call'.status = 0
        BY <1>0, <3>12, FinishFacts
      <4>2. file'.current_byte = file.current_byte + k
        BY <1>0, <3>12 DEF FILE
      <4>3. file'.current_byte \in 0 .. SectorSize /\ Len(dst') = call'.n
        BY <1>0, <2>1, <3>3, <3>7, <3>10, <3>12, <4>2
      <4> QED BY <4>1, <4>3 DEF LengthOf, Pending
    <3>13. CASE /\ dst' = dst \o B /\ file' = a.file
                /\ a.status = Pending /\ rd' = r /\ call' = call
      <4>1. rd' \in ReadCtx /\ rd'.bytes_remaining \in Nat /\ Len(dst') + rd'.bytes_remaining = call'.n
        BY <3>3, <3>7, <3>8, <3>10, <3>13
      <4> QED BY <2>1, <3>1, <3>9, <3>13, <4>1 DEF LengthOf, Pending
    <3>14. CASE /\ dst' = dst \o B /\ file' = a.file
                /\ a.status # Pending /\ SeekDone(a.file, r, a.status)
      <4>1. r.bytes_remaining \in Nat /\ Len(dst \o B) + r.bytes_remaining = call.n
        BY <3>3, <3>7, <3>8, <3>10
      <4>2. a.status \in {-1, 0}
        BY <3>9, <3>14
      <4>3. /\ call'.status # 0
            /\ call'.status = Pending =>
                 rd' \in ReadCtx /\ rd'.bytes_remaining \in Nat /\ Len(dst') + rd'.bytes_remaining = call'.n
        BY <2>2, <3>1, <3>7, <3>8, <3>9, <3>14, <4>1, <4>2
      <4> QED BY <2>1, <3>1, <3>9, <3>14, <4>3 DEF LengthOf
    <3> QED BY <3>4, <3>11, <3>12, <3>13, <3>14
  <2> QED BY <1>5, <2>3, <2>4 DEF IoDone
<1> QED BY <1>1, <1>2, <1>3, <1>4, <1>5 DEF FileStep

-----------------------------------------------------------------------------
(* The volume does not change, so the segment invariant may be shown of the  *)
(* new state's values.                                                       *)
LEMMA SPrimed ==
  ASSUME chain' = chain
  PROVE  SegmentsOf(elf', ram', call') => SegmentsOf(elf, ram, call)'
BY DEF SegmentsOf, Fitting, Exact, Forward, Coherent, InStep, InChain, ClusterOf, FileByte

(* A step outside the filling of a segment.                                  *)
LEMMA Unfilled ==
  ASSUME SegmentsOf(elf, ram, call), ram' = ram, NEW s, elf'.state = s, s \notin {4, 5},
         elf.state \notin {4, 5, 8} \/ s = 8
  PROVE  SegmentsOf(elf', ram', call')
BY DEF SegmentsOf, ELF_SEEK_PCONTENT, ELF_LOAD_PCONTENT, ELF_ERROR

(* elf_load_submit keeps the segment invariant: no segment yet.              *)
LEMMA LoadSubmitS ==
  ASSUME EInv, SInv, ElfLoadSubmit
  PROVE  SegmentsOf(elf', ram', call')
<1>1. elf.state = -1 /\ elf'.state = 0 /\ ram' = ram
  BY DEF ElfLoadSubmit, Cleared, NoLoad, ELF_OPENING
<1> QED BY <1>1, Unfilled DEF SInv

(* So do the steps up to the first header.                                   *)
LEMMA EarlyS ==
  ASSUME EInv, SInv, Opening \/ ReadingHeader \/ LoadPheader
  PROVE  SegmentsOf(elf', ram', call')
<1>1. elf \in ElfCtx /\ image \in Files /\ ram' = ram
  BY DEF EInv, ElfTyped, Opening, ReadingHeader, LoadPheader
<1>2. elf.state \in {0, 1, 2} /\ elf'.state \in {1, 2, 3}
  <2>1. CASE ReadingHeader
    BY <1>1, <2>1, HeaderRead DEF ReadingHeader, ELF_READING_HEADER
  <2>2. CASE Opening
    BY <1>1, <2>2 DEF Opening, ELF_OPENING, ELF_READING_HEADER, ElfCtx
  <2>3. CASE LoadPheader
    BY <1>1, <2>3 DEF LoadPheader, ELF_LOAD_PHEADER, ELF_READ_PHEADER, ElfCtx
  <2> QED BY <2>1, <2>2, <2>3
<1> QED BY <1>1, <1>2, Unfilled DEF SInv

(* So do the close and an error.                                             *)
LEMMA EndS ==
  ASSUME EInv, SInv, Closing \/ Failed
  PROVE  SegmentsOf(elf', ram', call')
<1>1. /\ ram' = ram /\ elf \in ElfCtx
      /\ \/ elf.state = 6 /\ elf' = [elf EXCEPT !.state = 7]
         \/ elf' = [elf EXCEPT !.state = 8]
  BY DEF Closing, ElfFinish, Failed, ElfFail, ELF_CLOSING, ELF_DONE, ELF_ERROR, EInv, ElfTyped
<1>2. (elf'.state = 7 /\ elf.state = 6) \/ elf'.state = 8
  BY <1>1 DEF ElfCtx
<1> QED BY <1>1, <1>2, Unfilled DEF SInv

(* So does a header that is passed over.                                     *)
LEMMA SkippedS ==
  ASSUME EInv, SInv, NEW ph, Skipped(ph)
  PROVE  SegmentsOf(elf', ram', call')
<1> DEFINE e == [elf EXCEPT !.pheader = ph]
<1>1. elf.state = 3 /\ ram' = ram /\ NextProgramHeader(e) /\ elf \in ElfCtx /\ ph \in Phdr
  BY PhdrType DEF Skipped, EInv, ElfTyped, ELF_READ_PHEADER
<1>2. e \in ElfCtx
  BY <1>1 DEF ElfCtx
<1> HIDE DEF e
<1>3. elf'.state \in {3, 6}
  <2>1. elf'.state \in {ELF_READ_PHEADER, ELF_CLOSING}
    BY <1>1, <1>2, NextElf
  <2> QED BY <2>1 DEF ELF_READ_PHEADER, ELF_CLOSING
<1> QED BY <1>1, <1>3, Unfilled DEF SInv

(* A segment's header: the seek under way is the one to its payload.         *)
LEMMA AllocatedS ==
  ASSUME EInv, SInv, NEW ph, Allocated(ph)
  PROVE  SegmentsOf(elf', ram', call')
<1> DEFINE r == Last + 1
<1>1. /\ r \in Nat /\ Last \in Nat /\ Last' = r /\ DOMAIN ram = 1 .. Last /\ DOMAIN ram' = 1 .. r
      /\ ph \in Phdr /\ ram'[r].of = ph /\ ram'[r].from = file /\ ram'[r].size = ph.memsz
      /\ ram'[r].bytes = [i \in 1 .. ph.memsz |-> 0]
      /\ \A x \in 1 .. Last : ram'[x] = ram[x]
      /\ elf'.state = 4 /\ elf'.pheader = ph /\ elf'.seg_buf = r
  BY AllocatedFacts DEF EInv, ElfTyped, ELF_SEEK_PCONTENT
<1>2. elf.state = 3 /\ FsSeekWhence(ph.offset, "SET")
  BY DEF Allocated, ELF_READ_PHEADER
<1>3. call'.op = "seek" /\ call'.n = ph.offset /\ call'.file = file
  <2>1. ph.offset \in 0 .. Mod - 1
    BY <1>1 DEF Phdr
  <2> QED BY <1>2, <2>1, SeekSet
<1>4. r \in 1 .. r /\ \A x \in 1 .. r : x = r \/ x \in 1 .. Last
  BY <1>1
<1>5. \A x \in 1 .. Last : ram[x].size = ram[x].of.memsz /\ (Fitting(ram) => Exact(ram[x]))
  BY <1>1, <1>2 DEF SInv, SegmentsOf, ELF_ERROR, ELF_SEEK_PCONTENT, ELF_LOAD_PCONTENT
<1> HIDE DEF r
<1>6. Fitting(ram') => Fitting(ram)
  BY <1>1, <1>4 DEF Fitting, r
<1>7. \A x \in DOMAIN ram' : ram'[x].size = ram'[x].of.memsz /\ (Fitting(ram') => Exact(ram'[x]) \/ x = r)
  BY <1>1, <1>4, <1>5, <1>6
<1>8. \A i \in DOMAIN ram'[r].bytes : ram'[r].bytes[i] = 0
  BY <1>1
<1>9. /\ elf'.state = 4 /\ elf'.seg_buf = r /\ r \in DOMAIN ram'
      /\ ram'[r].of = elf'.pheader /\ call'.op = "seek" /\ call'.n = elf'.pheader.offset
      /\ call'.file = ram'[r].from
  BY <1>1, <1>3, <1>4
<1> QED BY <1>7, <1>8, <1>9 DEF SegmentsOf, ELF_SEEK_PCONTENT, ELF_LOAD_PCONTENT

(* A seek that is not a backward one into the first cluster ends in step.    *)
LEMMA ForwardLands ==
  ASSUME IInv, call.op = "seek", call.status = 0, NEW s, s.from = call.file, s.of.offset = call.n, Forward(s)
  PROVE  Coherent(file) /\ file.file_offset = call.n
<1>1. call \in Call(chain) /\ call.file \in FILE(chain) /\ call.n \in Nat /\ call.file.file_offset \in Nat
  BY DEF IInv, Typed, Call, FILE
<1>2. InStep(call.file) /\ (call.n < ClusterSize => call.file.file_offset < ClusterSize)
  BY DEF Forward
<1>3. ~IntoFirst(call.file, call.n)
  BY <1>1, <1>2, ClusterSizePositive DEF IntoFirst
<1>4. InChain(call.n) /\ file = At(call.file, ClusterOf(call.n), call.n)
  BY <1>2, <1>3 DEF IInv, SeekPlaced, Landed, Done
<1> QED BY <1>1, <1>4, AtCoherent

(* The seek's completion: the read under way starts at the payload, unless   *)
(* the seek kept a stale cluster.                                            *)
LEMMA SeekPcontentS ==
  ASSUME EInv, SInv, SeekPcontent, call.status = 0
  PROVE  SegmentsOf(elf', ram', call')
<1>1. /\ elf.state = 4 /\ elf' = [elf EXCEPT !.state = 5] /\ ram' = ram /\ elf \in ElfCtx
      /\ FsReadSubmit(elf.pheader.filesz)
  BY DEF SeekPcontent, ELF_SEEK_PCONTENT, ELF_LOAD_PCONTENT, EInv, ElfTyped
<1>2. elf'.state = 5 /\ elf'.seg_buf = elf.seg_buf /\ elf'.pheader = elf.pheader
  BY <1>1 DEF ElfCtx
<1> DEFINE s == ram[elf.seg_buf]
<1>3. /\ call.op = "seek" /\ call.n = elf.pheader.offset /\ call.file = s.from /\ s.of = elf.pheader
  BY <1>1 DEF SInv, SegmentsOf, ELF_SEEK_PCONTENT, ELF_LOAD_PCONTENT, Lost
<1>4. call'.op = "read" /\ call'.n = elf.pheader.filesz /\ call'.file = file
  BY <1>1 DEF FsReadSubmit
<1>5. Forward(s) => Coherent(file) /\ file.file_offset = elf.pheader.offset
  <2> HIDE DEF s
  <2> QED BY <1>3, ForwardLands DEF EInv
<1> QED BY <1>1, <1>2, <1>4, <1>5 DEF SInv, SegmentsOf, ELF_SEEK_PCONTENT, ELF_LOAD_PCONTENT, ELF_ERROR

(* The payload is in memory, and in its own region if it fits.               *)
LEMMA LoadPcontentS ==
  ASSUME EInv, SInv, LoadPcontent, call.status = 0
  PROVE  SegmentsOf(elf', ram', call')
<1> DEFINE q == elf.seg_buf
           s == ram[q]
           t == Spilt(s, 0)
           n == elf.pheader.filesz
           o == elf.pheader.offset
<1>1. elf.state = 5 /\ ElfTyped /\ dst \in Seq(Int) /\ elf.pheader \in Phdr /\ n \in Nat /\ o \in Nat
  <2>1. elf.state = 5 /\ ElfTyped
    BY DEF LoadPcontent, ELF_LOAD_PCONTENT, EInv
  <2>2. elf.pheader \in Phdr
    BY <2>1 DEF ElfTyped, ElfCtx
  <2>3. dst \in Seq(Int)
    BY <2>1 DEF EInv, ElfTyped
  <2>4. n \in Nat /\ o \in 0 .. Mod - 1 /\ Mod \in Nat
    BY <2>2, FilesAssumption DEF Phdr
  <2> QED BY <2>1, <2>2, <2>3, <2>4
<1>2. /\ q \in DOMAIN ram /\ s.of = elf.pheader
      /\ \A i \in DOMAIN s.bytes : s.bytes[i] = 0
      /\ call.op = "read" /\ call.n = n
      /\ Forward(s) => Coherent(call.file) /\ call.file.file_offset = o
      /\ \A x \in DOMAIN ram : ram[x].size = ram[x].of.memsz /\ (Fitting(ram) => Exact(ram[x]) \/ x = q)
  BY <1>1 DEF SInv, SegmentsOf, ELF_SEEK_PCONTENT, ELF_LOAD_PCONTENT, Lost, ELF_ERROR
<1>3. /\ ram'[q] = t /\ DOMAIN ram' = DOMAIN ram
      /\ Len(dst) <= s.size => \A x \in DOMAIN ram : x # q => ram'[x] = ram[x]
      /\ \A x \in DOMAIN ram : ram'[x].of = ram[x].of /\ ram'[x].size = ram[x].size
      /\ elf'.state \in {3, 6}
  <2>1. elf'.state \in {ELF_READ_PHEADER, ELF_CLOSING}
    BY <1>1, LoadPcontentFacts
  <2>2. elf'.state \in {3, 6}
    BY <2>1 DEF ELF_READ_PHEADER, ELF_CLOSING
  <2> QED BY <1>1, <1>2, <2>2, LoadPcontentFacts
<1>4. s \in Segment(chain)
  BY <1>2 DEF EInv, ElfTyped
<1>5. /\ t.of = s.of /\ t.from = s.from
      /\ t.bytes = [i \in 1 .. Len(s.bytes) |-> IF i \in 1 .. Len(dst) THEN dst[i] ELSE s.bytes[i]]
  <2>1. \A i \in 1 .. Len(s.bytes) : 0 + i = i
    BY <1>4 DEF Segment
  <2>2. /\ t.of = s.of /\ t.from = s.from
        /\ t.bytes = [i \in 1 .. Len(s.bytes) |-> IF 0 + i \in 1 .. Len(dst) THEN dst[0 + i] ELSE s.bytes[i]]
    <3> HIDE DEF s
    <3> QED BY <1>1, <1>4, SpiltType
  <2> HIDE DEF t
  <2> QED BY <2>1, <2>2
<1>6. DOMAIN s.bytes = 1 .. Len(s.bytes) /\ Len(s.bytes) \in Nat /\ Len(dst) \in Nat
  BY <1>1, <1>4 DEF Segment
<1>7. Forward(t) => Forward(s)
  BY <1>5 DEF Forward
<1>8. Len(dst) = n /\ (Forward(s) => Copied(dst, o))
  <2>1. Len(dst) = n
    BY <1>2 DEF SInv, LengthOf
  <2>2. ASSUME Forward(s) PROVE Copied(dst, o)
    <3>1. Coherent(call.file) /\ call.file.file_offset = o /\ ReadDone(call, dst, file)
      BY <1>2, <2>2 DEF SInv, RInv
    <3> HIDE DEF o, n
    <3> QED BY <1>2, <3>1 DEF ReadDone
  <2> QED BY <2>1, <2>2
<1> HIDE DEF s, t, q
<1>9. Exact(t)
  <2> SUFFICES ASSUME Forward(t), NEW i \in DOMAIN t.bytes
               PROVE  t.bytes[i] = IF i <= t.of.filesz THEN FileByte(t.of.offset + i - 1) ELSE 0
    BY DEF Exact
  <2>1. Len(dst) = n /\ Copied(dst, o) /\ t.of = elf.pheader
    BY <1>2, <1>5, <1>7, <1>8
  <2>2. i \in 1 .. Len(s.bytes) /\ i \in Nat /\ i >= 1
    BY <1>5, <1>6
  <2>3. CASE i <= n
    <3>1. i \in 1 .. Len(dst)
      BY <1>1, <2>1, <2>2, <2>3
    <3>2. t.bytes[i] = dst[i] /\ dst[i] = FileByte(o + i - 1)
      BY <1>5, <2>1, <2>2, <3>1 DEF Copied
    <3> QED BY <2>1, <2>3, <3>2
  <2>4. CASE ~(i <= n)
    <3>1. i \notin 1 .. Len(dst)
      BY <1>1, <2>1, <2>2, <2>4
    <3>2. t.bytes[i] = 0
      BY <1>2, <1>5, <1>6, <2>2, <3>1
    <3> QED BY <2>1, <2>4, <3>2
  <2> QED BY <2>3, <2>4
<1>10. ASSUME Fitting(ram') PROVE \A x \in DOMAIN ram' : Exact(ram'[x])
  <2>1. Fitting(ram)
    BY <1>3, <1>10 DEF Fitting
  <2>2. Len(dst) <= s.size
    BY <1>2, <1>8, <2>1 DEF Fitting, s
  <2> QED BY <1>2, <1>3, <1>9, <2>1, <2>2
<1>11. \A x \in DOMAIN ram' : ram'[x].size = ram'[x].of.memsz
  BY <1>2, <1>3
<1> QED BY <1>3, <1>10, <1>11 DEF SegmentsOf, ELF_SEEK_PCONTENT, ELF_LOAD_PCONTENT

(* The file's own steps keep it.                                             *)
LEMMA WaitS ==
  ASSUME EInv, SInv, Io \/ UNCHANGED evars
  PROVE  SegmentsOf(elf', ram', call')
<1>1. UNCHANGED <<elf, ram>>
  BY DEF Io, evars
<1>2. CASE UNCHANGED evars
  <2>1. call' = call
    BY <1>2 DEF evars, fvars
  <2> QED BY <1>1, <2>1 DEF SInv
<1>3. CASE IoDone
  <2>1. call.status = Pending /\ call'.op = call.op /\ call'.n = call.n /\ call'.file = call.file
    BY <1>3, IoKeeps DEF EInv
  <2> QED BY <1>1, <2>1 DEF SInv, SegmentsOf, Pending, Lost
<1>4. CASE FatHelperLost
  <2>1. call'.status = Lost
    BY <1>4 DEF FatHelperLost, EInv, IInv, Typed, Call
  <2> QED BY <1>1, <2>1 DEF SInv, SegmentsOf
<1> QED BY <1>2, <1>3, <1>4 DEF Io

(* The segment invariant before the first load.                              *)
LEMMA InitS ==
  ASSUME FilesFit, ElfInit
  PROVE  SInv
<1>1. FileInit /\ RInv
  BY InitE, RInit
<1>2. call.op = "open" /\ call.status = 0 /\ file.current_byte = 0 /\ SectorSize \in Nat
  BY FatAssumption DEF ElfInit, FileOpen, Opened
<1>3. elf.state = -1 /\ DOMAIN ram = {}
  <2>1. elf = [Cleared EXCEPT !.state = -1] /\ Cleared \in ElfCtx
    BY ClearedType DEF ElfInit, NoLoad
  <2>2. elf.state = -1
    BY <2>1 DEF ElfCtx
  <2> QED BY <2>2 DEF ElfInit
<1>4. SegmentsOf(elf, ram, call)
  BY <1>3 DEF SegmentsOf, ELF_SEEK_PCONTENT, ELF_LOAD_PCONTENT
<1>5. LengthOf(call, rd, dst, file)
  BY <1>2 DEF LengthOf, Pending
<1> QED BY <1>1, <1>4, <1>5 DEF SInv

(* Every step of the loader keeps it.                                        *)
LEMMA StepS ==
  ASSUME EInv, SInv, [ElfNext]_evars
  PROVE  SInv'
<1>1. FileStep /\ IInv /\ dst \in Seq(Int)
  BY IsFileStep DEF EInv, ElfTyped
<1>2. chain' = chain /\ RInv'
  BY <1>1, FileKept, ReadsKept DEF SInv
<1>3. LengthOf(call, rd, dst, file)'
  <2>1. LengthOf(call', rd', dst', file')
    BY <1>1, LengthStep DEF SInv
  <2> QED BY <2>1 DEF LengthOf
<1>4. SegmentsOf(elf', ram', call')
  <2>1. CASE Submits
    BY <2>1, EarlyS, SeekPcontentS DEF Submits
  <2>2. CASE \E ph \in PhdrRead : Allocated(ph) \/ Skipped(ph)
    BY <2>2, AllocatedS, SkippedS
  <2>3. CASE Kexecve \/ EcallExecve
    BY <2>3, LoadSubmitS DEF Kexecve, EcallExecve
  <2> QED BY <2>1, <2>2, <2>3, Steps, LoadPcontentS, EndS, WaitS
<1> QED BY <1>2, <1>3, <1>4, SPrimed DEF SInv

-----------------------------------------------------------------------------
(* For files that end more than a sector below 2^32: a program that was      *)
(* installed holds the bytes of its file in each segment the loader reached  *)
(* by a forward seek, and zeros behind them, unless some payload was larger  *)
(* than its region.                                                          *)
THEOREM SegmentsAlwaysExact ==
  ASSUME FilesFit
  PROVE  ElfSpec => []SegmentsExact
<1>1. ElfInit => SInv
  BY InitS
<1>2. EInv /\ SInv /\ [ElfNext]_evars => SInv'
  BY StepS
<1>3. EInv /\ SInv => SegmentsExact
  BY DEF EInv, Installs, SInv, SegmentsOf, Exact, Fitting, NoOverrun, SegmentsExact, ELF_DONE, ELF_ERROR,
         ELF_SEEK_PCONTENT, ELF_LOAD_PCONTENT
<1> QED BY <1>1, <1>2, <1>3, ElfInvariant, PTL DEF ElfSpec
=============================================================================
