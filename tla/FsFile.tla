------------------------------- MODULE FsFile -------------------------------
(* Reading, positioning and closing an open file: kernel/fs/fs_read.c,       *)
(* fs_seek.c and fs_close.c.  Both operations are state machines stepped by   *)
(* the completion callbacks of sector reads; a read that leaves a sector      *)
(* calls the seek machine, which may answer at once or after a walk along     *)
(* the FAT.                                                                   *)
EXTENDS Fat

CONSTANTS Files,      \* the files that may be open: [chain, size]
          Lengths,    \* bytes a read may ask for
          Offsets,    \* offsets a seek may ask for
          Mod         \* 2^32, the width of a file offset

(* A file has at least one cluster and no cluster twice; its directory entry *)
(* may claim any size.                                                       *)
IsChain(ch) ==
  /\ ch \in Seq(Cluster) /\ ch # <<>>
  /\ \A i, j \in 1 .. Len(ch) : ch[i] = ch[j] => i = j

ASSUME FilesAssumption ==
  /\ \A f \in Files : IsChain(f.chain) /\ f.size \in Nat
  /\ Lengths \subseteq Nat /\ Offsets \subseteq Int /\ Mod \in Nat \ {0}

NoCtx == [state |-> "none"]
NoIo  == [lba |-> -1, callback |-> "none"]
Pending == 2      \* no status yet
Lost    == 3      \* control has been lost

VARIABLES chain,   \* ghost: the clusters of the file, in order
          file,    \* the FILE of kernel/fs
          rd,      \* fs_read_ctx_t, or NoCtx
          sk,      \* fs_seek_ctx_t, or NoCtx
          io,      \* the sector read in progress: [lba, callback], or NoIo
          dst,     \* what has been copied to the caller's buffer
          call     \* the caller's operation: its arguments and its outcome

fvars == <<fat, helpers, chain, file, rd, sk, io, dst, call>>

-----------------------------------------------------------------------------
(* seek_decompose: cluster of the file, sector of the cluster, byte of the  *)
(* sector.                                                                  *)
SeekDecompose(offset) ==
  [cluster_index     |-> offset \div ClusterSize,
   sector_in_cluster |-> (offset % ClusterSize) \div SectorSize,
   byte_in_sector    |-> (offset % ClusterSize) % SectorSize]

(* Mutant: file_offset is not written.                                      *)
AtNoOffset(f, c, offset) ==
  LET p == SeekDecompose(offset)
  IN  [f EXCEPT !.current_cluster = c, !.current_sector = p.sector_in_cluster,
                !.current_byte = p.byte_in_sector]

(* The file positioned at offset, in cluster c.                             *)
At(f, c, offset) ==
  LET p == SeekDecompose(offset)
  IN  [f EXCEPT !.current_cluster = c, !.current_sector = p.sector_in_cluster,
                !.current_byte = p.byte_in_sector, !.file_offset = offset]

(* What a seek does before any I/O: [file, sk, status].                     *)
Answer(f, status) == [file |-> f, sk |-> NoCtx, status |-> status]

(* Mutant: the FILE is written before the walk.                             *)
WalkMovesFirst(f, c, hops, offset) ==
  [file |-> At(f, c, offset), status |-> Pending,
   sk |-> [state |-> "WALK_FAT", current_cluster |-> c,
           clusters_remaining |-> hops, target_offset |-> offset]]

Walk(f, c, hops, offset) ==
  [file |-> f, status |-> Pending,
   sk |-> [state |-> "WALK_FAT", current_cluster |-> c,
           clusters_remaining |-> hops, target_offset |-> offset]]

(* Mutant: a backward seek goes on from the current cluster.                *)
SeekStartHere(f, target, here) == <<f.current_cluster, 0>>

(* Where the walk starts: the current cluster, or the first one when the    *)
(* target lies before it.                                                   *)
SeekStart(f, target, here) ==
  IF target >= here THEN <<f.current_cluster, here>> ELSE <<f.first_cluster, 0>>

(* fs_seek_submit.                                                          *)
SeekSubmit(f, offset) ==
  LET target == SeekDecompose(offset).cluster_index
      start  == SeekStart(f, target, SeekDecompose(f.file_offset).cluster_index)
      hops   == target - start[2]
  IN  IF offset > f.file_size THEN Answer(f, -1)
      ELSE IF hops = 0 THEN Answer(At(f, f.current_cluster, offset), 0)
      ELSE Walk(f, start[1], hops, offset)

(* fs_seek_whence: an unsigned target, so stepping before the start wraps.  *)
SeekTarget(f, offset, whence) ==
  (offset + CASE whence = "SET" -> 0
              [] whence = "CUR" -> f.file_offset
              [] whence = "END" -> f.file_size) % Mod

-----------------------------------------------------------------------------
Post(lba, callback) == io' = [lba |-> lba, callback |-> callback]

FatRead == Post(0, "fs_seek_step")

DataSector(f) == ClusterToLba(f.current_cluster) + f.current_sector

(* fs_read_finish, and the end of a seek the caller asked for: the context  *)
(* is freed and the callback gets the status.                               *)
Finish(status) ==
  /\ rd' = NoCtx /\ sk' = NoCtx /\ io' = NoIo
  /\ call' = [call EXCEPT !.status = status]

(* Mutant: the read is not resumed.                                         *)
SeekDoneDropsRead(f, r, status) ==
  IF r = NoCtx THEN Finish(status)
  ELSE io' = NoIo /\ rd' = r /\ sk' = NoCtx /\ UNCHANGED call

(* The completion of a seek, for the caller or for fs_read_step, which then *)
(* loads the next sector or gives up.                                       *)
SeekDone(f, r, status) ==
  IF r = NoCtx THEN Finish(status)
  ELSE IF status # 0 THEN Finish(1)
  ELSE /\ Post(DataSector(f), "fs_read_step")
       /\ rd' = [r EXCEPT !.state = "COPY_CONTENTS"]
       /\ sk' = NoCtx /\ UNCHANGED call

(* fs_seek_whence called by a read, r.                                      *)
Seek(f, r, offset, whence) ==
  LET a == SeekSubmit(f, SeekTarget(f, offset, whence))
  IN  /\ file' = a.file
      /\ \/ a.status = Pending /\ sk' = a.sk /\ rd' = r /\ FatRead /\ UNCHANGED call
         \/ a.status # Pending /\ SeekDone(a.file, r, a.status)

-----------------------------------------------------------------------------
(* The caller.  One operation is under way at a time.                       *)
Idle == call.status # Pending /\ call.op # "close"

(* fs_read_submit.                                                          *)
FsReadSubmit(n) ==
  /\ Idle
  /\ call' = [op |-> "read", n |-> n, file |-> file, status |-> Pending]
  /\ rd' = [state |-> "COPY_CONTENTS", bytes_remaining |-> n]
  /\ Post(DataSector(file), "fs_read_step")
  /\ dst' = <<>>
  /\ UNCHANGED <<fat, helpers, chain, file, sk>>

(* fs_seek_whence for the caller; the answer may come at once.              *)
FsSeekWhence(offset, whence) ==
  LET a == SeekSubmit(file, SeekTarget(file, offset, whence))
      begun == [op |-> "seek", n |-> SeekTarget(file, offset, whence),
                file |-> file, status |-> a.status]
  IN  /\ Idle
      /\ file' = a.file /\ sk' = a.sk /\ call' = begun
      /\ IF a.status = Pending THEN FatRead ELSE io' = NoIo
      /\ UNCHANGED <<fat, helpers, chain, rd, dst>>

(* fs_seek_whence with a whence it does not know.                           *)
FsSeekUnknown ==
  /\ Idle
  /\ call' = [op |-> "seek", n |-> 0, file |-> file, status |-> -1]
  /\ UNCHANGED <<fat, helpers, chain, file, rd, sk, io, dst>>

(* fs_close_submit: the FILE is freed, the callback gets 0.                 *)
FsCloseSubmit ==
  /\ Idle
  /\ call' = [op |-> "close", n |-> 0, file |-> file, status |-> 0]
  /\ UNCHANGED <<fat, helpers, chain, file, rd, sk, io, dst>>

-----------------------------------------------------------------------------
(* fs_seek_step: one hop along the chain.  The FILE is written only when    *)
(* the last hop has been made.                                              *)
FsSeekStep(status) ==
  LET next == GetNextCluster(sk.current_cluster)
      left == sk.clusters_remaining - 1
      here == At(file, next, sk.target_offset)
  IN  /\ io.callback = "fs_seek_step" /\ (status # 0 \/ ReturnsFromFat)
      /\ \/ /\ status # 0 \/ EndOfChain(next)
            /\ SeekDone(file, rd, -1) /\ UNCHANGED file
         \/ /\ status = 0 /\ ~EndOfChain(next) /\ left = 0
            /\ file' = here /\ SeekDone(here, rd, 0)
         \/ /\ status = 0 /\ ~EndOfChain(next) /\ left # 0
            /\ sk' = [sk EXCEPT !.current_cluster = next, !.clusters_remaining = left]
            /\ FatRead /\ UNCHANGED <<file, rd, call>>
      /\ UNCHANGED <<fat, helpers, chain, dst>>

(* get_next_cluster does not return: nothing happens any more.              *)
FatHelperLost ==
  /\ io.callback = "fs_seek_step" /\ ~ReturnsFromFat
  /\ io' = NoIo /\ rd' = NoCtx /\ sk' = NoCtx
  /\ call' = [call EXCEPT !.status = Lost, !.op = "close"]
  /\ UNCHANGED <<fat, helpers, chain, file, dst>>

(* Mutant: the position in the sector is forgotten.                         *)
ChunkWhole(f, r) ==
  IF r.bytes_remaining >= SectorSize THEN SectorSize ELSE r.bytes_remaining

(* bytes_to_copy_in_sector.                                                 *)
Chunk(f, r) ==
  IF f.current_byte + r.bytes_remaining >= SectorSize
  THEN SectorSize - f.current_byte ELSE r.bytes_remaining

(* The bytes of the sector in SD_RX_RAM, by their place on the card.        *)
Bytes(lba, from, n) == [i \in 1 .. n |-> lba * SectorSize + from + i - 1]

(* fs_read_step in FSREAD_COPY_CONTENTS: after the last byte only           *)
(* current_byte moves on, otherwise a seek by the bytes copied follows.     *)
FsReadStep(status) ==
  LET n    == Chunk(file, rd)
      left == rd.bytes_remaining - n
  IN  /\ io.callback = "fs_read_step"
      /\ \/ status # 0 /\ Finish(1) /\ UNCHANGED <<file, dst>>
         \/ /\ status = 0
            /\ dst' = dst \o Bytes(io.lba, file.current_byte, n)
            /\ \/ /\ left = 0 /\ Finish(0)
                  /\ file' = [file EXCEPT !.current_byte = @ + n]
               \/ /\ left # 0
                  /\ Seek(file, [state |-> "LOAD_CONTENTS", bytes_remaining |-> left], n, "CUR")
      /\ UNCHANGED <<fat, helpers, chain>>

IoDone == \E status \in {0, 1} : FsSeekStep(status) \/ FsReadStep(status)

(* A file as fs_open leaves it.                                             *)
Opened(f) ==
  [first_cluster |-> f.chain[1], current_cluster |-> f.chain[1],
   current_sector |-> 0, current_byte |-> 0, file_offset |-> 0, file_size |-> f.size]

FatOf(ch) ==
  [c \in Cluster |->
     IF \E i \in 1 .. Len(ch) - 1 : ch[i] = c
     THEN ch[(CHOOSE i \in 1 .. Len(ch) - 1 : ch[i] = c) + 1]
     ELSE IF ch[Len(ch)] = c THEN EOC ELSE 0]

FileOpen(f) ==
  /\ FatInit
  /\ chain = f.chain /\ file = Opened(f) /\ fat = FatOf(f.chain)
  /\ rd = NoCtx /\ sk = NoCtx /\ io = NoIo /\ dst = <<>>
  /\ call = [op |-> "open", n |-> 0, file |-> file, status |-> 0]

FileInit == \E f \in Files : FileOpen(f)

Client ==
  \/ \E n \in Lengths : FsReadSubmit(n)
  \/ \E o \in Offsets, w \in {"SET", "CUR", "END"} : FsSeekWhence(o, w)
  \/ FsSeekUnknown
  \/ FsCloseSubmit

FileNext == Client \/ IoDone \/ FatHelperLost

(* The card answers every request; the caller is free to stop.              *)
FileSpec == FileInit /\ [][FileNext]_fvars /\ WF_fvars(IoDone) /\ WF_fvars(FatHelperLost)

-----------------------------------------------------------------------------
Done(op) == call.op = op /\ call.status = 0

ClusterOf(offset) == chain[SeekDecompose(offset).cluster_index + 1]

(* The place on the card of byte number offset of the file.                 *)
FileByte(offset) ==
  (ClusterToLba(ClusterOf(offset)) + SeekDecompose(offset).sector_in_cluster)
    * SectorSize + SeekDecompose(offset).byte_in_sector

InChain(offset) == offset \div ClusterSize < Len(chain)

(* The cluster and sector belong to file_offset, and the byte does too.     *)
InStep(f) ==
  /\ InChain(f.file_offset) /\ f.current_cluster = ClusterOf(f.file_offset)
  /\ f.current_sector = SeekDecompose(f.file_offset).sector_in_cluster

Coherent(f) == InStep(f) /\ f.current_byte = SeekDecompose(f.file_offset).byte_in_sector

(* A read from a coherent position that reports success has delivered the   *)
(* file's bytes from there on, in order, whatever sectors and clusters it    *)
(* crossed and however the seeks in between were answered (fs_read_step).    *)
ReadExact ==
  Done("read") /\ Coherent(call.file) =>
    /\ Len(dst) = call.n
    /\ \A i \in 1 .. call.n : LET o == call.file.file_offset + i - 1
                              IN  InChain(o) /\ dst[i] = FileByte(o)

(* After such a read the FILE is positioned for the next one: its cluster,  *)
(* its sector and its byte are those of the byte behind the last one read,  *)
(* so reads in a row deliver the file in a row (fs_read_step).              *)
ReadAdvances ==
  Done("read") /\ Coherent(call.file) =>
    LET part == file.file_offset - SeekDecompose(file.file_offset).byte_in_sector
    IN  InStep(file) /\ part + file.current_byte = call.file.file_offset + call.n

(* include/file.h: file_offset is the "absolute byte offset from start of   *)
(* file", so a read of n bytes moves it on by n.                            *)
OffsetAbsolute ==
  Done("read") /\ Coherent(call.file) => file.file_offset = call.file.file_offset + call.n

(* A seek from a later cluster back into the first one.                     *)
IntoFirst(f, target) == target < ClusterSize /\ f.file_offset >= ClusterSize

(* A seek that succeeds puts the file at the target, in the target's        *)
(* cluster, over any number of hops, forwards from the current cluster or   *)
(* backwards from the first; for a seek back into the first cluster itself  *)
(* see RightCluster (fs_seek_submit, fs_seek_step).                         *)
SeekLands ==
  Done("seek") /\ InStep(call.file) /\ ~IntoFirst(call.file, call.n) =>
    InChain(call.n) /\ file = At(call.file, ClusterOf(call.n), call.n)

(* fs_seek_submit, zero hops: "Already on the right cluster just update the *)
(* sub-cluster fields".                                                     *)
RightCluster ==
  Done("seek") /\ InStep(call.file) => file.current_cluster = ClusterOf(call.n)

(* A seek that fails, at once, at the end of the chain or on an I/O error,  *)
(* leaves the file where it was, for every caller (fs_seek_step writes the   *)
(* FILE last).                                                              *)
FailedSeekKeepsPlace ==
  call.op = "seek" /\ call.status \in {-1, Pending} => file = call.file

(* Every operation calls its caller back, however many sectors and FAT      *)
(* entries it needs, as long as the FAT helpers return.                     *)
CallsComplete == (call.status = Pending /\ ReturnsFromFat) ~> (call.status # Pending)
=============================================================================
