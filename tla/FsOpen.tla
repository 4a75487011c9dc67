------------------------------- MODULE FsOpen -------------------------------
(* Opening a file: kernel/fs/fs_open.c.  A path is walked component by       *)
(* component; each directory is scanned sector by sector along its cluster    *)
(* chain, one callback per sector read.                                       *)
EXTENDS Fat, SequencesExt

CONSTANTS Paths,             \* [absolute, parts]; a part is a sequence of characters
          Disks,             \* possible contents: [fat, entries: lba -> entries, chain]
          Root,              \* fs_running_info.ROOT_DIR_FIRST_CLUSTER
          Procs,             \* process ids that may open; 0 is `no process'
          Home(_),           \* parent_dir_cluster of a process
          NameLen, ExtLen    \* 8 and 3

(* A sector of a directory is a sequence of entries; so is one of a file     *)
(* that a path uses as a directory, since nothing looks at the attributes.    *)
Entry == [kind : {"file", "dir", "deleted", "lfn", "end"},
          name : Seq(STRING) \X Seq(STRING), cluster : Nat, size : Nat]

(* The entry of an empty file has cluster 0.                                 *)
ClusterOrNone == Cluster \cup {0}

(* A part of a path is a sequence of characters.  Of the volume: the FAT      *)
(* links the clusters of each chain, up to an end mark.                       *)
ASSUME OpenAssumption ==
  /\ \A p \in Paths : p.absolute \in BOOLEAN /\ p.parts \in Seq(Seq(STRING))
  /\ Root \in ClusterOrNone /\ \A p \in Procs \ {0} : Home(p) \in ClusterOrNone
  /\ \A d \in Disks, c \in ClusterOrNone :
       /\ \A s \in 0 .. SectorsPerCluster - 1 : d.entries[ClusterToLba(c) + s] \in
            Seq({e \in Entry : e.kind \in {"file", "dir"} => e.cluster \in ClusterOrNone})
       /\ d.chain[c] \in Seq(ClusterOrNone) /\ Len(d.chain[c]) > 0 /\ d.chain[c][1] = c
       /\ \A k \in 1 .. Len(d.chain[c]) :
            IF k < Len(d.chain[c])
            THEN d.fat[d.chain[c][k]] = d.chain[c][k + 1] /\ d.chain[c][k + 1] \in Cluster
            ELSE EndOfChain(d.fat[d.chain[c][k]])

VARIABLES disk,    \* lba -> the directory entries in the sector
          chains,  \* ghost: the clusters of the chain that starts at a cluster
          request, \* the caller's arguments: [path, proc]
          ctx,     \* fs_open_ctx_t
          parent,  \* *parent_cluster_storage
          out,     \* *out_file, or NoFile
          told     \* what the caller was told: a status or a register

ovars == <<fat, helpers, disk, chains, request, ctx, parent, out, told>>

NoFile == [first_cluster |-> 0, file_size |-> 0]

-----------------------------------------------------------------------------
Lower == <<"a", "b">>
Upper == <<"A", "B">>

(* toupper.                                                                 *)
ToUpper(c) == IF \E i \in DOMAIN Lower : Lower[i] = c
              THEN Upper[CHOOSE i \in DOMAIN Lower : Lower[i] = c] ELSE c

(* fat_valid_char: one character stands for those of the switch.            *)
FatValidChar(c) == c # "*"

Blank == <<<<>>, <<>>>>
Cut(s, n) == [i \in 1 .. IF Len(s) < n THEN Len(s) ELSE n |-> ToUpper(s[i])]

(* The dot that separates the extension: the search starts at the second    *)
(* character.                                                               *)
Dot(s) == SelectInSeq([i \in 1 .. Len(s) |-> IF i = 1 THEN "-" ELSE s[i]], LAMBDA c : c = ".")

(* make_fat_83_name: folded, cut and padded; blank if a character is not    *)
(* allowed.  Nobody looks at its result.                                    *)
MakeFat83Name(s) ==
  LET d == Dot(s)
  IN  IF \E i \in 1 .. Len(s) : i # d /\ ~FatValidChar(s[i]) THEN Blank
      ELSE IF d = 0 THEN <<Cut(s, NameLen), <<>>>>
      ELSE <<Cut(SubSeq(s, 1, d - 1), NameLen), Cut(SubSeq(s, d + 1, Len(s)), ExtLen)>>

(* path_walker_advance with get_next_path_component, on a path_walker_t:    *)
(* the parts not yet taken, whether there is a next one (offset >= 0) and   *)
(* the 8.3 name to look for.  After the last part, and behind a closing     *)
(* slash, component_83 is left as it was.  A part is taken whole: the code  *)
(* writes it to component[13] without a bound, and what a longer part would *)
(* overwrite behind that array is not modelled.                             *)
Advance(w) ==
  IF w.rest \in {<<>>, << <<>> >>} THEN [w EXCEPT !.more = FALSE]
  ELSE IF Tail(w.rest) = <<>> THEN [w EXCEPT !.rest = <<>>, !.more = FALSE]
  ELSE [rest |-> Tail(w.rest), more |-> TRUE, component_83 |-> MakeFat83Name(Head(w.rest))]

(* Before any I/O the first part is converted even if it is the last.       *)
FirstName(parts) ==
  MakeFat83Name(IF parts \in {<<>>, << <<>> >>} THEN <<>> ELSE Head(parts))

-----------------------------------------------------------------------------
(* set_initial_dir.                                                         *)
InitialDir(path, proc) == IF path.absolute \/ proc = 0 THEN Root ELSE Home(proc)

Scan(w, c, sector) ==
  [state |-> "PARSE_DIR_SECTOR", walker |-> w, current_cluster |-> c,
   sector_in_cluster |-> sector, current_lba |-> ClusterToLba(c) + sector]

(* fs_open_submit_with_dir_parent and fs_open_submit.                       *)
FsOpenSubmit(path, proc) ==
  LET c == InitialDir(path, proc)
      w == Advance([rest |-> path.parts, more |-> TRUE, component_83 |-> Blank])
  IN  /\ ctx.state = "free"
      /\ request' = [path |-> path, proc |-> proc]
      /\ parent' = c
      /\ ctx' = Scan([w EXCEPT !.component_83 = FirstName(path.parts)], c, 0)
      /\ UNCHANGED <<fat, helpers, disk, chains, out, told>>

(* fs_open_finish.  A process finds its answer in a0: `ok ? out_file : 0'   *)
(* with ok = 0 for success.                                                 *)
FsOpenFinish(state) ==
  LET ok == IF state = "DONE" THEN 0 ELSE -1
  IN  /\ ctx' = [ctx EXCEPT !.state = state]
      /\ told' = IF request.proc # 0 THEN (IF ok # 0 THEN "a0 = out_file" ELSE "a0 = 0")
                 ELSE (IF ok = 0 THEN "status 0" ELSE "status -1")

(* Mutant: a deleted entry still matches.                                   *)
StopsAtDeleted(e, name) == e.kind = "end" \/ (e.kind # "lfn" /\ e.name = name)

(* The entry of the sector that ends the scan of it: the end mark or a      *)
(* match.  Deleted and long-name entries are passed over.                   *)
Stops(e, name) == e.kind = "end" \/ (e.kind \in {"file", "dir"} /\ e.name = name)

(* Mutant: the directory's cluster is not stored for the caller.            *)
DescendKeepsParent(e) ==
  /\ ctx' = Scan(Advance(ctx.walker), e.cluster, 0) /\ UNCHANGED <<parent, out, told>>

(* A directory component: go on with the next one in its cluster.           *)
Descend(e) ==
  /\ ctx' = Scan(Advance(ctx.walker), e.cluster, 0)
  /\ parent' = e.cluster
  /\ UNCHANGED <<out, told>>

Found(e) ==
  /\ out' = [first_cluster |-> e.cluster, file_size |-> e.size]
  /\ FsOpenFinish("DONE") /\ UNCHANGED parent

(* Mutants: the last sector of a cluster is not read; the sector number is  *)
(* not incremented.                                                         *)
NextSectorSkips ==
  IF ctx.sector_in_cluster + 2 >= SectorsPerCluster
  THEN ctx' = [ctx EXCEPT !.state = "PROCESS_FAT"]
  ELSE ctx' = Scan(ctx.walker, ctx.current_cluster, ctx.sector_in_cluster + 1)
NextSectorStays == ctx' = Scan(ctx.walker, ctx.current_cluster, ctx.sector_in_cluster)

(* No match in the sector: the next one, or the FAT.                        *)
NextSector ==
  IF ctx.sector_in_cluster + 1 >= SectorsPerCluster
  THEN ctx' = [ctx EXCEPT !.state = "PROCESS_FAT"]
  ELSE ctx' = Scan(ctx.walker, ctx.current_cluster, ctx.sector_in_cluster + 1)

(* fs_open_step in FSOPEN_PARSE_DIR_SECTOR.                                 *)
ParseDirSector ==
  LET es == disk[ctx.current_lba]
      i  == SelectInSeq(es, LAMBDA e : Stops(e, ctx.walker.component_83))
  IN  /\ ctx.state = "PARSE_DIR_SECTOR"
      /\ \/ i = 0 /\ NextSector /\ UNCHANGED <<parent, out, told>>
         \/ i # 0 /\ es[i].kind = "end" /\ FsOpenFinish("NOT_FOUND") /\ UNCHANGED <<parent, out>>
         \/ i # 0 /\ es[i].kind # "end" /\ ~ctx.walker.more /\ Found(es[i])
         \/ i # 0 /\ es[i].kind # "end" /\ ctx.walker.more /\ Descend(es[i])
      /\ UNCHANGED <<fat, helpers, disk, chains, request>>

(* fs_open_step in FSOPEN_PROCESS_FAT.                                      *)
ProcessFat ==
  LET next == GetNextCluster(ctx.current_cluster)
  IN  /\ ctx.state = "PROCESS_FAT" /\ ReturnsFromFat
      /\ IF EndOfChain(next) THEN FsOpenFinish("NOT_FOUND")
         ELSE ctx' = Scan(ctx.walker, next, 0) /\ UNCHANGED told
      /\ UNCHANGED <<fat, helpers, disk, chains, request, parent, out>>

OpenHelperLost ==
  /\ ctx.state = "PROCESS_FAT" /\ ~ReturnsFromFat
  /\ ctx' = [ctx EXCEPT !.state = "lost"]
  /\ UNCHANGED <<fat, helpers, disk, chains, request, parent, out, told>>

(* fs_open_step with an error status.                                       *)
IoError ==
  /\ ctx.state \in {"PARSE_DIR_SECTOR", "PROCESS_FAT"} /\ FsOpenFinish("ERROR")
  /\ UNCHANGED <<fat, helpers, disk, chains, request, parent, out>>

OpenInit ==
  /\ FatInit
  /\ \E d \in Disks : fat = d.fat /\ disk = d.entries /\ chains = d.chain
  /\ request = [path |-> [absolute |-> TRUE, parts |-> <<>>], proc |-> 0]
  /\ ctx = [state |-> "free"] /\ parent = 0 /\ out = NoFile /\ told = "nothing"

FsOpenStep == ParseDirSector \/ ProcessFat
OpenNext == (\E p \in Paths, i \in Procs : FsOpenSubmit(p, i))
            \/ FsOpenStep \/ OpenHelperLost \/ IoError

(* The card answers every request.                                          *)
OpenSpec == OpenInit /\ [][OpenNext]_ovars /\ WF_ovars(FsOpenStep)

-----------------------------------------------------------------------------
(* What a lookup means: of the entries of a directory, in the order of its   *)
(* clusters and sectors, the first that carries the name, unless an end mark *)
(* comes before it.  A place is a cluster of the chain, a sector, an entry.  *)
Sector(c, k, s) == disk[ClusterToLba(chains[c][k]) + s]

Places(c) ==
  UNION {{<<k, s, n>> : n \in 1 .. Len(Sector(c, k, s))} :
         k \in 1 .. Len(chains[c]), s \in 0 .. SectorsPerCluster - 1}

EntryAt(c, p) == Sector(c, p[1], p[2])[p[3]]

Before(p, q) ==
  \/ p[1] < q[1]
  \/ p[1] = q[1] /\ p[2] < q[2]
  \/ p[1] = q[1] /\ p[2] = q[2] /\ p[3] < q[3]

Carries(e, name) == e.kind \in {"file", "dir"} /\ e.name = name

Hits(c, name) ==
  {p \in Places(c) :
     /\ Carries(EntryAt(c, p), name)
     /\ \A q \in Places(c) : Before(q, p) =>
          ~Carries(EntryAt(c, q), name) /\ EntryAt(c, q).kind # "end"}

NoEntry == [kind |-> "none", name |-> Blank, cluster |-> 0, size |-> 0]

LookUp(c, name) ==
  IF Hits(c, name) = {} THEN NoEntry ELSE EntryAt(c, CHOOSE p \in Hits(c, name) : TRUE)

(* The entries that a sequence of names leads to from a directory.          *)
Trail(dir, names) ==
  LET t[k \in 0 .. Len(names)] ==
        IF k = 0 THEN [NoEntry EXCEPT !.kind = "dir", !.cluster = dir]
        ELSE IF t[k - 1] = NoEntry THEN NoEntry ELSE LookUp(t[k - 1].cluster, names[k])
  IN  t

Resolve(dir, names) == Trail(dir, names)[Len(names)]

Names(parts) == [i \in 1 .. Len(parts) |-> MakeFat83Name(parts[i])]

(* The names fs_open looks up: for more than one part, the name of the last *)
(* directory is looked up again in place of the last part.                  *)
NamesLookedUp(parts) ==
  IF Len(parts) < 2 THEN <<FirstName(parts)>>
  ELSE Names(Front(parts)) \o <<MakeFat83Name(Last(Front(parts)))>>

Start == InitialDir(request.path, request.proc)

(* A caller with a callback is told 0 for success; a process, as it stands, *)
(* finds 0 in a0 for success and the FILE for failure.                      *)
Success == told \in {"status 0", "a0 = 0"}

(* An open that succeeds has filled the FILE from the entry that the names   *)
(* fs_open looks up lead to, through every sector and cluster of every       *)
(* directory on the way; the end mark hides what is behind it.               *)
OpenFindsEntry ==
  Success => LET e == Resolve(Start, NamesLookedUp(request.path.parts))
             IN  e # NoEntry /\ out = [first_cluster |-> e.cluster, file_size |-> e.size]

(* The cluster stored for the caller is that of the directory in which the   *)
(* file was found, the first of its chain (elf_load_submit keeps it as the   *)
(* process's directory).                                                     *)
ParentIsDirectory ==
  Success => LET names == NamesLookedUp(request.path.parts)
             IN  parent = Trail(Start, names)[Len(names) - 1].cluster

(* Only a name that is not there is reported as not found.                  *)
NotFoundIsTrue ==
  ctx.state = "NOT_FOUND" => Resolve(Start, NamesLookedUp(request.path.parts)) = NoEntry

(* Every open reports to its caller.                                        *)
OpenCompletes == (ctx.state = "PARSE_DIR_SECTOR" /\ ReturnsFromFat) ~> (told # "nothing")

(* The header's example: a path through directories opens the file that its  *)
(* last part names, if it is there.                                          *)
OpensNamedFile ==
  ctx.state = "NOT_FOUND" /\ request.path.parts # <<>> =>
    Resolve(Start, Names(request.path.parts)) = NoEntry
=============================================================================
