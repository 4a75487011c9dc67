------------------------------ MODULE MCFiles -------------------------------
(* The file system's clients, on a volume of two-sector clusters: fs_open.c  *)
(* looking a path up ("open"), a caller that reads and seeks in an open file  *)
(* ("read"), and fs_elf.c loading a program ("load").  A behaviour belongs to *)
(* one of them; they share the FAT and its helpers.                           *)
EXTENDS MCFsOpen, MCElfLoad

VARIABLE part

all == <<part, ovars, evars>>

(* A file of three clusters, one that fills its clusters, and one shorter on   *)
(* the card than its entry.                                                   *)
Plain == {Image(<<5, 3, 4>>, 36, 0, 0, <<>>), Image(<<4, 3>>, 32, 0, 0, <<>>),
          Image(<<4>>, 19, 0, 0, <<>>)}
AllFiles == Plain \cup Images
SeekOffsets == {-32, -4, 0, 16}

(* The part that is not under test is as it starts.                           *)
NoOpen ==
  LET d == CHOOSE d \in Layouts : TRUE
  IN  /\ disk = d.entries /\ chains = d.chain
      /\ request = [path |-> [absolute |-> TRUE, parts |-> <<>>], proc |-> 0]
      /\ ctx = [state |-> "free"] /\ parent = 0 /\ out = NoFile /\ told = "nothing"

NoLoader ==
  LET f == CHOOSE f \in Plain : TRUE
  IN  /\ image = f /\ chain = f.chain /\ file = Opened(f)
      /\ rd = NoCtx /\ sk = NoCtx /\ io = NoIo /\ dst = <<>>
      /\ call = [op |-> "open", n |-> 0, file |-> file, status |-> 0]
      /\ elf = [Cleared EXCEPT !.state = NoLoad]
      /\ ram = [r \in {} |-> 0] /\ regions = {} /\ pcb = [blocked |-> FALSE, text |-> 0, data |-> 0]

FilesInit ==
  \/ part = "open" /\ OpenInit /\ NoLoader
  \/ part = "read" /\ ElfInit /\ image \in Plain /\ NoOpen
  \/ part = "load" /\ ElfInit /\ image \in Images /\ NoOpen

Opens(A) == part = "open" /\ A /\ UNCHANGED <<part, chain, file, rd, sk, io, dst, call, image, elf, ram, regions, pcb>>
Reads(A) == part = "read" /\ A /\ UNCHANGED <<part, disk, chains, request, ctx, parent, out, told, image, elf, ram, regions, pcb>>
Loads(A) == part = "load" /\ A /\ UNCHANGED <<part, disk, chains, request, ctx, parent, out, told>>

FilesNext == Opens(OpenNext) \/ Reads(FileNext) \/ Loads(ElfNext)

(* The fairness of OpenSpec, FileSpec and ElfSpec.                            *)
FilesSpec ==
  /\ FilesInit /\ [][FilesNext]_all
  /\ WF_all(Opens(FsOpenStep))
  /\ WF_all(Reads(IoDone)) /\ WF_all(Reads(FatHelperLost))
  /\ WF_all(Loads(ElfStep)) /\ WF_all(Loads(ElfStepError)) /\ WF_all(Loads(Io))
=============================================================================
