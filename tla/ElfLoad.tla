------------------------------ MODULE ElfLoad -------------------------------
(* Loading a program: kernel/fs/fs_elf.c, the client of FsFile.  Each         *)
(* completion of an open, a read, a seek or a close calls elf_step, which      *)
(* submits the next operation before it returns.                               *)
EXTENDS FsFile, FiniteSets

CONSTANTS EhdrSize, PhdrSize,   \* sizeof(Elf32_Ehdr), sizeof(Elf32_Phdr)
          Garbage,              \* what bytes that are no Phdr may read as
          StackAlign            \* 16

(* Elf32_Phdr, as far as the loader reads it.                                *)
Phdr ==
  [type : {"LOAD", "NOTE", "none"}, offset : 0 .. Mod - 1, filesz : Nat, memsz : Nat,
   exec : BOOLEAN, vaddr : Nat]

(* Headers fit in a sector (52 and 32 bytes); an image with a table has the  *)
(* entries it counts; whatever is read as a Phdr has the fields of one.      *)
ASSUME ElfAssumption ==
  /\ EhdrSize \in 1 .. SectorSize /\ PhdrSize \in 1 .. SectorSize /\ StackAlign \in Nat \ {0}
  /\ Garbage \subseteq Phdr
  /\ \A f \in Files :
       /\ f.phoff \in 0 .. Mod - 1 /\ f.phnum \in Nat /\ f.phdrs \in Seq(Phdr) /\ f.entry \in Nat
       /\ f.phdrs = <<>> \/ f.phnum <= Len(f.phdrs)

(* elf_state_t.  NoLoad is the time before elf_load_submit.                  *)
NoLoad == -1
ELF_OPENING == 0
ELF_READING_HEADER == 1
ELF_LOAD_PHEADER == 2
ELF_READ_PHEADER == 3
ELF_SEEK_PCONTENT == 4
ELF_LOAD_PCONTENT == 5
ELF_CLOSING == 6
ELF_DONE == 7
ELF_ERROR == 8

VARIABLES image,    \* ghost: the file on the card, its headers and its table
          elf,      \* elf_ctx_t
          ram,      \* the memory ualloc has handed out, by region
          regions,  \* the memory_region_t's that are allocated
          pcb       \* pcb_to_fill

evars == <<fvars, image, elf, ram, regions, pcb>>

NoPhdr == [type |-> "none", offset |-> 0, filesz |-> 0, memsz |-> 0, exec |-> FALSE, vaddr |-> 0]

Cleared ==
  [state |-> ELF_OPENING, phoff |-> 0, phnum |-> 0, pheader |-> NoPhdr, current_seg |-> 0,
   text |-> 0, data |-> 0, pdata_start |-> 0, heap_start |-> 0, mepc |-> 0, seg_buf |-> 0]

(* elf_load_submit: the context is cleared, the file is being opened.        *)
ElfLoadSubmit ==
  /\ elf.state = NoLoad
  /\ elf' = Cleared
  /\ UNCHANGED <<fvars, image, ram, regions>>

(* kexecve: a new process, which is blocked and has no memory.               *)
Kexecve == ElfLoadSubmit /\ pcb' = [pcb EXCEPT !.blocked = TRUE, !.text = 0, !.data = 0]

(* ecall_execve: the process goes on with the program it has meanwhile.      *)
EcallExecve == ElfLoadSubmit /\ UNCHANGED pcb

-----------------------------------------------------------------------------
(* Mutant: the process is not woken.                                         *)
ElfFailSilent ==
  /\ elf' = [elf EXCEPT !.state = ELF_ERROR]
  /\ regions' = regions \ {elf.text, elf.data} /\ UNCHANGED pcb

(* elf_finish after an error: the region structures are freed, the memory    *)
(* behind them is not; the process goes on with the program it had, if any.  *)
ElfFail ==
  /\ elf' = [elf EXCEPT !.state = ELF_ERROR]
  /\ regions' = regions \ {elf.text, elf.data}
  /\ pcb' = [pcb EXCEPT !.blocked = FALSE]

(* The program in elf, as elf_finish enters it in the PCB.  Without a text   *)
(* segment the stack pointer is computed from whatever lies at address 4.    *)
Installed ==
  [blocked |-> FALSE, text |-> elf.text, data |-> elf.data, brk |-> elf.heap_start,
   mepc |-> elf.mepc, pdata_start |-> elf.pdata_start,
   mscratch |-> IF elf.text = 0 THEN -1 ELSE elf.pdata_start + ram[elf.text].size]

(* Mutant: the PCB is edited before the old regions are released.            *)
ElfFinishReleasesNew ==
  /\ elf' = [elf EXCEPT !.state = ELF_DONE]
  /\ regions' = regions \ {Installed.text, Installed.data} /\ pcb' = Installed

(* elf_finish after the last segment; the old regions have no other user.    *)
ElfFinish ==
  /\ elf' = [elf EXCEPT !.state = ELF_DONE]
  /\ regions' = regions \ {pcb.text, pcb.data}
  /\ pcb' = Installed

(* Mutant: the next header is read before the count is compared.             *)
NextProgramHeaderLate(e) ==
  IF e.current_seg < e.phnum
  THEN /\ elf' = [e EXCEPT !.current_seg = @ + 1, !.state = ELF_READ_PHEADER]
       /\ FsReadSubmit(PhdrSize)
  ELSE elf' = [e EXCEPT !.state = ELF_CLOSING] /\ FsCloseSubmit

(* elf_read_next_program_header: read on from where the file is.  kfree of   *)
(* &ctx->file clears the lowest bit of the word before it, which is state.   *)
NextProgramHeader(e) ==
  LET seg == e.current_seg + 1
  IN  IF seg < e.phnum
      THEN /\ elf' = [e EXCEPT !.current_seg = seg, !.state = ELF_READ_PHEADER]
           /\ FsReadSubmit(PhdrSize)
      ELSE /\ elf' = [e EXCEPT !.current_seg = seg, !.state = ELF_CLOSING - (ELF_CLOSING % 2)]
           /\ FsCloseSubmit

-----------------------------------------------------------------------------
(* What the Phdr buffer says after a read: an entry of the table if its      *)
(* bytes were read, anything otherwise.                                      *)
PhdrBytes(k) == [i \in 1 .. PhdrSize |-> FileByte(image.phoff + (k - 1) * PhdrSize + i - 1)]

PhdrRead ==
  LET hits == {k \in DOMAIN image.phdrs : dst = PhdrBytes(k)}
  IN  IF hits = {} THEN Garbage ELSE {image.phdrs[k] : k \in hits}

Align(n) == ((n + StackAlign - 1) \div StackAlign) * StackAlign

(* A region in the image: text if it is executable, data otherwise.          *)
Placed(e, ph, r) ==
  IF ph.exec THEN [e EXCEPT !.text = r, !.mepc = image.entry]
  ELSE [e EXCEPT !.data = r, !.pdata_start = ph.vaddr, !.heap_start = Align(ph.vaddr + ph.memsz)]

(* ELF_READ_PHEADER with a PT_LOAD header: memory for the segment, zeroed,   *)
(* and a seek to its contents; kmalloc or ualloc may fail.                   *)
LoadSegment(ph) ==
  LET r == Cardinality(DOMAIN ram) + 1
  IN  \/ ElfFail /\ UNCHANGED <<fvars, ram>>
      \/ /\ ram' = [x \in DOMAIN ram \cup {r} |->
                     IF x = r THEN [size |-> ph.memsz, of |-> ph, from |-> file,
                                    bytes |-> [i \in 1 .. ph.memsz |-> 0]]
                     ELSE ram[x]]
         /\ regions' = regions \cup {r}
         /\ elf' = [Placed(elf, ph, r) EXCEPT !.pheader = ph, !.seg_buf = r, !.state = ELF_SEEK_PCONTENT]
         /\ FsSeekWhence(ph.offset, "SET")
         /\ UNCHANGED pcb

(* elf_step called with status 0, by state.                                  *)
Opening ==
  /\ elf.state = ELF_OPENING
  /\ elf' = [elf EXCEPT !.state = ELF_READING_HEADER] /\ FsReadSubmit(EhdrSize)
  /\ UNCHANGED <<ram, regions, pcb>>

(* elf_validate_header returns 1 for every header: types.h defines false as  *)
(* 1.  What the first bytes say is image's header.                           *)
ReadingHeader ==
  /\ elf.state = ELF_READING_HEADER
  /\ elf' = [elf EXCEPT !.state = ELF_LOAD_PHEADER, !.current_seg = 0,
                        !.phoff = image.phoff, !.phnum = image.phnum]
  /\ FsSeekWhence(image.phoff, "SET")
  /\ UNCHANGED <<ram, regions, pcb>>

(* Phdr[0] is read even if e_phnum is 0.                                     *)
LoadPheader ==
  /\ elf.state = ELF_LOAD_PHEADER
  /\ elf' = [elf EXCEPT !.state = ELF_READ_PHEADER] /\ FsReadSubmit(PhdrSize)
  /\ UNCHANGED <<ram, regions, pcb>>

ReadPheader ==
  /\ elf.state = ELF_READ_PHEADER
  /\ \E ph \in PhdrRead :
       \/ ph.type = "LOAD" /\ LoadSegment(ph)
       \/ /\ ph.type # "LOAD" /\ NextProgramHeader([elf EXCEPT !.pheader = ph])
          /\ UNCHANGED <<ram, regions, pcb>>

(* Mutant: p_memsz bytes are read.                                           *)
SeekPcontentWhole ==
  /\ elf.state = ELF_SEEK_PCONTENT
  /\ elf' = [elf EXCEPT !.state = ELF_LOAD_PCONTENT] /\ FsReadSubmit(elf.pheader.memsz)
  /\ UNCHANGED <<ram, regions, pcb>>

SeekPcontent ==
  /\ elf.state = ELF_SEEK_PCONTENT
  /\ elf' = [elf EXCEPT !.state = ELF_LOAD_PCONTENT] /\ FsReadSubmit(elf.pheader.filesz)
  /\ UNCHANGED <<ram, regions, pcb>>

(* What is in bytes once the payload from its byte d + 1 on is written over. *)
Overwritten(bytes, d) == [i \in DOMAIN bytes |-> IF d + i \in DOMAIN dst THEN dst[d + i] ELSE bytes[i]]

(* The payload is in the buffer; what lies behind it is still zero.  Nothing *)
(* compares p_filesz with p_memsz: what does not fit is written behind the   *)
(* region, where another one may lie, near or far.                           *)
LoadPcontent ==
  LET r == elf.seg_buf
  IN  /\ elf.state = ELF_LOAD_PCONTENT
      /\ \E behind \in (DOMAIN ram \ {r}) \cup {0}, d \in ram[r].size .. ram[r].size + Len(dst) :
           ram' = [x \in DOMAIN ram |->
                     IF x = r THEN [ram[x] EXCEPT !.bytes = Overwritten(@, 0)]
                     ELSE IF x = behind THEN [ram[x] EXCEPT !.bytes = Overwritten(@, d)]
                     ELSE ram[x]]
      /\ NextProgramHeader([elf EXCEPT !.seg_buf = 0])
      /\ UNCHANGED <<regions, pcb>>

Closing == elf.state = ELF_CLOSING /\ ElfFinish /\ UNCHANGED <<fvars, ram>>

Called == elf.state \in ELF_OPENING .. ELF_CLOSING /\ call.status \in {-1, 0, 1}

(* A completion with an error status; the open may report one too.           *)
ElfStepError ==
  /\ Called /\ (call.status # 0 \/ elf.state = ELF_OPENING)
  /\ ElfFail /\ UNCHANGED <<fvars, image, ram>>

ElfStep ==
  /\ Called /\ call.status = 0
  /\ \/ Opening \/ ReadingHeader \/ LoadPheader \/ ReadPheader
     \/ SeekPcontent \/ LoadPcontent \/ Closing
  /\ UNCHANGED image

Io == (IoDone \/ FatHelperLost) /\ UNCHANGED <<image, elf, ram, regions, pcb>>

(* Some process runs, in the regions -1 and -2.                              *)
ElfInit ==
  /\ \E f \in Files : image = f /\ FileOpen(f)
  /\ elf = [Cleared EXCEPT !.state = NoLoad]
  /\ ram = [r \in {} |-> 0] /\ regions = {-1, -2}
  /\ pcb = [blocked |-> FALSE, text |-> -1, data |-> -2, brk |-> 0, mepc |-> 0,
            pdata_start |-> 0, mscratch |-> 0]

ElfNext == Kexecve \/ EcallExecve \/ ElfStep \/ ElfStepError \/ Io

(* The card answers and callbacks are called.                                *)
ElfSpec == ElfInit /\ [][ElfNext]_evars /\ WF_evars(ElfStep) /\ WF_evars(ElfStepError) /\ WF_evars(Io)

-----------------------------------------------------------------------------
(* The seek to a segment was not a backward one into the first cluster.      *)
Forward(r) ==
  InStep(r.from) /\ (r.of.offset < ClusterSize => r.from.file_offset < ClusterSize)

(* No segment has more bytes in the file than in memory.                     *)
NoOverrun == \A r \in DOMAIN ram : ram[r].of.filesz <= ram[r].of.memsz

(* Each segment of a program that was installed holds the bytes of the file  *)
(* from p_offset on, p_filesz of them, and zeros up to p_memsz, over every    *)
(* sector and cluster border and whatever was loaded after it, unless a       *)
(* payload did not fit its region or the seek to it kept a stale cluster.     *)
SegmentsExact ==
  elf.state = ELF_DONE /\ NoOverrun =>
    \A r \in {pcb.text, pcb.data} \ {0} :
      Forward(ram[r]) =>
        \A i \in DOMAIN ram[r].bytes :
          ram[r].bytes[i] = IF i <= ram[r].of.filesz THEN FileByte(ram[r].of.offset + i - 1) ELSE 0

(* The table of program headers does not leave its sector.                   *)
TableInSector ==
  image.phdrs # <<>> /\
  image.phoff \div SectorSize = (image.phoff + Len(image.phdrs) * PhdrSize - 1) \div SectorSize

(* Up to the first segment the header in hand is the one that current_seg    *)
(* counts, and none is passed over (`it always equals the index of the Phdr   *)
(* we are about to read', elf_read_next_program_header).                      *)
HeadersInOrder ==
  TableInSector =>
    /\ elf.state \in {ELF_SEEK_PCONTENT, ELF_LOAD_PCONTENT} /\ Cardinality(DOMAIN ram) = 1 =>
         elf.current_seg < Len(image.phdrs) /\ elf.pheader = image.phdrs[elf.current_seg + 1]
    /\ elf.state \in {ELF_CLOSING, ELF_DONE} /\ DOMAIN ram = {} =>
         \A k \in DOMAIN image.phdrs : k <= image.phnum => image.phdrs[k].type # "LOAD"

(* elf_read_next_program_header: current_seg "is incremented first so it     *)
(* always equals the index of the Phdr we are about to read / have just       *)
(* finished with": a segment is loaded by the header that current_seg counts. *)
CurrentSegCounts ==
  TableInSector /\ elf.state \in {ELF_SEEK_PCONTENT, ELF_LOAD_PCONTENT} =>
    elf.current_seg < Len(image.phdrs) /\ elf.pheader = image.phdrs[elf.current_seg + 1]

LoadsText == \E r \in DOMAIN ram : ram[r].of.exec
LoadsData == \E r \in DOMAIN ram : ~ram[r].of.exec

(* Whatever fails, no region that the PCB names is released: the old ones     *)
(* stay after an error, the new ones are there after a load, which installs   *)
(* a text and a data region if the file has such segments (elf_finish).       *)
PcbRegionsLive ==
  /\ {pcb.text, pcb.data} \ {0} \subseteq regions
  /\ elf.state = ELF_DONE => (LoadsText => pcb.text # 0) /\ (LoadsData => pcb.data # 0)

(* docs/Decisions.md: the loader will "produce two memory segments (text and  *)
(* data)" and "After it is done it will `unblock' the process": a process     *)
(* that is not blocked has both.                                              *)
ReadyHasRegions == ~pcb.blocked => {pcb.text, pcb.data} \subseteq regions

(* Every load ends and wakes its process, with the new program or without.   *)
LoadEnds == (elf.state = ELF_OPENING /\ ReturnsFromFat) ~> (elf.state \in {ELF_DONE, ELF_ERROR} /\ ~pcb.blocked)
=============================================================================
