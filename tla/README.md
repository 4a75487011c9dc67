# RiscyOS: models and proofs

RiscyOS is a small RV32 kernel in assembly and C: preemptive round-robin
processes in a base/limit MMU, a non-blocking FAT32 reader over an SPI SD card,
an ELF loader, a terminal, and the allocators all of these use, together with
the assembler the kernel is built with. This directory holds TLA+ modules of
its core, TLC configurations that check them on small instances, and TLAPS
proofs about them for every instance. Paths below are relative to `src/`.

The kernel has one CPU and one stack. A trap runs to its end with interrupts
off, so kernel code is never preempted by kernel code. Concurrency comes from
elsewhere: traps between any two user instructions, the SD card working in
parallel, and operations cut into callbacks that run at later timer ticks.
Several global structures survive from one trap to the next, and that is where
the hard cases are. The assembler is sequential; its hard part is that sizes
depend on labels and labels on sizes.

## Inventory

| Component | State | Operations | Correct when |
|---|---|---|---|
| block scheduler `kernel/io/io_scheduler.c`, `drivers/spi/sd_irsq.c` | request list, request in flight, busy flag, completion ring, SD state | submit, issue, interrupt, pump | each request is called back once, in order, with its own block; none is lost |
| kernel heap `kernel/memory/kmem.c` | headers inside the heap | kmalloc, kfree | blocks tile the heap; owners are never disturbed; free neighbours are merged |
| user memory `kernel/memory/umem_alloc.c`, `umem.s` | bitmap | ualloc, ufree, init | regions are disjoint, cover the request, and come back |
| slabs `kernel/slab_allocator.c`, `slab_def.s` | slab list, free lists, counts | init, get, free | an object is free or owned, never both; nothing in use is given back |
| scheduler and traps `kernel/scheduler.s`, `arch/riscv/*.s` | current_pcb, kidle, PCBs, CSRs, ticks | trap entry and exit, tick, schedule, context switch, block, unblock | a process continues where it stopped, isolated, and gets its turn |
| FAT helpers `fs.s` | FAT on the card | cluster to sector, next cluster | equal to a reference definition |
| file open `fs_open.c` | walk context, path position | submit, step, finish | finds the entry that the path names, or says that there is none; calls back once |
| file read, seek, close `fs_read.c`, `fs_seek.c`, `fs_close.c` | file position, contexts | submit, step, finish | delivers the bytes of the file at the position; seeks land; a failed seek moves nothing |
| ELF loader `fs_elf.c` | load context, segments | submit, step, finish | segments hold the file's bytes; every load ends and wakes its process; no region a process has is released under it |
| assembler, passes `tools/assembler/rva.c` | labels, sizes of items, position | a line of a pass, the end of a pass | sizes settle; the last pass moves nothing; emitted values are final |
| assembler, lines `tools/assembler/rva.c` | operator stack of an expression | evaluate, encode | expressions mean what they say; words decode to what was written; exactly what fits is accepted |
| processes `process.s`, `memory_segment.s` | PCB ring, pids, reference counts | fork, exit, execve, getpid | segments live while used; every child is reaped |
| terminal `tty.s`, `lib/fifo.s`, `io.s` | two FIFOs, request queues | receive, transmit, request | bytes in order, none lost before the queue is full, waiters woken |
| SD card `sd.s`, `spi.s` | chip select, SD_INFO | init, command, responses, read, write | chip select and state agree with the card on every error path |
| interrupt dispatch `external_interrupts.s` | pending bits | dispatch loop | the handler of each pending bit runs |
| MMU `mmu.s`, `HW-Peripherals/*.v` | base, limit, enable | set_proc, translation | a process reaches its own regions only |
| boot `boot.s` | all of the above | initialisation order | nothing is used before it is initialised, also after a reset |

Interactions: system calls, the timer and device interrupts enter through
`mhandler`; the timer calls `io_sched_pump` and every fourth tick `schedule`; the
pump runs the callbacks of the file system, which submit further requests,
allocate from the heap, the slabs and user memory, and wake processes; the SD
interrupt only posts a completion.

The hazards, each with its line and the properties aimed at it, are in
`PROJECT.json`.

## Modules

### Kernel

* **IoSched** is the block scheduler with the SD interrupt handler and the
  completion ring. The intrusive list is modelled with its pointers (`next`,
  `queue_head`, `queue_tail`) and request addresses are reused after `kfree`;
  `fifo` is a history of what was submitted. `cpu` says whether a process, the
  pump or a callback runs: a callback may submit. `CardDone` is the only step
  outside the CPU. `Faults` lists the ways `sd_start_read` may fail to start a
  transfer. **IoService** is the abstract service: outstanding requests complete
  in order, once, each with its own block.
* **KHeap** is `kmem.c` in 4-byte words: headers live in `mem` between payloads,
  and one loop turn of `kmalloc` or `kfree` is one step. `hdrs`, `owned` and
  `want` are history. **Allocator** is the abstract allocator: a set of disjoint
  regions; a request may fail only when no gap is large enough.
* **UBitmap** is `umem_alloc.c`, one bit of the search per step. **Arith** has the
  register arithmetic of `umem.s`, with the width as a parameter, and **Rounding** its
  `round_next_power_of_two`. **UMem** composes them: `ualloc` turns bytes into bits and
  runs UBitmap's search, `ufree` turns an address and a size back into a run of bits.
  The rounding is a parameter of UMem, `RoundUp`, which the runs set to Rounding's: the
  proofs use no more of it than `SizesAssumption` says. `ufree` is called for any region
  with the size that was asked for, as `memory_segment.s` and `process.s` do, and sizes
  beyond 2^30, which the loader may ask for, are among those asked for. History: `asked`
  is the size each owner asked for, and `suited` says whether every release so far was
  one that `ufree`'s arithmetic suits (a power of two of bytes at the first address).
  Bits behind the bitmap belong to data that is not modelled, so clearing them changes
  nothing in the model. RAM is scaled but keeps the shape the code relies on: user RAM
  starts at its own size, a power of two.
* **Slab** is the slab allocator for one kind of object; the list walks are
  modelled slab by slab and `kmalloc` may fail or return any free address.
* **Sched** covers traps, the tick, `schedule`, `context_switch`, `ecall_write` and
  the end of `boot`. A program is a loop of `Steps` instructions from address 0
  (where `_crt0` lies); registers and stack pointer are represented by the number
  of instructions behind them, tagged with their process, so that a mixed-up or
  stale value is visible. `context_switch` is translated register by register:
  on the way from one process to another `t0` holds `kidle`, not the old MEPC,
  when it is stored. A load ends well (`loaded`) or with an error (`failed`), and
  `elf_finish` unblocks the process either way: one that was never loaded runs from
  whatever its PCB holds, in what `mmu_set_proc` reads through NULL. Callbacks of the
  pump that go on with a load, or end one, overwrite `t0`. Faults, `ecall_read` (which
  loses its return address) and `ecall_exit` (which searches an orphan's parent for
  ever) hang the machine. The processes form a fixed ring, as `fork` links them.

### File system and loader

* **Fat** is the volume: sectors in clusters, clusters in chains. A byte of the
  card is named by its place, so that delivering the wrong byte is visible.
  `helpers` has two values. As written, `fat_calcualte_lba` starts a transfer
  behind the scheduler's back and `get_next_cluster` reloads its return address
  from the word that holds its argument, so no walk along the FAT comes back:
  `asWritten` is that. `contract` is what the callers expect (the FAT entry of
  the cluster), and lets the rest of the code be examined. The models have both;
  liveness is claimed for `contract` only.
* **FsFile** is `fs_read.c`, `fs_seek.c` and `fs_close.c` on one open file. `rd`
  and `sk` are the two contexts, `io` the sector read in progress and the callback
  it will call. A seek answers at once or after a walk, to the caller or to the
  read that needs it; a read that leaves a sector seeks by the bytes it copied.
  `call` and `dst` are what the caller asked for and has got. Every completion may
  be an I/O error, and a chain may be shorter than the size in the directory entry.
* **FsOpen** is `fs_open.c`: the path walk, the 8.3 names and the scan of a
  directory, sector by sector and cluster by cluster, with deleted, long-name and
  end-mark entries. The reference is a lookup in the directory as a whole: of all its
  places (cluster of the chain, sector, entry) the first that carries the name, unless
  an end mark comes before it (`Hits`, `LookUp`), and the entries that a sequence of
  names leads to (`Trail`, `Resolve`). `chain` is history: the clusters of each chain.
  Nothing looks at the attributes of an entry, so a path may lead through a file; the
  sectors of files are therefore given as entries too.
* **ElfLoad** is `fs_elf.c` composed with FsFile: every state of `elf_step` submits
  one of FsFile's operations and is called by its completion. A load is started by
  `kexecve`, for a new process that is blocked and has no regions, or by `ecall_execve`,
  for a process that runs on in the regions it has (that this call takes its path from
  a register of the process is not modelled: the open may fail). `ram` are the regions
  `ualloc` returned (history: what was loaded, from which position the seek came),
  `regions` the region structures. Bytes that are no program header read as one of
  `Garbage`. Nothing compares p_filesz with p_memsz, so a payload may be written past
  its region; where it lands is a choice of the model, over the regions there are.

### Assembler

* **RvPass** is what `rva.c` does with a source over its passes: labels, `EQU`, `ORG`,
  `ALIGN` with and without a fill value (a number here), `DEFS` without one, `RECORD`,
  `REC_ALIGN` and the record's elements, `IF`/`ELSE`/`FI`, and the instructions whose size
  depends on their operand. An operand that is left out is the default written out
  (`ALIGN` alone is `ALIGN 4`). One action is one line. Expressions have the form
  *constant + label - label*. `st.span` is history: the bytes a pass has advanced by,
  without the wrap of `assembly_pointer`.
* **RvLine** is one line: `evaluate` token by token on the operator stack, then
  **RvEncode**, the encoding of every mnemonic of the table, CSR, atomic and pseudo
  instructions included, by `rv32i_mnemonic`. **RvIsa** decodes words by the tables of the ISA
  manual and is what RvEncode is compared with; it models no code of this
  repository.

IoSched, KHeap, UMem and Slab do not know of each other. FsFile and FsOpen use the
scheduler as IoService describes it: one completion for each request, in order.

`MC*` modules supply the constants for TLC. MCMemory, MCFiles and MCAsm put components
that share no state, or only the FAT, into one run: a behaviour belongs to one of them
(`part`) and leaves the others as they start, so the run has the states of each and none
of their products. Definitions marked *Mutant* are
plausible mistakes in the definition they precede; `PROJECT.json` pairs each
property with one that violates it.

## Runs

| Run | Shows |
|---|---|
| io_sched | the list is the FIFO of outstanding requests, no freed request is reachable, transfers do not overlap, IoService is implemented, with failing starts; as long as starts succeed, every request is called back |
| memory | heap structure, owners, coalescing, Allocator implemented; slab list, free lists and counts exact, one spare slab, growth only when all slabs are full; complete first-fit search of the bitmap, whatever was released; and, until `ufree` is given a region its arithmetic does not suit, an exact bitmap and every byte of a region of up to 2^30 bytes in a block of its own |
| umem_free (violation) | a release that does not suit frees or keeps blocks of others |
| sched | a process runs with its own registers, unprivileged and only when ready; unless its load has failed, in its own memory and on its own stack; one resumed from idle continues exactly; every ready process gets its turn until the machine hangs |
| sched_pc (violation) | a process preempted by another one resumes at address 0 |
| files | the entry opened is the one the looked-up names lead to, the stored parent is its directory, not found is true; reads deliver the file's bytes across sectors and clusters and leave the file at the next byte; seeks land, failed seeks move nothing; installed segments are exact, headers are taken in order up to the first segment, no region of a process is released under it; opens, reads, seeks and loads end |
| fs_open_path (violation) | `/a/b` looks up `a` twice, so a file below a directory is not found |
| fs_offset (violation) | a read does not move `file_offset` to where it ends |
| fs_seek_back (violation) | a seek back into the first cluster stays in the later one |
| elf_headers (violation) | after a segment the next header does not come from the table |
| elf_failed (violation) | a new process whose load failed is ready without regions |
| asm | the last pass moves nothing, emitted values are final, code does not overlap, sizes settle before the assembler gives up; expressions agree with a reference evaluator, words decode to the instruction asked for, a line is refused exactly if it cannot be encoded; each with the exceptions named below |

The violations are disagreements between the code and its own comments or
documentation; `PROJECT.json` quotes both sides.

### Behaviour the properties make room for

The models follow the code where it departs from what one would expect, and the
properties say so in their statements instead of assuming it away.

* io: a failed start leaves the scheduler busy for ever (the premise of
  `CompletesUnlessStuck`). An interrupt without a transfer would make the pump call
  through NULL; IoSched raises it only for a transfer.
* `ufree` rounds the address instead of the size (`UfreeSafe` is violated): RegionsSafe and
  ExactWhileSuited hold up to the first release it does not suit, and nothing is claimed
  after it but FirstFit. A size above 2^30 rounds to a number that is negative or wraps
  to 0, and gets one block; RegionsSafe says nothing of that region. `logBaseTwo` is one
  too high, and the FAT sector of a cluster divides by the wrong number; neither is used
  in a run.
* `timer_interrupt` keeps the tick in `t0` across `io_sched_pump`, whose callbacks
  overwrite it, so a slice may be overrun (`Clobbers`). RUNNING is never written to
  PCB_STATUS, so a process that is alone ready is switched to itself and gets its
  old stack pointer and program counter (`PcIntact` is violated; `ExactThroughIdle` is
  what is left). A process whose load failed is scheduled like any other: Isolation
  promises of it only that it is unprivileged and not blocked. ReadyRuns ends when the
  machine hangs.
* open: a process finds 0 in `a0` for success and the FILE's address for failure
  (`Success`). The last component of a path is not converted (`NamesLookedUp`;
  `OpensNamedFile` is violated). A component is copied to an array of 13 characters
  without a bound; the model takes it whole and does not say what a longer one
  overwrites.
* seek: a backward seek into the first cluster makes no hop and keeps the cluster
  it came from (`RightCluster` is violated; SeekLands is about all other seeks). After a
  read, `current_byte` has moved on, possibly to the end of the sector, but `file_offset`
  has not (`OffsetAbsolute` is violated), so the next relative seek starts too early.
  ReadExact is about reads that start where `file_offset` says (`Coherent`): it shows
  nothing for a read right after another one, where ReadAdvances says what the position is.
* loader: nothing seeks back to the table after a segment, so the next header is
  read from behind the payload, or, when the payload ends with its sector, from inside
  its last part: the seek by 0 bytes with which the next read starts goes back to
  `file_offset` (`CurrentSegCounts` is violated; HeadersInOrder holds up to the first
  segment). SegmentsExact leaves out a segment whose seek kept a stale cluster
  (`Forward`) and images with a payload larger than its region (`NoOverrun`).
  `elf_validate_header` refuses nothing, since `false` is 1. A failed load gives back the
  region structures, not the memory behind them, and wakes a new process that has no
  regions (`ReadyHasRegions` is violated); PcbRegionsLive is about the regions a process
  does have.
* assembler: a `TAIL` within reach of JAL links x1, a `CALL` that got short after it
  was given two words keeps a first word without opcode, `J` to an odd address drops
  the bit. DecodeExact states that these three (`Wrong`), and no others, decode to
  something else; EmittedRight states the second, and RangeExact that `J` is accepted.
  `ELSE` complements the condition bit by bit; the first of two
  words advances the position also where `IF` is false; a bracket's marker is pushed
  without a test for the end of the stack (the model stops there); chains of `EQU` or
  `ORG` can use up all passes (`NoChains`), and so can more items than passes, the
  size of each depending on that of the next, since one of them settles in a pass
  (the sources of the run are shorter). NoOverlap is for sources without `ORG` whose
  code does not wrap around.

Seen in the code and outside the models: `ualloc_init` clears one word of the bitmap
and nothing resets `slab_defs`, so a reset without reloading the image starts from
the state of the last session; `lba_to_sector` subtracts from a register nobody
sets, but nothing calls it; `fs_open_finish` frees its context before it reads it
and a second time afterwards, harmless only as long as `kfree` leaves payloads
alone and nothing allocates in between.

### Bounds

* IoSched: three request addresses (one in flight, two queued, so head, tail and
  middle differ), two blocks, ring counters modulo 4.
* KHeap: 7 words and requests up to 3: three adjacent blocks, exact fits,
  remainders too small to split, merges on both sides.
* UMem: 4 blocks of 4 bytes (runs of 1, 2 and 4 bits), 8-bit registers; sizes below a
  block, between blocks, exact, the whole RAM, and one beyond what rounding can hold.
  For umem_free 8 blocks.
* Slab: 3 addresses, 2 objects per slab: a spare slab at the front, in the middle
  and at the end of the list.
* Sched: two processes, programs of 2 instructions, slices of 2 ticks, one callback
  that goes on with a load before the one that ends it. Two processes give all
  switches: to the other, to itself, to idle and back.
* FsFile: sectors of 8 bytes, two per cluster; files of one, two and three clusters,
  one that fills its clusters and one whose chain is shorter than its size; reads of
  0, 4 and 20 bytes (20 crosses sectors and a cluster from any position), seeks
  forward, back, before the start (which wraps) and behind the end, and with an unknown
  whence. Any sequence of operations.
* FsOpen: a root of two clusters, a subdirectory of one and three files, two sectors of
  one entry per cluster, arrangements of file, directory, deleted, long-name and
  end entries; paths with no part, one, two, a closing slash, and one through a file;
  names of 2 + 1 characters, in both cases, with characters FAT does not allow, too
  long, and empty.
* ElfLoad: sectors of 8 bytes, headers of 3 and 2 bytes; tables in front of the
  payload, across a sector border, behind it in another cluster and across the end;
  payloads over one and two sectors, none, and one larger than its region; zero, two and
  three headers; new and running processes.
* RvPass: sources of four lines, chosen so that items depend on each other's sizes in
  both directions; 6-bit words, ADDI reaching 8 values and JAL 16, seven passes with
  shrinking allowed in the first three.
* RvLine: 22-bit words, one bit more than JAL reaches; every mnemonic of the table
  (`EveryMnemonic`, evaluated by TLC) with operands at both ends of each field and one
  past it; all expressions of up to three tokens and families of up to eleven with every
  pair of operators, nested brackets and a stack of 11 entries that they fill.

### Fairness

IoSched's liveness (`CompletesUnlessStuck`, whose premise is that no start fails)
assumes that the card finishes a started transfer, that its interrupt is taken,
that ticks keep coming, and that the pump's loop goes on. FsFile, FsOpen and ElfLoad
assume what that establishes: each sector read is called back, with success or an
error; and, for ElfLoad, that a completed operation calls `elf_step`, which happens
in the same trap. Their premise `ReturnsFromFat` excludes the FAT helper that does
not return. Sched assumes that the kernel goes on, as nothing preempts it, and
strong fairness for the timer trap: `mtimecmp` keeps the interrupt pending until it
is taken, but the process may trap for other reasons in between. RvPass is one
sequential program that keeps running. KHeap, Slab, UMem and RvLine state no liveness.

## Proofs

Every safety property that a passing run checks of the kernel, invariant or action property,
is proved for every value of the constants, with both refinements (IoService and
Allocator), the use of UBitmap by UMem, and type correctness where a module states it.
Each `*Proofs` module proves one inductive invariant, or a tower of them, and derives
the properties from it.

* **IoSchedProofs.** QueueIsFifo, NoDanglingRequest, OneTransfer and WorkConserving
  are not inductive alone: that the popped request is the one whose block is in the
  buffer needs the list to be the FIFO, and that the list survives an append
  needs live requests to be distinct from the new one. `IInv` is their
  conjunction with the types. Assumptions: NULL is neither a request nor a block
  address, and counters have at least two values (with one, a pending completion
  would look like none).
* **KHeapProofs.** `IInv` adds that every header's block ends at the next header or at
  the end (`Cover`), and where the loop in progress stands relative to them (`Walk`):
  behind kfree's position no two neighbours are both free, except around it.
  Assumptions: the heap has at least one word, NULL is no word address.
* **UMemProofs.** For UBitmap, `IInv` adds to the properties what the search knows:
  `consecutive_zeros` free bits end at the current one, start at `start_bit`, and
  are fewer than asked for. Of these, what the search itself needs (`SearchInv`) survives
  any release, so UallocFirstFit holds unconditionally; that the bitmap is exact survives
  only releases that suit. For UMem, `UInv` is therefore SearchInv and, while `suited`,
  UBitmap's invariant with `Asks`: a run has the length that its owner's size gives.
  `BitsCover` shows that rounding up and dividing give enough blocks, `FreesTheRun` that
  a `ufree` that suits computes the run it was handed; so up to the first other release
  every step is one of UBitmap (`UsesBitmap`), and ExactWhileSuited and RegionsSafe follow.
  Assumptions: a size of up to 2^30 rounds up to a number of at least that size and below
  half the register range; the first address of RAM rounds to itself. Larger sizes may
  round to anything. TLC evaluates them with the code's rounding.
* **SlabProofs.** `IInv` gives every list a witness: the slab list and each free list
  are a sequence without repetition linked by the pointers (`ListOK`, `FreeOK`), a
  slab's count is the length of its list (`CountOK`), nobody owns an object of a slab
  that is gone (`OwnedLive`), and at most one slab is empty outside a call (`FewFull`).
  `Calls` and `Walks` say what a walk has established about the slabs behind it: none
  has an object left (slab_get); the empty slabs so far are counted and `free_target`
  is one of them, behind its predecessor (slab_free). Assumptions: the heap's addresses are finite, a slab has an object, NULL
  is neither slab nor object.
* **SchedProofs.** RegistersIntact and Isolation need each other and more: a saved
  trap frame, MSCRATCH and stack pointer are their process's (`FramesKept`, `Stacks`),
  what is in the CPU and the CSRs belongs to `current_pcb` or the idle task, by the part
  of the kernel that runs (`OnCpu`), and who is ready is loaded or its load has failed.
  A process that failed owns nothing the others rely on, so its steps disturb only
  itself. ExactThroughIdle adds
  what a PCB keeps of the program counter while only the idle task ran (`PcbKept`,
  `CpuExact`). That `schedule` finds the next ready process in any ring is a least-number
  argument. Assumption: the ring is not empty and repeats no process.
* **ElfLoadProofs**, for FsFile. SeekLands and FailedSeekKeepsPlace need that a caller's seek has
  the file to itself while it walks (no read context, the file as it was) and that the
  walk stands in the chain exactly `clusters_remaining` clusters before the target's
  (`OnTheWay`); `Hop` shows that one FAT entry keeps this, from `NextInChain`: the
  FAT written for a chain without repetition leads from each cluster to the next.
  ReadExact and ReadAdvances rest on a second invariant, `RInv`, on top of
  the first: what a read has copied so far are the file's bytes from where it began up
  to the place where it goes on, which is the position of the file or the target of the
  seek it waits for (`ReadingOf`). Assumptions: a chain is not empty and repeats no
  cluster, the end mark is above all cluster numbers, sectors and clusters are not
  empty. The size in the directory entry is arbitrary for seeks; for reads a file must
  end more than a sector below the largest offset (`FilesFit`): a read that leaves the
  last sector below 2^32 computes a target that wraps to offset 0.
* **ElfLoadProofs**, for ElfLoad. Three invariants, one on the other, above those of FsFile, since
  every step of the loader is a step of the file (`IsFileStep`). `EInv`: which operation
  each state of `elf_step` has under way, and who owns the region structures and the
  memory (`Owned`: until it ends, a load leaves the PCB's regions alone, those of a running
  process or none); from it PcbRegionsLive. `HInv`: up to the first segment the file
  stands at the header that `current_seg` counts, in the sector of the table; from it
  HeadersInOrder. `SInv`: as long as no payload is larger than its region (then a write behind a region
  changes nothing), every segment is exact but the one being filled, which is zero until
  its payload has come; from it SegmentsExact, under `FilesFit`. Assumptions: headers are not
  empty and fit a sector, as the 52 and 32 bytes of ELF do; an image has at least as
  many headers as it says, or none.
* **FsOpenProofs.** `OpenInv` says, of an open under way, which directory of the path's
  trail is scanned, that its first cluster is the one stored for the caller, at which
  cluster of its chain and which sector the scan stands, that the walker holds the name
  for this directory (`WalkerAt`), and that no entry passed so far ends the scan
  (`Passed`). The first stop in a sector is then the first of the directory
  (`StopAtEnd`, `StopAtHit`), and a chain passed to its end has no such name
  (`AllPassed`). Assumptions on the volume: the FAT links the clusters of each chain up
  to an end mark; entries of files and directories have a cluster of the volume or 0.
* **RvPassProofs.** No property of the last pass is inductive by itself: why a label does
  not move in it lies in the whole pass before. `AInv` therefore carries a record of that
  pass, a place (position, data pointer, IF stack, item number) for every line. `Repeats`
  says what the record promises of a line: if its operand can be evaluated with the labels
  as they are, its own label has the value it would be given, the line leads to the next
  place, and an item has the size it asks for, or may no longer shrink to it (`Settled`).
  `CleanSoFar`: as long as a pass has defined, moved and read nothing undefined, such a
  record exists for the lines read; then no label has changed its value (`View`), and
  earlier items keep their size as each line has an item of its own. `Follows`: the last
  pass, as long as it reports no error, stands at the place of the record for its line. So
  it evaluates the same operands, gives the labels the values they have and asks for no
  other size; LastPassStable and, with `Emitted`, EmittedRight follow. The first pass needs
  a case of its own: it forgives labels that do not exist, but if it is clean there are no
  labels at all. `Items` shows that `size_record_list` is never read past its end: it
  counts the items in front of each line. `Extent` gives NoOverlap: without ORG the
  position is the span modulo 2^32, and code lies below it in order. For each kind of
  line a lemma (`PlacedSteps`, `EquSteps`, `OrgSteps`, `AlignSteps`, `RecordSteps`) shows
  the three facts about it that the invariant needs: `Frames`, `CleanStep`, `LastStep`.
  Assumptions: a source is a finite sequence of lines of the kinds modelled, the word
  range is above 4, and the ranges of ADDI and JAL are any within it.

There is no induction rule with a predicate as parameter for the provers used here, but
the natural numbers are well-founded, and an argument by the least counterexample takes
its place: for the turn of the ring in Sched, and to show that the recursive function
`Trail` has a solution at all (`TrailSteps`).

Only model-checked: all liveness; RvLine, whose reference evaluator and decoder are
recursive operators, which the prover cannot read; SizesSettle of RvPass, which is no fact
about every source (sizes that grow one per pass, in a source with enough of them, reach
any MAX_PASSES) but one about the sources of the run; and that `round_next_power_of_two`,
which is bitwise, rounds up: UMem's proofs use the assumptions above instead.

## Not modelled

* Processes, terminal, SD card commands, dispatch, MMU translation and boot order:
  planned, below (of processes only what starts a load and what hangs is there). The second half of `ecall_exit` is out of reach: it loads
  `current_pcb` and dereferences it once more, so it goes on with a saved register of
  the process as PCB, and `ecall_wait` and `ecall_nanosleep` are empty.
* Of the assembler: command line options, `INCLUDE` (sources are given expanded),
  local labels, strings and `DEFB` data, the fill value of `DEFS`, fill values that name
  labels, symbol listings and output formats, and division by zero in a pass (in RvLine it is
  modelled). Text handling, that is, tokens, names and number bases, is abstracted to
  tokens.
* The converter `gas-to-jim`, the drivers of the LCD, the buttons and the hardware
  timer (nothing in the kernel calls them), `memutils` and delays, user programs, host
  tests.
* `ALIGN4` near 2^32, `ualloc(0)` (it returns 1) and `kfree(NULL)` change no state of the
  models. `sd_start_write` exists but is never called. `fat_init` only computes
  constants, which are parameters here.

## Plan

Done: IoSched, KHeap, UBitmap, UMem, Slab, Sched, FsFile, FsOpen, ElfLoad with proofs
of their safety properties, RvPass with proofs of all but SizesSettle, and RvLine, checked
by TLC.

1. A bound on the passes: with positions that depend on sizes alone (`NoChains`), a pass
   after SHRINK_STOP that is not clean is followed by one that grows an item, so
   MAX_PASSES is enough for a source with few items.
2. **Process**: pids, PCB ring, fork with its error paths, execve and segment
   reference counts; segments are released exactly when unused.
3. **Tty**: the FIFOs against an abstract bounded queue, request queues, echo,
   `ecall_read` and `ecall_write`.
4. **SdCard** (commands, responses, timeouts, chip select), **Dispatch** (pending
   interrupts and the table), **Mmu** (translation in `mmu.v` with `mmu_set_proc`),
   **BootOrder**.
