-------------------------------- MODULE Sched --------------------------------
(* Traps, the scheduler and the context switch: mhandler (arch/riscv/trap.s), *)
(* timer_interrupt (timer.s), schedule and schedule_next (kernel/             *)
(* scheduler.s), context_switch (arch/riscv/context_switch.s), the blocking   *)
(* write system call (kernel/io/io.s) and the end of boot (boot/boot.s).      *)
(* A program is a loop of Steps instructions; registers and stack pointer are *)
(* the number of instructions behind them, tagged with the process they       *)
(* belong to.  Traps run with interrupts off.                                 *)
EXTENDS Integers, Sequences

CONSTANTS Ring,        \* the PCBs in the order of PCB_NEXT, a circular list
          Steps,       \* bound: instructions of a program, address 0 first
          SliceMax,    \* TIME_SLICE_MAX
          Clobbers,    \* t0 does not survive the callbacks of io_sched_pump
          Callbacks,   \* bound: callbacks of the loads before their last ones
          Kernel       \* the kernel's stack, and the address of the idle task

Proc == {Ring[i] : i \in 1 .. Len(Ring)}
Pos  == 0 .. Steps - 1

ASSUME SchedAssumption ==
  /\ Steps \in Nat \ {0} /\ SliceMax \in Nat \ {0} /\ Clobbers \in BOOLEAN
  /\ Callbacks \in Nat
  /\ Ring \in Seq(Proc) /\ Len(Ring) > 0 /\ Kernel \notin Proc
  /\ \A i, j \in 1 .. Len(Ring) : Ring[i] = Ring[j] => i = j

VARIABLES mode,           \* "boot", "run", or the part of the kernel that runs
          current_pcb, kidle, system_ticks,
          status,         \* PCB_STATUS
          pcb,            \* PCB_MEPC, PCB_MSTATUS, PCB_MSCRATCH
          tf,             \* the trap frame in the PCB
          MEPC, MPP, MSCRATCH,
          pc, regs, sp,   \* the CPU
          mmu,            \* whose regions the MMU translates
          t0ok,           \* t0 still holds system_ticks
          loaded,         \* processes whose program elf_finish has installed
          failed,         \* processes that elf_finish has unblocked without one
          callbacks,      \* callbacks of the loads so far
          done,           \* history: instructions p has executed, modulo Steps
          exact           \* history: p was never switched out directly to a process

csrs    == <<MEPC, MPP, MSCRATCH>>
cpu     == <<pc, regs, sp>>
procs   == <<status, pcb, tf, loaded, failed>>
history == <<done, exact>>
vars    == <<mode, current_pcb, kidle, system_ticks, procs, csrs, cpu, mmu, t0ok, callbacks,
             history>>

Inc(n) == (n + 1) % Steps

Value == (Proc \cup {Kernel}) \X Pos
Modes == {"U", "S", "M"}

(* boot, up to its call of schedule: init is current and waits for its      *)
(* program.  PCB_MEPC, PCB_MSTATUS and PCB_MSCRATCH are not initialised     *)
(* (no process's stack is in the latter).                                   *)
Init ==
  /\ mode = "boot" /\ current_pcb = Ring[1] /\ kidle = FALSE /\ system_ticks = 0
  /\ status = [p \in Proc |-> "BLOCKED"] /\ loaded = {} /\ failed = {} /\ callbacks = 0
  /\ pcb \in [Proc -> [mepc : Pos, mstatus : {"U", "M"}, mscratch : {<<Kernel, 0>>}]]
  /\ tf = [p \in Proc |-> <<p, 0>>]
  /\ MEPC = 0 /\ MPP = "U" /\ MSCRATCH = <<Kernel, 0>>
  /\ pc = 0 /\ regs = <<Kernel, 0>> /\ sp = <<Kernel, 0>> /\ mmu = Kernel
  /\ t0ok = TRUE
  /\ done = [p \in Proc |-> 0] /\ exact = [p \in Proc |-> TRUE]

-----------------------------------------------------------------------------
(* The next k-th PCB after current_pcb.                                     *)
After(k) ==
  LET i == CHOOSE j \in 1 .. Len(Ring) : Ring[j] = current_pcb
  IN  Ring[((i - 1 + k) % Len(Ring)) + 1]

Ready(k) == status[After(k)] = "READY"

(* Mutant: the walk starts at the current process, so it is chosen again.   *)
ScheduleNextStays ==
  IF status[current_pcb] = "READY" THEN current_pcb
  ELSE LET ks == {k \in 1 .. Len(Ring) : Ready(k)}
       IN  IF ks # {} THEN After(CHOOSE k \in ks : \A j \in ks : k <= j) ELSE Kernel

(* schedule_next: the first READY process behind the current one, which is  *)
(* itself the last one looked at; then the current one if it is RUNNING.    *)
(* Kernel stands for NULL.                                                  *)
ScheduleNext ==
  LET ks == {k \in 1 .. Len(Ring) : Ready(k)}
  IN  IF ks # {} THEN After(CHOOSE k \in ks : \A j \in ks : k <= j)
      ELSE IF status[current_pcb] = "RUNNING" THEN current_pcb ELSE Kernel

(* The CSRs of p, with the previous-privilege bits cleared.                 *)
LoadCsrs(p) ==
  /\ MEPC' = pcb[p].mepc /\ MPP' = "U" /\ MSCRATCH' = pcb[p].mscratch

(* Mutant: the MMU is left as it was.                                       *)
SwitchToNoMmu(p) ==
  /\ current_pcb' = p
  /\ LoadCsrs(p)
  /\ IF kidle
     THEN kidle' = FALSE /\ UNCHANGED <<pcb, exact>>
     ELSE /\ pcb' = [pcb EXCEPT ![current_pcb] =
                       [mepc |-> 0, mstatus |-> MPP, mscratch |-> MSCRATCH]]
          /\ exact' = [exact EXCEPT ![current_pcb] = FALSE]
          /\ UNCHANGED kidle
  /\ UNCHANGED mmu

(* mmu_set_proc: Kernel stands for what is read through NULL regions.       *)
MmuSetProc(p) == mmu' = IF p \in loaded THEN p ELSE Kernel

(* context_switch to a process.  From idle nothing is stored.  From a       *)
(* process the old CSRs are stored after the new ones were loaded, and t0,  *)
(* which holds the old MEPC, has been overwritten by kidle, which is 0.     *)
SwitchTo(p) ==
  /\ current_pcb' = p /\ MmuSetProc(p)
  /\ LoadCsrs(p)
  /\ IF kidle
     THEN kidle' = FALSE /\ UNCHANGED <<pcb, exact>>
     ELSE /\ pcb' = [pcb EXCEPT ![current_pcb] =
                       [mepc |-> 0, mstatus |-> MPP, mscratch |-> MSCRATCH]]
          /\ exact' = [exact EXCEPT ![current_pcb] = FALSE]
          /\ UNCHANGED kidle

(* Mutant: the stack pointer of the outgoing process is not stored.         *)
SwitchToIdleNoStack ==
  /\ kidle' = TRUE
  /\ MEPC' = Kernel /\ MPP' = "S" /\ MSCRATCH' = <<Kernel, 0>>
  /\ pcb' = [pcb EXCEPT ![current_pcb] =
               [mepc |-> MEPC, mstatus |-> MPP, mscratch |-> pcb[current_pcb].mscratch]]
  /\ UNCHANGED <<current_pcb, mmu, exact>>

(* context_switch to the idle task: current_pcb stays.                      *)
SwitchToIdle ==
  /\ kidle' = TRUE
  /\ MEPC' = Kernel /\ MPP' = "S" /\ MSCRATCH' = <<Kernel, 0>>
  /\ pcb' = [pcb EXCEPT ![current_pcb] =
               [mepc |-> MEPC, mstatus |-> MPP, mscratch |-> MSCRATCH]]
  /\ UNCHANGED <<current_pcb, mmu, exact>>

(* schedule, given what schedule_next returned.                             *)
Schedule(next) ==
  IF next # Kernel THEN SwitchTo(next)
  ELSE IF kidle THEN UNCHANGED <<current_pcb, kidle, pcb, csrs, mmu, exact>>
  ELSE SwitchToIdle

-----------------------------------------------------------------------------
(* The call of schedule at the end of boot, the start of the timer and mret.*)
Boot ==
  /\ mode = "boot"
  /\ Schedule(ScheduleNext)
  /\ pc' = MEPC' /\ mode' = "run"
  /\ UNCHANGED <<system_ticks, status, tf, loaded, failed, regs, sp, t0ok,
                 callbacks, done>>

(* One instruction of the current process.                                  *)
UserStep ==
  /\ mode = "run" /\ ~kidle
  /\ pc' = Inc(pc) /\ regs' = <<regs[1], Inc(regs[2])>> /\ sp' = <<sp[1], Inc(sp[2])>>
  /\ done' = [done EXCEPT ![current_pcb] = Inc(@)]
  /\ UNCHANGED <<mode, current_pcb, kidle, system_ticks, procs, csrs, mmu, t0ok,
                 callbacks, exact>>

(* Mutant: the registers are saved while the kernel is idle, too.           *)
MhandlerSavesIdle(cause) ==
  /\ mode = "run" /\ (kidle => cause \notin {"ecall", "fault"})
  /\ tf' = [tf EXCEPT ![current_pcb] = regs]
  /\ sp' = MSCRATCH /\ MSCRATCH' = sp /\ MEPC' = pc
  /\ MPP' = IF kidle THEN "S" ELSE "U"
  /\ regs' = <<Kernel, 0>> /\ pc' = Kernel /\ mode' = cause
  /\ UNCHANGED <<current_pcb, kidle, system_ticks, status, pcb, loaded, failed, mmu, t0ok,
                 callbacks, history>>

(* A trap and mhandler up to the call of trap_handler.                      *)
Mhandler(cause) ==
  /\ mode = "run" /\ (kidle => cause \notin {"ecall", "fault"})
  /\ tf' = IF kidle THEN tf ELSE [tf EXCEPT ![current_pcb] = regs]
  /\ sp' = MSCRATCH /\ MSCRATCH' = sp /\ MEPC' = pc
  /\ MPP' = IF kidle THEN "S" ELSE "U"
  /\ regs' = <<Kernel, 0>> /\ pc' = Kernel /\ mode' = cause
  /\ UNCHANGED <<current_pcb, kidle, system_ticks, status, pcb, loaded, failed, mmu, t0ok,
                 callbacks, history>>

(* The end of mhandler and mret.                                            *)
Mret ==
  /\ mode = "exit"
  /\ regs' = IF kidle THEN regs ELSE tf[current_pcb]
  /\ sp' = MSCRATCH /\ MSCRATCH' = sp /\ pc' = MEPC /\ mode' = "run"
  /\ UNCHANGED <<current_pcb, kidle, system_ticks, procs, MEPC, MPP, mmu, t0ok,
                 callbacks, history>>

(* A write of p is over, or elf_finish ends p's load: it installs the       *)
(* program or, after an error, leaves the PCB as it is.  unblock_process in *)
(* any case.                                                                *)
Complete(p) ==
  /\ status[p] = "BLOCKED"
  /\ status' = [status EXCEPT ![p] = "READY"]
  /\ \/ p \in loaded \cup failed /\ UNCHANGED <<pcb, loaded, failed>>
     \/ /\ p \notin loaded \cup failed
        /\ loaded' = loaded \cup {p}
        /\ pcb' = [pcb EXCEPT ![p] = [@ EXCEPT !.mepc = 0, !.mscratch = <<p, 0>>]]
        /\ UNCHANGED failed
     \/ /\ p \notin loaded \cup failed
        /\ failed' = failed \cup {p}
        /\ UNCHANGED <<pcb, loaded>>
  /\ UNCHANGED tf

-----------------------------------------------------------------------------
(* timer_interrupt: the tick is counted and io_sched_pump is called.        *)
Timer ==
  /\ mode = "timer"
  /\ mode' = "pump" /\ t0ok' = TRUE
  /\ system_ticks' = (system_ticks + 1) % SliceMax
  /\ UNCHANGED <<current_pcb, kidle, procs, csrs, cpu, mmu, callbacks, history>>

(* A callback that starts the next request of a load.                       *)
PumpStep ==
  /\ mode = "pump" /\ callbacks < Callbacks /\ loaded \cup failed # Proc
  /\ callbacks' = callbacks + 1 /\ t0ok' = ~Clobbers
  /\ UNCHANGED <<mode, current_pcb, kidle, system_ticks, procs, csrs, cpu, mmu, history>>

(* A callback that ends a load.                                             *)
PumpCallback(p) ==
  /\ mode = "pump"
  /\ Complete(p)
  /\ t0ok' = ~Clobbers
  /\ UNCHANGED <<mode, current_pcb, kidle, system_ticks, csrs, cpu, mmu, callbacks,
                 history>>

(* t0 & (TIME_SLICE_MAX - 1) is zero: schedule is called.                   *)
TimerSchedule ==
  /\ mode = "pump" /\ (t0ok => system_ticks = 0)
  /\ Schedule(ScheduleNext)
  /\ mode' = "exit"
  /\ UNCHANGED <<system_ticks, status, tf, loaded, failed, cpu, t0ok, callbacks, done>>

TimerReturn ==
  /\ mode = "pump" /\ (t0ok => system_ticks # 0)
  /\ mode' = "exit"
  /\ UNCHANGED <<current_pcb, kidle, system_ticks, procs, csrs, cpu, mmu, t0ok,
                 callbacks, history>>

(* external_interrupt_handler: the writes that the devices have finished.   *)
External(p) ==
  /\ mode = "external"
  /\ Complete(p) /\ p \in loaded \cup failed
  /\ UNCHANGED <<mode, current_pcb, kidle, system_ticks, csrs, cpu, mmu, t0ok, callbacks,
                 history>>

ExternalReturn ==
  /\ mode = "external"
  /\ mode' = "exit"
  /\ UNCHANGED <<current_pcb, kidle, system_ticks, procs, csrs, cpu, mmu, t0ok,
                 callbacks, history>>

(* A system call that returns to its caller.  The ecall is one instruction; *)
(* its result in TF_A0 is part of what the registers are after it.          *)
EcallReturn ==
  /\ mode = "ecall"
  /\ MEPC' = Inc(MEPC) /\ MSCRATCH' = <<MSCRATCH[1], Inc(MSCRATCH[2])>>
  /\ tf' = [tf EXCEPT ![current_pcb] = <<@[1], Inc(@[2])>>]
  /\ done' = [done EXCEPT ![current_pcb] = Inc(@)]
  /\ mode' = "exit"
  /\ UNCHANGED <<current_pcb, kidle, system_ticks, status, pcb, loaded, failed, MPP,
                 cpu, mmu, t0ok, callbacks, exact>>

(* block_current_process.                                                   *)
Blocked == [status EXCEPT ![current_pcb] = "BLOCKED"]

(* ecall_write: MEPC is advanced, the process is blocked until the bytes    *)
(* are out (or, when there is nothing to write, is not), and schedule runs. *)
EcallWrite ==
  /\ mode = "ecall"
  /\ MEPC' = Inc(MEPC) /\ MSCRATCH' = <<MSCRATCH[1], Inc(MSCRATCH[2])>>
  /\ tf' = [tf EXCEPT ![current_pcb] = <<@[1], Inc(@[2])>>]
  /\ done' = [done EXCEPT ![current_pcb] = Inc(@)]
  /\ status' \in {Blocked, status}
  /\ mode' = "write"
  /\ UNCHANGED <<current_pcb, kidle, system_ticks, pcb, loaded, failed, MPP, cpu, mmu,
                 t0ok, callbacks, exact>>

WriteSchedule ==
  /\ mode = "write"
  /\ Schedule(ScheduleNext)
  /\ mode' = "exit"
  /\ UNCHANGED <<system_ticks, status, tf, loaded, failed, cpu, t0ok, callbacks, done>>

(* A system call that never returns: ecall_read overwrites its return       *)
(* address by a call (after it may have blocked the process), ecall_exit    *)
(* loops over an orphan.                                                    *)
EcallHang ==
  /\ mode = "ecall"
  /\ MEPC' = Inc(MEPC) /\ status' \in {Blocked, status}
  /\ mode' = "hung"
  /\ UNCHANGED <<current_pcb, kidle, system_ticks, pcb, tf, loaded, failed, MPP, MSCRATCH,
                 cpu, mmu, t0ok, callbacks, history>>

(* Every other exception of a process goes to ecall_x.                      *)
Fault ==
  /\ mode = "fault" /\ mode' = "hung"
  /\ UNCHANGED <<current_pcb, kidle, system_ticks, procs, csrs, cpu, mmu, t0ok,
                 callbacks, history>>

(* j . with interrupts off.                                                 *)
EcallX == mode = "hung" /\ UNCHANGED vars

-----------------------------------------------------------------------------
(* trap_handler's tables.                                                   *)
Causes == {"timer", "external", "ecall", "fault"}

KernelStep ==
  \/ Boot \/ Mret \/ Timer \/ PumpStep \/ TimerSchedule \/ TimerReturn
  \/ \E p \in Proc : PumpCallback(p) \/ External(p)
  \/ ExternalReturn \/ EcallReturn \/ EcallWrite \/ WriteSchedule
  \/ EcallHang \/ Fault \/ EcallX

Next == KernelStep \/ UserStep \/ \E cause \in Causes : Mhandler(cause)

Spec == Init /\ [][Next]_vars

(* The kernel runs on, and a timer interrupt stays pending until it is      *)
(* taken.                                                                   *)
FairSpec == Spec /\ WF_vars(KernelStep) /\ SF_vars(Mhandler("timer"))

-----------------------------------------------------------------------------
(* The values of the scheduler's globals, of the PCBs and of the CPU.       *)
TypeOK ==
  /\ mode \in {"boot", "run", "exit", "timer", "pump", "external", "ecall", "write",
              "fault", "hung"}
  /\ current_pcb \in Proc /\ kidle \in BOOLEAN /\ system_ticks \in 0 .. SliceMax - 1
  /\ status \in [Proc -> {"READY", "RUNNING", "BLOCKED"}]
  /\ pcb \in [Proc -> [mepc : Pos, mstatus : Modes, mscratch : Value]]
  /\ tf \in [Proc -> Value]
  /\ MEPC \in Pos \cup {Kernel} /\ MPP \in Modes /\ MSCRATCH \in Value
  /\ pc \in Pos \cup {Kernel} /\ regs \in Value /\ sp \in Value
  /\ mmu \in Proc \cup {Kernel} /\ t0ok \in BOOLEAN
  /\ loaded \subseteq Proc /\ failed \subseteq Proc \ loaded /\ callbacks \in 0 .. Callbacks
  /\ done \in [Proc -> Pos] /\ exact \in [Proc -> BOOLEAN]

InUser == mode = "run" /\ ~kidle

(* Whatever traps and switches happened, a process runs with exactly the    *)
(* registers it had when it was interrupted last.                           *)
RegistersIntact == InUser => regs = <<current_pcb, done[current_pcb]>>

(* A process runs unprivileged, not while it waits for I/O or for its       *)
(* program and, once that is installed, in its own memory and on its own    *)
(* stack; the idle task runs privileged, on the kernel's stack.             *)
Isolation ==
  mode = "run" =>
    /\ ~kidle => status[current_pcb] = "READY" /\ MPP = "U"
    /\ ~kidle /\ current_pcb \notin failed =>
         current_pcb \in loaded /\ mmu = current_pcb /\ sp[1] = current_pcb
    /\ kidle => MPP = "S" /\ sp[1] = Kernel /\ pc = Kernel

(* A process that was only ever switched out to the idle task continues     *)
(* where it stopped, with its stack pointer.                                *)
ExactThroughIdle ==
  InUser /\ current_pcb \in loaded /\ exact[current_pcb] =>
    pc = done[current_pcb] /\ sp = <<current_pcb, done[current_pcb]>>

(* Round robin: every process that is ready and not on the CPU runs         *)
(* eventually, unless a fault or a system call has hung the machine.        *)
ReadyRuns ==
  \A p \in Proc : (status[p] = "READY" /\ (kidle \/ current_pcb # p))
                    ~> ((InUser /\ current_pcb = p) \/ mode = "hung")

(* README.md: "Context switching swaps the mepc, mstatus, and register sets *)
(* stored directly in the Process Control Block": a process continues at    *)
(* the instruction where it stopped.                                        *)
PcIntact == InUser /\ current_pcb \in loaded => pc = done[current_pcb]
=============================================================================
