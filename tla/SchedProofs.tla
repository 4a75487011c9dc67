----------------------------- MODULE SchedProofs -----------------------------
(* What traps and context switches keep for every process, for any number of *)
(* processes, programs of any length and time slices of any size.            *)
EXTENDS Sched, TLAPS, WellFoundedInduction

K0 == <<Kernel, 0>>

(* The kernel runs, and has not hung.                                        *)
InKernel == mode \notin {"boot", "run", "hung"}

(* The registers of a process are in its trap frame, unless it runs.         *)
FramesKept ==
  /\ \A p \in Proc : ~(InUser /\ p = current_pcb) => tf[p] = <<p, done[p]>>
  /\ InUser => regs = <<current_pcb, done[current_pcb]>>

(* Where the two stack pointers are, and what mret will return to.           *)
Stacks ==
  /\ mode = "boot" => ~kidle /\ loaded = {} /\ failed = {} /\ sp = K0 /\ MSCRATCH = K0 /\ MEPC = 0
  /\ mode = "run" =>
       /\ MSCRATCH = K0
       /\ kidle => MPP = "S" /\ sp = K0 /\ pc = Kernel
       /\ ~kidle => MPP = "U" /\ pc \in Pos
       /\ ~kidle /\ current_pcb \in loaded => sp[1] = current_pcb
  /\ InKernel =>
       /\ sp = K0
       /\ kidle => MPP = "S" /\ MSCRATCH = K0 /\ MEPC = Kernel
       /\ ~kidle => MPP = "U" /\ MEPC \in Pos
       /\ ~kidle /\ current_pcb \in loaded => MSCRATCH[1] = current_pcb

(* Who may have the CPU.                                                     *)
OnCpu ==
  /\ mode # "boot" /\ ~kidle =>
       /\ current_pcb \in loaded \cup failed
       /\ current_pcb \in loaded => mmu = current_pcb
       /\ mode \notin {"write", "hung"} => status[current_pcb] = "READY"
  /\ mode \in {"ecall", "write"} => ~kidle
  /\ \A p \in Proc : status[p] # "RUNNING" /\ (status[p] = "READY" => p \in loaded \cup failed)

(* What is kept in the PCB of a process that has its program; who still      *)
(* waits for one has not run.                                                *)
PcbKept ==
  /\ \A p \in loaded : pcb[p].mscratch[1] = p
  /\ \A p \in Proc \ (loaded \cup failed) : done[p] = 0
  /\ \A p \in loaded :
       exact[p] /\ (kidle \/ p # current_pcb) =>
         pcb[p].mepc = done[p] /\ pcb[p].mscratch = <<p, done[p]>>

(* The program counter and the stack pointer of the process on the CPU.      *)
CpuExact ==
  mode # "boot" /\ ~kidle /\ current_pcb \in loaded /\ exact[current_pcb] =>
    /\ mode = "run" => pc = done[current_pcb] /\ sp = <<current_pcb, done[current_pcb]>>
    /\ InKernel => MEPC = done[current_pcb] /\ MSCRATCH = <<current_pcb, done[current_pcb]>>

(* The inductive invariant.                                                  *)
IInv == TypeOK /\ FramesKept /\ Stacks /\ OnCpu /\ PcbKept /\ CpuExact

-----------------------------------------------------------------------------
(* Every set of numbers has a least one.                                     *)
LEMMA LeastNumber ==
  ASSUME NEW T \in SUBSET Nat, T # {}
  PROVE  \E m \in T : \A n \in T : m <= n
<1> DEFINE R == {ss \in Nat \X Nat : ss[1] < ss[2]}
<1>1. IsWellFoundedOn(R, Nat)
  BY NatLessThanWellFounded DEF OpToRel
<1>2. \A n, m \in Nat : n < m => <<n, m>> \in R
  OBVIOUS
<1> HIDE DEF R
<1>3. PICK m \in T : \A n \in T : ~(<<n, m>> \in R)
  BY <1>1, WFMin
<1>4. \A n \in T : ~(n < m)
  BY <1>2, <1>3
<1> QED BY <1>3, <1>4

(* The next instruction's address is a position again.                       *)
LEMMA IncType ==
  ASSUME NEW n \in Pos
  PROVE  Inc(n) \in Pos
BY SchedAssumption DEF Inc, Pos

(* The ring leads from a process to processes.                               *)
LEMMA AfterType ==
  ASSUME current_pcb \in Proc, NEW k \in Nat
  PROVE  After(k) \in Proc
<1> DEFINE i == CHOOSE j \in 1 .. Len(Ring) : Ring[j] = current_pcb
<1>1. Len(Ring) \in Nat /\ Len(Ring) > 0
  BY SchedAssumption
<1>2. i \in 1 .. Len(Ring)
  BY DEF Proc
<1>3. After(k) = Ring[((i - 1 + k) % Len(Ring)) + 1]
  BY DEF After
<1> HIDE DEF i
<1>4. ((i - 1 + k) % Len(Ring)) + 1 \in 1 .. Len(Ring)
  <2>1. i - 1 + k \in Int
    BY <1>2
  <2>2. (i - 1 + k) % Len(Ring) \in 0 .. Len(Ring) - 1
    BY <1>1, <2>1
  <2> QED BY <1>1, <2>2
<1> QED BY <1>3, <1>4 DEF Proc

(* schedule_next answers with a ready process, or with none.                 *)
LEMMA NextIsReady ==
  ASSUME TypeOK, OnCpu
  PROVE  \/ ScheduleNext = Kernel
         \/ ScheduleNext \in Proc /\ status[ScheduleNext] = "READY"
<1> DEFINE ks == {k \in 1 .. Len(Ring) : Ready(k)}
<1>1. CASE ks = {}
  <2>1. status[current_pcb] # "RUNNING"
    BY DEF TypeOK, OnCpu
  <2> QED BY <1>1, <2>1 DEF ScheduleNext
<1>2. CASE ks # {}
  <2> DEFINE k == CHOOSE k \in ks : \A j \in ks : k <= j
  <2>1. ks \in SUBSET Nat
    OBVIOUS
  <2>2. \E m \in ks : \A n \in ks : m <= n
    BY <1>2, <2>1, LeastNumber
  <2>3. k \in ks
    BY <2>2
  <2>4. ScheduleNext = After(k)
    BY <1>2 DEF ScheduleNext
  <2> HIDE DEF k
  <2>5. After(k) \in Proc /\ status[After(k)] = "READY"
    BY <2>3, AfterType DEF TypeOK, Ready
  <2> QED BY <2>4, <2>5
<1> QED BY <1>1, <1>2

-----------------------------------------------------------------------------
USE DEF csrs, cpu, procs, history

(* The values that boot starts from.                                         *)
LEMMA ZeroIsPos == 0 \in Pos /\ K0 \in Value
BY SchedAssumption DEF Pos, Value, K0

(* Before boot has called schedule nothing is loaded.                        *)
LEMMA InitIInv == Init => IInv
<1> SUFFICES ASSUME Init PROVE IInv
  OBVIOUS
<1>1. Ring[1] \in Proc
  BY SchedAssumption DEF Proc
<1>2. 0 \in Pos /\ K0 \in Value /\ 0 \in 0 .. SliceMax - 1 /\ \A p \in Proc : <<p, 0>> \in Value
  BY ZeroIsPos, SchedAssumption DEF Value
<1>3. TypeOK
  <2>1. pcb \in [Proc -> [mepc : Pos, mstatus : {"U", "M"}, mscratch : {K0}]]
    BY DEF Init, K0
  <2>2. pcb \in [Proc -> [mepc : Pos, mstatus : Modes, mscratch : Value]]
    BY <1>2, <2>1 DEF Modes
  <2>3. callbacks \in 0 .. Callbacks
    BY SchedAssumption DEF Init
  <2> QED BY <1>1, <1>2, <2>2, <2>3 DEF Init, TypeOK, K0, Modes
<1> QED BY <1>3 DEF Init, IInv, FramesKept, Stacks, OnCpu, PcbKept, CpuExact, InUser, InKernel, K0

(* boot finds nothing to run and becomes the idle task.                      *)
LEMMA BootIInv == IInv /\ Boot => IInv'
<1> SUFFICES ASSUME IInv, Boot PROVE IInv'
  OBVIOUS
<1>1. mode = "boot" /\ ~kidle /\ loaded = {} /\ failed = {} /\ sp = K0 /\ MSCRATCH = K0 /\ MEPC = 0
  BY DEF IInv, Boot, Stacks
<1>2. ScheduleNext = Kernel
  <2>1. \A p \in Proc : status[p] # "READY"
    BY <1>1 DEF IInv, OnCpu
  <2> QED BY <2>1, NextIsReady DEF IInv
<1>3. SwitchToIdle
  BY <1>1, <1>2 DEF Boot, Schedule
<1>4. /\ mode' = "run" /\ kidle' = TRUE /\ MEPC' = Kernel /\ MPP' = "S" /\ MSCRATCH' = K0 /\ pc' = Kernel
      /\ pcb' = [pcb EXCEPT ![current_pcb] = [mepc |-> 0, mstatus |-> MPP, mscratch |-> K0]]
      /\ UNCHANGED <<current_pcb, mmu, exact, system_ticks, status, tf, loaded, failed, callbacks, regs, sp, t0ok, done>>
  BY <1>1, <1>3 DEF SwitchToIdle, Boot, K0
<1>5. TypeOK'
  BY <1>4, ZeroIsPos DEF IInv, TypeOK, Modes
<1>6. FramesKept' /\ Stacks'
  BY <1>1, <1>4 DEF IInv, FramesKept, Stacks, InUser, InKernel
<1>7. OnCpu' /\ PcbKept' /\ CpuExact'
  BY <1>1, <1>4 DEF IInv, OnCpu, PcbKept, CpuExact
<1> QED BY <1>5, <1>6, <1>7 DEF IInv

(* One instruction.                                                          *)
LEMMA UserStepIInv == IInv /\ UserStep => IInv'
<1> SUFFICES ASSUME IInv, UserStep PROVE IInv'
  OBVIOUS
<1> DEFINE p == current_pcb
<1>1. /\ mode = "run" /\ ~kidle /\ p \in Proc /\ p \in loaded \cup failed /\ pc \in Pos
      /\ (p \in loaded => sp[1] = p)
      /\ regs = <<p, done[p]>> /\ done[p] \in Pos /\ done \in [Proc -> Pos] /\ MSCRATCH = K0 /\ MPP = "U"
      /\ sp \in Value /\ (p \in loaded /\ exact[p] => pc = done[p] /\ sp = <<p, done[p]>>)
  <2>1. mode = "run" /\ ~kidle /\ p \in Proc /\ done \in [Proc -> Pos] /\ sp \in Value
    BY DEF IInv, UserStep, TypeOK
  <2>2. (p \in loaded => sp[1] = p) /\ pc \in Pos /\ MSCRATCH = K0 /\ MPP = "U"
    BY <2>1 DEF IInv, Stacks
  <2>3. p \in loaded \cup failed /\ regs = <<p, done[p]>> /\ (p \in loaded /\ exact[p] => pc = done[p] /\ sp = <<p, done[p]>>)
    BY <2>1 DEF IInv, OnCpu, FramesKept, CpuExact, InUser
  <2> QED BY <2>1, <2>2, <2>3
<1>2. /\ pc' = Inc(pc) /\ regs' = <<p, Inc(done[p])>> /\ sp' = <<sp[1], Inc(sp[2])>>
      /\ done' = [done EXCEPT ![p] = Inc(done[p])]
      /\ UNCHANGED <<mode, current_pcb, kidle, system_ticks, procs, csrs, mmu, t0ok, callbacks, exact>>
  BY <1>1 DEF UserStep
<1>3. Inc(pc) \in Pos /\ Inc(done[p]) \in Pos /\ sp[2] \in Pos /\ Inc(sp[2]) \in Pos /\ sp[1] \in Proc \cup {Kernel}
  BY <1>1, IncType DEF Value
<1>4. done'[p] = Inc(done[p]) /\ \A q \in Proc \ {p} : done'[q] = done[q]
  BY <1>1, <1>2
<1>5. TypeOK'
  <2>1. regs' \in Value /\ sp' \in Value /\ done' \in [Proc -> Pos]
    BY <1>1, <1>2, <1>3 DEF Value
  <2>2. TypeOK
    BY DEF IInv
  <2> QED BY <1>2, <1>3, <2>1, <2>2 DEF TypeOK
<1>6. FramesKept' /\ Stacks'
  BY <1>1, <1>2, <1>3, <1>4 DEF IInv, FramesKept, Stacks, InUser, InKernel
<1>7. OnCpu' /\ PcbKept'
  BY <1>1, <1>2, <1>4 DEF IInv, OnCpu, PcbKept, TypeOK
<1>8. CpuExact'
  BY <1>1, <1>2, <1>4 DEF CpuExact, InKernel
<1> QED BY <1>5, <1>6, <1>7, <1>8 DEF IInv

(* A trap stores the registers of the process it interrupts, and no others.  *)
LEMMA MhandlerIInv == ASSUME IInv, NEW cause \in Causes, Mhandler(cause) PROVE IInv'
<1>1. /\ mode = "run" /\ (kidle => cause \notin {"ecall", "fault"}) /\ cause \in {"timer", "external", "ecall", "fault"}
      /\ sp' = MSCRATCH /\ MSCRATCH' = sp /\ MEPC' = pc /\ MPP' = (IF kidle THEN "S" ELSE "U")
      /\ regs' = K0 /\ pc' = Kernel /\ mode' = cause
      /\ tf' = (IF kidle THEN tf ELSE [tf EXCEPT ![current_pcb] = regs])
      /\ UNCHANGED <<current_pcb, kidle, system_ticks, status, pcb, loaded, failed, callbacks, mmu, t0ok, done, exact>>
  BY DEF Mhandler, Causes, K0
<1>2. /\ MSCRATCH = K0 /\ current_pcb \in Proc
      /\ kidle => sp = K0 /\ pc = Kernel
      /\ ~kidle => (current_pcb \in loaded => sp[1] = current_pcb) /\ pc \in Pos /\ regs = <<current_pcb, done[current_pcb]>>
  BY <1>1 DEF IInv, Stacks, FramesKept, InUser, TypeOK
<1>3. TypeOK'
  BY <1>1, <1>2, ZeroIsPos DEF IInv, TypeOK, Modes
<1>4. FramesKept'
  BY <1>1, <1>2 DEF IInv, FramesKept, InUser, TypeOK
<1>5. Stacks'
  BY <1>1, <1>2 DEF Stacks, InKernel
<1>6. OnCpu' /\ PcbKept'
  BY <1>1 DEF IInv, OnCpu, PcbKept
<1>7. CpuExact'
  BY <1>1, <1>2 DEF IInv, CpuExact, InKernel
<1> QED BY <1>3, <1>4, <1>5, <1>6, <1>7 DEF IInv

(* The return from a trap gives them back.                                   *)
LEMMA MretIInv == IInv /\ Mret => IInv'
<1> SUFFICES ASSUME IInv, Mret PROVE IInv'
  OBVIOUS
<1>1. /\ mode = "exit" /\ mode' = "run"
      /\ regs' = (IF kidle THEN regs ELSE tf[current_pcb])
      /\ sp' = MSCRATCH /\ MSCRATCH' = sp /\ pc' = MEPC
      /\ UNCHANGED <<current_pcb, kidle, system_ticks, procs, MEPC, MPP, mmu, t0ok, callbacks, done, exact>>
  BY DEF Mret
<1>2. /\ sp = K0 /\ current_pcb \in Proc
      /\ kidle => MPP = "S" /\ MSCRATCH = K0 /\ MEPC = Kernel
      /\ ~kidle => MPP = "U" /\ (current_pcb \in loaded => MSCRATCH[1] = current_pcb) /\ MEPC \in Pos
      /\ tf[current_pcb] = <<current_pcb, done[current_pcb]>>
  BY <1>1 DEF IInv, Stacks, FramesKept, InUser, InKernel, TypeOK
<1>3. TypeOK'
  BY <1>1, <1>2 DEF IInv, TypeOK
<1>4. FramesKept'
  BY <1>1, <1>2 DEF IInv, FramesKept, InUser
<1>5. Stacks'
  BY <1>1, <1>2 DEF Stacks, InKernel
<1>6. OnCpu' /\ PcbKept'
  BY <1>1 DEF IInv, OnCpu, PcbKept
<1>7. CpuExact'
  BY <1>1, <1>2 DEF IInv, CpuExact, InKernel
<1> QED BY <1>3, <1>4, <1>5, <1>6, <1>7 DEF IInv

-----------------------------------------------------------------------------
(* A completion makes a process ready and, when its load has succeeded,      *)
(* fills in its PCB.                                                         *)
LEMMA CompleteIInv ==
  ASSUME IInv, mode \in {"pump", "external"}, mode' = mode, NEW p \in Proc, Complete(p),
         t0ok' \in BOOLEAN, UNCHANGED <<current_pcb, kidle, system_ticks, csrs, cpu, mmu, callbacks, history>>
  PROVE  IInv'
<1> DEFINE new == p \notin loaded /\ p \in loaded'
<1>1. /\ status[p] = "BLOCKED" /\ status' = [status EXCEPT ![p] = "READY"] /\ tf' = tf
      /\ loaded \subseteq loaded' /\ loaded' \subseteq loaded \cup {p}
      /\ failed \subseteq failed' /\ failed' \subseteq failed \cup {p}
      /\ p \in loaded' \cup failed'
      /\ failed' # failed => p \notin loaded'
      /\ ~new => pcb' = pcb
      /\ new => /\ p \notin failed' /\ p \notin failed
                /\ pcb' = [pcb EXCEPT ![p] = [@ EXCEPT !.mepc = 0, !.mscratch = <<p, 0>>]]
  BY DEF Complete
<1>2. /\ TypeOK /\ mode # "boot" /\ mode # "run" /\ mode # "hung" /\ mode # "write" /\ mode # "ecall"
      /\ status \in [Proc -> {"READY", "RUNNING", "BLOCKED"}]
      /\ pcb \in [Proc -> [mepc : Pos, mstatus : Modes, mscratch : Value]]
  BY DEF IInv, TypeOK
<1> HIDE DEF new
<1> DEFINE r == [pcb[p] EXCEPT !.mepc = 0, !.mscratch = <<p, 0>>]
<1>a. /\ r \in [mepc : Pos, mstatus : Modes, mscratch : Value]
      /\ r.mepc = 0 /\ r.mscratch = <<p, 0>>
  <2>1. pcb[p] \in [mepc : Pos, mstatus : Modes, mscratch : Value]
    BY <1>2
  <2>2. <<p, 0>> \in Value
    BY ZeroIsPos DEF Value
  <2> QED BY <2>1, <2>2, ZeroIsPos
<1>b. new => pcb' = [pcb EXCEPT ![p] = r]
  BY <1>1, <1>2
<1> HIDE DEF r
<1>3. new => pcb'[p].mepc = 0 /\ pcb'[p].mscratch = <<p, 0>> /\ done[p] = 0
  <2>1. new => done[p] = 0
    BY <1>1 DEF IInv, PcbKept, new
  <2> QED BY <1>2, <1>a, <1>b, <2>1
<1>4. \A q \in Proc : pcb'[q] = pcb[q] \/ (q = p /\ new)
  BY <1>1, <1>2, <1>b
<1>5. TypeOK'
  <2>1. status' \in [Proc -> {"READY", "RUNNING", "BLOCKED"}]
    BY <1>1, <1>2 DEF TypeOK
  <2>3. loaded' \subseteq Proc /\ failed' \subseteq Proc \ loaded'
    <3>1. loaded \subseteq Proc /\ failed \subseteq Proc \ loaded
      BY <1>2 DEF TypeOK
    <3> QED BY <1>1, <3>1 DEF new
  <2>2. pcb' \in [Proc -> [mepc : Pos, mstatus : Modes, mscratch : Value]]
    BY <1>1, <1>2, <1>a, <1>b
  <2> QED BY <1>1, <1>2, <2>1, <2>2, <2>3 DEF TypeOK
<1>6. FramesKept' /\ Stacks'
  <2>1. ~kidle => (current_pcb \in loaded' => current_pcb \in loaded)
    BY <1>1, <1>2 DEF IInv, OnCpu, TypeOK
  <2> QED BY <1>1, <1>2, <2>1 DEF IInv, FramesKept, Stacks, InUser, InKernel
<1>7. OnCpu'
  <2>1. ~kidle => current_pcb \in loaded \cup failed /\ current_pcb # p
    BY <1>1, <1>2 DEF IInv, OnCpu
  <2> QED BY <1>1, <1>2, <2>1 DEF IInv, OnCpu
<1>8. PcbKept'
  <2>1. loaded \subseteq Proc /\ loaded' \subseteq Proc /\ \A q \in loaded' : q \in loaded \/ (q = p /\ new)
    BY <1>1, <1>2 DEF TypeOK, new
  <2>2. \A q \in loaded : q = p => ~new
    BY DEF new
  <2> QED BY <1>1, <1>3, <1>4, <2>1, <2>2 DEF IInv, PcbKept
<1>9. CpuExact'
  <2>1. ~kidle => (current_pcb \in loaded' => current_pcb \in loaded)
    BY <1>1, <1>2 DEF IInv, OnCpu, TypeOK
  <2> QED BY <1>2, <2>1 DEF IInv, CpuExact, InKernel
<1> QED BY <1>5, <1>6, <1>7, <1>8, <1>9 DEF IInv

(* The steps that only go on to the next part of the kernel.                 *)
LEMMA PassOnIInv ==
  ASSUME IInv, InKernel, mode \notin {"write", "ecall"}, mode' \in {"pump", "exit"},
         t0ok' \in BOOLEAN, system_ticks' \in 0 .. SliceMax - 1, callbacks' \in 0 .. Callbacks,
         UNCHANGED <<current_pcb, kidle, procs, csrs, cpu, mmu, history>>
  PROVE  IInv'
BY DEF IInv, TypeOK, FramesKept, Stacks, OnCpu, PcbKept, CpuExact, InUser, InKernel

(* A machine that hangs keeps the trap frames.                               *)
LEMMA HangIInv ==
  ASSUME IInv, mode \in {"ecall", "fault"}, mode' = "hung",
         MEPC' \in Pos \cup {Kernel}, status' \in {Blocked, status},
         UNCHANGED <<current_pcb, kidle, system_ticks, pcb, tf, loaded, failed, MPP, MSCRATCH,
                     cpu, mmu, t0ok, callbacks, history>>
  PROVE  IInv'
<1>1. TypeOK /\ current_pcb \in Proc /\ status \in [Proc -> {"READY", "RUNNING", "BLOCKED"}]
  BY DEF IInv, TypeOK
<1>2. /\ status' \in [Proc -> {"READY", "RUNNING", "BLOCKED"}]
      /\ \A q \in Proc : status'[q] = status[q] \/ status'[q] = "BLOCKED"
  BY <1>1 DEF Blocked
<1>3. TypeOK'
  BY <1>1, <1>2 DEF TypeOK
<1>4. FramesKept' /\ Stacks' /\ PcbKept' /\ CpuExact'
  BY DEF IInv, FramesKept, Stacks, PcbKept, CpuExact, InUser, InKernel
<1>5. OnCpu'
  BY <1>2 DEF IInv, OnCpu
<1> QED BY <1>3, <1>4, <1>5 DEF IInv

(* A system call is one instruction of its caller.                           *)
LEMMA EcallIInv ==
  ASSUME IInv, mode = "ecall",
         MEPC' = Inc(MEPC), MSCRATCH' = <<MSCRATCH[1], Inc(MSCRATCH[2])>>,
         tf' = [tf EXCEPT ![current_pcb] = <<@[1], Inc(@[2])>>],
         done' = [done EXCEPT ![current_pcb] = Inc(@)],
         UNCHANGED <<current_pcb, kidle, system_ticks, pcb, loaded, failed, MPP, cpu, mmu, t0ok, callbacks, exact>>,
         \/ mode' = "exit" /\ status' = status
         \/ mode' = "write" /\ status' \in {Blocked, status}
  PROVE  IInv'
<1> DEFINE p == current_pcb
<1>1. /\ TypeOK /\ ~kidle /\ p \in Proc /\ p \in loaded \cup failed /\ MPP = "U" /\ sp = K0 /\ MEPC \in Pos
      /\ (p \in loaded => MSCRATCH[1] = p /\ mmu = p)
      /\ tf[p] = <<p, done[p]>> /\ (p \in loaded /\ exact[p] => MEPC = done[p] /\ MSCRATCH = <<p, done[p]>>)
      /\ status[p] = "READY"
  <2>1. TypeOK /\ ~kidle /\ p \in Proc
    BY DEF IInv, OnCpu, TypeOK
  <2>2. MPP = "U" /\ sp = K0 /\ (p \in loaded => MSCRATCH[1] = p) /\ MEPC \in Pos
    BY <2>1 DEF IInv, Stacks, InKernel
  <2>3. p \in loaded \cup failed /\ status[p] = "READY" /\ (p \in loaded => mmu = p) /\ tf[p] = <<p, done[p]>>
    BY <2>1 DEF IInv, OnCpu, FramesKept, InUser
  <2>4. p \in loaded /\ exact[p] => MEPC = done[p] /\ MSCRATCH = <<p, done[p]>>
    BY <2>1 DEF IInv, CpuExact, InKernel
  <2> QED BY <2>1, <2>2, <2>3, <2>4
<1>2. done \in [Proc -> Pos] /\ tf \in [Proc -> Value] /\ MSCRATCH \in Value /\ done[p] \in Pos
  BY <1>1 DEF TypeOK
<1>3. Inc(MEPC) \in Pos /\ Inc(done[p]) \in Pos /\ MSCRATCH[2] \in Pos /\ Inc(MSCRATCH[2]) \in Pos
      /\ MSCRATCH[1] \in Proc \cup {Kernel}
  BY <1>1, <1>2, IncType DEF Value
<1>4. /\ tf'[p] = <<p, Inc(done[p])>> /\ done'[p] = Inc(done[p])
      /\ \A q \in Proc \ {p} : done'[q] = done[q] /\ tf'[q] = tf[q]
  BY <1>1, <1>2
<1>5. /\ p \in loaded => MSCRATCH' = <<p, Inc(MSCRATCH[2])>>
      /\ p \in loaded /\ exact[p] => MEPC' = done'[p] /\ MSCRATCH' = <<p, done'[p]>>
  BY <1>1, <1>4
<1>6. status' \in [Proc -> {"READY", "RUNNING", "BLOCKED"}] /\ \A q \in Proc : status'[q] = status[q] \/ status'[q] = "BLOCKED"
  BY <1>1 DEF TypeOK, Blocked
<1>7. TypeOK'
  <2>1. tf' \in [Proc -> Value] /\ done' \in [Proc -> Pos] /\ MSCRATCH' \in Value
    BY <1>1, <1>2, <1>3 DEF Value
  <2> QED BY <1>1, <1>3, <1>6, <2>1 DEF TypeOK
<1>8. FramesKept' /\ Stacks'
  BY <1>1, <1>3, <1>4, <1>5 DEF IInv, FramesKept, Stacks, InUser, InKernel
<1>9. OnCpu'
  BY <1>1, <1>6 DEF IInv, OnCpu
<1>10. PcbKept'
  BY <1>1, <1>4 DEF IInv, PcbKept, TypeOK
<1>11. CpuExact'
  BY <1>5 DEF CpuExact, InKernel
<1> QED BY <1>7, <1>8, <1>9, <1>10, <1>11 DEF IInv

(* schedule leaves the CSRs to a ready process or to the idle task, and      *)
(* stores those of the process it takes the CPU from.                        *)
LEMMA ScheduleIInv ==
  ASSUME IInv, mode \in {"pump", "write"}, Schedule(ScheduleNext), mode' = "exit",
         UNCHANGED <<system_ticks, status, tf, loaded, failed, cpu, t0ok, callbacks, done>>,
         mode = "write" \/ kidle \/ status[current_pcb] = "READY"
  PROVE  IInv'
<1> DEFINE p == ScheduleNext
           c == current_pcb
           PCB == [mepc : Pos, mstatus : Modes, mscratch : Value]
<1>1. /\ TypeOK /\ c \in Proc /\ pcb \in [Proc -> PCB] /\ exact \in [Proc -> BOOLEAN] /\ loaded \subseteq Proc
      /\ MPP \in Modes /\ MSCRATCH \in Value
  BY DEF IInv, TypeOK
<1>2. /\ sp = K0
      /\ kidle => MPP = "S" /\ MSCRATCH = K0 /\ MEPC = Kernel
      /\ ~kidle => MPP = "U" /\ MEPC \in Pos /\ c \in loaded \cup failed
      /\ ~kidle /\ c \in loaded => MSCRATCH[1] = c /\ mmu = c
      /\ ~kidle /\ c \in loaded /\ exact[c] => MEPC = done[c] /\ MSCRATCH = <<c, done[c]>>
  BY DEF IInv, Stacks, OnCpu, CpuExact, InKernel
<1>3. PcbKept /\ \A q \in Proc : tf[q] = <<q, done[q]>> /\ status[q] # "RUNNING" /\ (status[q] = "READY" => q \in loaded \cup failed)
  BY DEF IInv, FramesKept, OnCpu, InUser
<1>4. FramesKept'
  BY <1>3 DEF FramesKept, InUser
<1>5. CASE p # Kernel
  <2>1. p \in Proc /\ status[p] = "READY" /\ p \in loaded \cup failed /\ SwitchTo(p)
    <3>1. SwitchTo(p)
      BY <1>5 DEF Schedule
    <3> QED BY <1>1, <1>3, <1>5, <3>1, NextIsReady DEF IInv
  <2> HIDE DEF p
  <2>2. /\ current_pcb' = p /\ mmu' = (IF p \in loaded THEN p ELSE Kernel) /\ kidle' = FALSE
        /\ MEPC' = pcb[p].mepc /\ MPP' = "U" /\ MSCRATCH' = pcb[p].mscratch
    BY <2>1, <1>1 DEF SwitchTo, MmuSetProc, LoadCsrs, TypeOK
  <2>3. pcb[p] \in PCB /\ pcb[p].mepc \in Pos /\ pcb[p].mscratch \in Value /\ (p \in loaded => pcb[p].mscratch[1] = p)
    BY <1>1, <1>3, <2>1 DEF PcbKept
  <2>4. CASE kidle
    <3>1. pcb' = pcb /\ exact' = exact
      BY <2>1, <2>4 DEF SwitchTo
    <3>2. TypeOK'
      BY <1>1, <2>1, <2>2, <2>3, <3>1 DEF TypeOK, Modes
    <3>3. Stacks' /\ OnCpu'
      BY <1>2, <1>3, <2>1, <2>2, <2>3 DEF Stacks, OnCpu, InKernel
    <3>4. PcbKept' /\ CpuExact'
      BY <1>3, <2>1, <2>2, <2>4, <3>1 DEF PcbKept, CpuExact, InKernel
    <3> QED BY <1>4, <3>2, <3>3, <3>4 DEF IInv
  <2>5. CASE ~kidle
    <3>1. /\ pcb' = [pcb EXCEPT ![c] = [mepc |-> 0, mstatus |-> MPP, mscratch |-> MSCRATCH]]
          /\ exact' = [exact EXCEPT ![c] = FALSE]
      BY <2>1, <2>5 DEF SwitchTo
    <3>2. pcb' \in [Proc -> PCB] /\ exact' \in [Proc -> BOOLEAN] /\ exact'[c] = FALSE /\ pcb'[c].mscratch = MSCRATCH
      BY <1>1, <3>1, ZeroIsPos
    <3>3. \A q \in Proc \ {c} : pcb'[q] = pcb[q] /\ exact'[q] = exact[q]
      BY <1>1, <3>1
    <3>4. TypeOK'
      BY <1>1, <2>1, <2>2, <2>3, <3>2 DEF TypeOK, Modes
    <3>5. Stacks' /\ OnCpu'
      BY <1>2, <1>3, <2>1, <2>2, <2>3 DEF Stacks, OnCpu, InKernel
    <3>6. PcbKept'
      BY <1>1, <1>2, <1>3, <2>5, <3>2, <3>3 DEF PcbKept
    <3>7. CpuExact'
      BY <1>3, <2>1, <2>2, <2>5, <3>2, <3>3 DEF PcbKept, CpuExact, InKernel
    <3> QED BY <1>4, <3>4, <3>5, <3>6, <3>7 DEF IInv
  <2> QED BY <2>4, <2>5
<1>6. CASE p = Kernel /\ kidle
  <2>1. UNCHANGED <<current_pcb, kidle, pcb, csrs, mmu, exact>>
    BY <1>6 DEF Schedule
  <2>2. TypeOK'
    BY <1>1, <2>1 DEF TypeOK
  <2>3. Stacks' /\ OnCpu'
    BY <1>2, <1>3, <1>6, <2>1 DEF Stacks, OnCpu, InKernel
  <2>4. PcbKept' /\ CpuExact'
    BY <1>3, <1>6, <2>1 DEF PcbKept, CpuExact
  <2> QED BY <1>4, <2>2, <2>3, <2>4 DEF IInv
<1>7. CASE p = Kernel /\ ~kidle
  <2>1. /\ kidle' = TRUE /\ MEPC' = Kernel /\ MPP' = "S" /\ MSCRATCH' = K0
        /\ pcb' = [pcb EXCEPT ![c] = [mepc |-> MEPC, mstatus |-> MPP, mscratch |-> MSCRATCH]]
        /\ UNCHANGED <<current_pcb, mmu, exact>>
    BY <1>7 DEF Schedule, SwitchToIdle, K0
  <2>2. /\ pcb' \in [Proc -> PCB] /\ pcb'[c].mepc = MEPC /\ pcb'[c].mscratch = MSCRATCH
        /\ \A q \in Proc \ {c} : pcb'[q] = pcb[q]
    BY <1>1, <1>2, <1>7, <2>1
  <2>3. TypeOK'
    BY <1>1, <2>1, <2>2, ZeroIsPos DEF TypeOK, Modes
  <2>4. Stacks' /\ OnCpu'
    BY <1>2, <1>3, <2>1 DEF Stacks, OnCpu, InKernel
  <2>5. PcbKept' /\ CpuExact'
    BY <1>1, <1>2, <1>3, <1>7, <2>1, <2>2 DEF PcbKept, CpuExact
  <2> QED BY <1>4, <2>3, <2>4, <2>5 DEF IInv
<1> QED BY <1>5, <1>6, <1>7

(* Every step keeps the invariant.                                           *)
LEMMA StepIInv == IInv /\ [Next]_vars => IInv'
<1> SUFFICES ASSUME IInv, [Next]_vars PROVE IInv'
  OBVIOUS
<1>1. CASE UNCHANGED vars
  BY <1>1 DEF vars, IInv, TypeOK, FramesKept, Stacks, OnCpu, PcbKept, CpuExact, InUser, InKernel
<1>2. CASE Boot
  BY <1>2, BootIInv
<1>3. CASE Mret
  BY <1>3, MretIInv
<1>4. CASE Timer
  <2>1. system_ticks' \in 0 .. SliceMax - 1 /\ callbacks' \in 0 .. Callbacks
    BY <1>4, SchedAssumption DEF Timer, IInv, TypeOK
  <2> QED BY <1>4, <2>1, PassOnIInv DEF Timer, InKernel
<1>5. CASE TimerReturn \/ ExternalReturn
  <2>1. system_ticks' \in 0 .. SliceMax - 1 /\ t0ok' \in BOOLEAN /\ callbacks' \in 0 .. Callbacks
    BY <1>5 DEF TimerReturn, ExternalReturn, IInv, TypeOK
  <2> QED BY <1>5, <2>1, PassOnIInv DEF TimerReturn, ExternalReturn, InKernel
<1>6. ASSUME NEW p \in Proc, PumpCallback(p) PROVE IInv'
  <2>1. t0ok' \in BOOLEAN
    BY <1>6 DEF PumpCallback
  <2> QED BY <1>6, <2>1, CompleteIInv DEF PumpCallback, InKernel
<1>7. ASSUME NEW p \in Proc, External(p) PROVE IInv'
  <2>1. t0ok' \in BOOLEAN
    BY <1>7 DEF External, IInv, TypeOK
  <2> QED BY <1>7, <2>1, CompleteIInv DEF External, InKernel
<1>8. CASE TimerSchedule
  <2>1. kidle \/ status[current_pcb] = "READY"
    BY <1>8 DEF TimerSchedule, IInv, OnCpu
  <2> QED BY <1>8, <2>1, ScheduleIInv DEF TimerSchedule
<1>9. CASE WriteSchedule
  BY <1>9, ScheduleIInv DEF WriteSchedule
<1>10. CASE EcallReturn
  BY <1>10, EcallIInv DEF EcallReturn
<1>11. CASE EcallWrite
  BY <1>11, EcallIInv DEF EcallWrite
<1>14. CASE PumpStep
  <2>1. system_ticks' \in 0 .. SliceMax - 1 /\ t0ok' \in BOOLEAN /\ callbacks' \in 0 .. Callbacks
    BY <1>14, SchedAssumption DEF PumpStep, IInv, TypeOK
  <2> QED BY <1>14, <2>1, PassOnIInv DEF PumpStep, InKernel
<1>15. CASE EcallHang
  <2>1. MEPC \in Pos
    BY <1>15 DEF EcallHang, IInv, Stacks, OnCpu, InKernel
  <2>2. MEPC' \in Pos
    BY <1>15, <2>1, IncType DEF EcallHang
  <2> QED BY <1>15, <2>2, HangIInv DEF EcallHang
<1>16. CASE Fault
  <2>1. MEPC' \in Pos \cup {Kernel}
    BY <1>16 DEF Fault, IInv, TypeOK
  <2> QED BY <1>16, <2>1, HangIInv DEF Fault
<1>17. CASE EcallX
  BY <1>1, <1>17 DEF EcallX
<1>12. CASE UserStep
  BY <1>12, UserStepIInv
<1>13. CASE \E cause \in Causes : Mhandler(cause)
  BY <1>13, MhandlerIInv
<1> QED
  BY <1>1, <1>2, <1>3, <1>4, <1>5, <1>6, <1>7, <1>8, <1>9, <1>10, <1>11, <1>12, <1>13, <1>14,
     <1>15, <1>16, <1>17
  DEF Next, KernelStep

-----------------------------------------------------------------------------
(* The inductive invariant holds in every reachable state.                   *)
THEOREM Invariance == Spec => []IInv
<1>1. Init => IInv
  BY InitIInv
<1>2. IInv /\ [Next]_vars => IInv'
  BY StepIInv
<1> QED BY <1>1, <1>2, PTL DEF Spec

(* PCBs, CSRs and registers keep their types.                                *)
THEOREM TypeCorrect == Spec => []TypeOK
<1>1. IInv => TypeOK
  BY DEF IInv
<1> QED BY <1>1, Invariance, PTL

(* However many processes go through mhandler and context_switch,            *)
(* each runs with the registers it was interrupted with.                     *)
THEOREM RegistersAlwaysIntact == Spec => []RegistersIntact
<1>1. IInv => RegistersIntact
  BY DEF IInv, FramesKept, RegistersIntact
<1> QED BY <1>1, Invariance, PTL

(* Processes run unprivileged and only when they are ready; one whose load   *)
(* has not failed runs only once it is loaded, in its own memory and on its  *)
(* own stack; the idle task runs on the kernel's.                            *)
THEOREM AlwaysIsolated == Spec => []Isolation
<1>1. IInv => Isolation
  BY DEF IInv, Isolation, Stacks, OnCpu, K0
<1> QED BY <1>1, Invariance, PTL

(* A process that was only ever switched out to the idle task continues      *)
(* exactly where it stopped.                                                 *)
THEOREM AlwaysExactThroughIdle == Spec => []ExactThroughIdle
<1>1. IInv => ExactThroughIdle
  BY DEF IInv, ExactThroughIdle, CpuExact, InUser
<1> QED BY <1>1, Invariance, PTL
=============================================================================
