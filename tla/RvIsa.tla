------------------------------- MODULE RvIsa --------------------------------
(* What instruction words mean, from the RISC-V manual and not from the       *)
(* assembler: the reference that RvLine compares the encodings with.  A word  *)
(* is the set of its bits.                                                    *)
EXTENDS Integers, Sequences, FiniteSetsExt

(* An instruction is <<name, format, opcode, funct3, funct7>>; an atomic has   *)
(* funct5 for the last, and two widths, told by funct3.                        *)
Insns(format, opcode, funct7, names) == {<<n, format, opcode, names[n], funct7>> : n \in DOMAIN names}
Atomics ==
  [lr |-> 2, sc |-> 3, amoswap |-> 1, amoadd |-> 0, amoxor |-> 4, amoand |-> 12, amoor |-> 8,
   amomin |-> 16, amomax |-> 20, amominu |-> 24, amomaxu |-> 28]
Isa ==
  UNION {
    Insns("U", 55, 0, [lui |-> 0]), Insns("U", 23, 0, [auipc |-> 0]), Insns("J", 111, 0, [jal |-> 0]),
    Insns("I", 103, 0, [jalr |-> 0]),
    Insns("I", 3, 0, [lb |-> 0, lh |-> 1, lw |-> 2, ld |-> 3, lbu |-> 4, lhu |-> 5, lwu |-> 6]),
    Insns("I", 19, 0, [addi |-> 0, slti |-> 2, sltiu |-> 3, xori |-> 4, ori |-> 6, andi |-> 7]),
    Insns("H", 19, 0, [slli |-> 1, srli |-> 5]), Insns("H", 19, 32, [srai |-> 5]),
    Insns("I", 27, 0, [addiw |-> 0]),
    Insns("H", 27, 0, [slliw |-> 1, srliw |-> 5]), Insns("H", 27, 32, [sraiw |-> 5]),
    Insns("B", 99, 0, [beq |-> 0, bne |-> 1, blt |-> 4, bge |-> 5, bltu |-> 6, bgeu |-> 7]),
    Insns("S", 35, 0, [sb |-> 0, sh |-> 1, sw |-> 2, sd |-> 3]),
    Insns("R", 51, 0, [add |-> 0, sll |-> 1, slt |-> 2, sltu |-> 3, xor |-> 4, srl |-> 5, or |-> 6, and |-> 7]),
    Insns("R", 51, 32, [sub |-> 0, sra |-> 5]),
    Insns("R", 51, 1, [mul |-> 0, mulh |-> 1, mulhsu |-> 2, mulhu |-> 3, div |-> 4, divu |-> 5, rem |-> 6, remu |-> 7]),
    Insns("R", 59, 0, [addw |-> 0, sllw |-> 1, srlw |-> 5]), Insns("R", 59, 32, [subw |-> 0, sraw |-> 5]),
    Insns("R", 59, 1, [mulw |-> 0, divw |-> 4, divuw |-> 5, remw |-> 6, remuw |-> 7]),
    Insns("F", 15, 0, [fence |-> 0, fencei |-> 1]),
    Insns("C", 115, 0, [system |-> 0, csrrw |-> 1, csrrs |-> 2, csrrc |-> 3, csrrwi |-> 5, csrrsi |-> 6, csrrci |-> 7]),
    {<<n, "A", 47, w, Atomics[n]>> : n \in DOMAIN Atomics, w \in {2, 3}}}
WithOpcode(n) == {e[1] : e \in {f \in Isa : f[3] = n}}

Num(b) == SumSet({2^i : i \in b})
Part(w, lo, hi) == Num({i - lo : i \in w \cap (lo .. hi)})

(* A number of n bits as a signed one.                                       *)
SignedBits(b, n) == Num(b \ {n - 1}) - (IF n - 1 \in b THEN 2^(n - 2) ELSE 0) - (IF n - 1 \in b THEN 2^(n - 2) ELSE 0)

(* The bits of w that make up an immediate: from each to its place.          *)
Gather(w, pieces) == UNION {{i - p[1] + p[3] : i \in w \cap (p[1] .. p[2])} : p \in pieces}
Immediate(w, fmt) ==
  CASE fmt = "U" -> SignedBits(w \cap (12 .. 31), 32)
    [] fmt = "J" -> SignedBits(Gather(w, {<<31, 31, 20>>, <<12, 19, 12>>, <<20, 20, 11>>, <<21, 30, 1>>}), 21)
    [] fmt = "B" -> SignedBits(Gather(w, {<<31, 31, 12>>, <<7, 7, 11>>, <<25, 30, 5>>, <<8, 11, 1>>}), 13)
    [] fmt = "S" -> SignedBits(Gather(w, {<<25, 31, 5>>, <<7, 11, 0>>}), 12)
    [] fmt = "I" -> SignedBits(Gather(w, {<<20, 31, 0>>}), 12)
    [] fmt = "H" -> Part(w, 20, 24)
    [] fmt \in {"C", "F"} -> Part(w, 20, 31)
    [] fmt = "A" -> Part(w, 25, 26) + (4 * Part(w, 12, 12))     \* rl, aq and the width
    [] fmt = "R" -> 0

Matching(w) ==
  LET opcode == Part(w, 0, 6)
      funct3 == Part(w, 12, 14)
      funct7 == Part(w, 25, 31)
  IN  {e \in Isa : /\ e[3] = opcode
                   /\ e[2] \in {"U", "J"} \/ e[4] = funct3
                   /\ e[2] \in {"R", "H"} => e[5] = funct7
                   /\ e[2] = "A" => e[5] = funct7 \div 4}

Insn(name, rd, rs1, rs2, imm) == [name |-> name, rd |-> rd, rs1 |-> rs1, rs2 |-> rs2, imm |-> imm]

(* Fields that a format does not have are zero.                              *)
Decode(w) ==
  IF Matching(w) = {} THEN Insn("none", 0, 0, 0, 0)
  ELSE LET e == CHOOSE f \in Matching(w) : TRUE
       IN  Insn(e[1], IF e[2] \in {"S", "B"} THEN 0 ELSE Part(w, 7, 11),
                IF e[2] \in {"U", "J"} THEN 0 ELSE Part(w, 15, 19),
                IF e[2] \in {"R", "S", "B", "A"} THEN Part(w, 20, 24) ELSE 0,
                Immediate(w, e[2]))

(* The value that the first n of a few instructions at pc leave in r.        *)
RECURSIVE Leaves(_, _, _, _)
Leaves(ds, n, r, pc) ==
  IF n = 0 \/ r = 0 THEN 0
  ELSE LET d == ds[n] IN
       CASE d.rd # r \/ d.name = "none" -> Leaves(ds, n - 1, r, pc)
         [] d.rd = r /\ d.name = "lui"   -> d.imm
         [] d.rd = r /\ d.name = "auipc" -> pc + (4 * (n - 1)) + d.imm
         [] d.rd = r /\ d.name \notin {"lui", "auipc", "none"} -> Leaves(ds, n - 1, d.rs1, pc) + d.imm
=============================================================================
