------------------------------ MODULE RvEncode ------------------------------
(* The instruction words that rv32i_mnemonic of tools/assembler/rva.c builds  *)
(* in the last pass.  A 32-bit word, a token of the mnemonics file included,  *)
(* is the set of its bits, so `mask and shift' is Field and `or' is union.    *)
(* A parsed line is [op, suffix, regs, form, csr, value, error, room]: the    *)
(* registers that get_reg found, the operand with the error of its evaluation,*)
(* and the size that variable_item_size keeps for it.  FENCE's fields are in   *)
(* regs; names are without their dots, and suffix has those of an atomic.      *)
EXTENDS Integers, Sequences, TLC

EvalOkay == "okay"

(* The mnemonics file: the two halves of each token.  The atomics are here in *)
(* their plain .w form; .rl, .aq and .d set one more bit of the token each.    *)
Lower(low, tokens) == [o \in DOMAIN tokens |-> <<tokens[o], low>>]
Mnemonics ==
  Lower(0, [
     lui |-> \h00D0, auipc |-> \h0050, jal |-> \h01B1, jalr |-> \h0195, addi |-> \h0042,
     subi |-> \h1042, slti |-> \h0442, sltiu |-> \h0642, xori |-> \h0842, ori |-> \h0C42,
     andi |-> \h0E42, slli |-> \h0242, srli |-> \h0A42, addiw |-> \h0062, beq |-> \h0183,
     bne |-> \h0383, blt |-> \h0983, bge |-> \h0B83, bltu |-> \h0D83, bgeu |-> \h0F83, add |-> \h00C6,
     sll |-> \h02C6, slt |-> \h04C6, sltu |-> \h06C6, xor |-> \h08C6, srl |-> \h0AC6, or |-> \h0CC6,
     and |-> \h0EC6, slliw |-> \h0262, srliw |-> \h0A62, addw |-> \h00E6, sllw |-> \h02E6,
     srlw |-> \h0AE6, fence |-> \h0008, fencei |-> \h0208, ecall |-> \h0007, ebreak |-> \h0017,
     uret |-> \h0027, sret |-> \h1027, mret |-> \h3027, wfi |-> \h1057, csrrw |-> \h03CA,
     csrrs |-> \h05CA, csrrc |-> \h07CA, csrrwi |-> \h1BCA, csrrsi |-> \h1DCA, csrrci |-> \h1FCA,
     lr |-> \h008C, sc |-> \h00CC, amoswap |-> \h004C, amoadd |-> \h000C, amoxor |-> \h010C,
     amoand |-> \h030C, amoor |-> \h020C, amomin |-> \h040C, amomax |-> \h050C, amominu |-> \h060C,
     amomaxu |-> \h070C, nop |-> \h0009, ret |-> \h1009, illegal |-> \h2009, jr |-> \h0019,
     j |-> \h0029, mv |-> \h0039, not |-> \h1039, neg |-> \h2039, negw |-> \h3039, sextw |-> \h4039,
     seqz |-> \h5039, snez |-> \h6039, sltz |-> \h7039, sgtz |-> \h8039, beqz |-> \h0049,
     bnez |-> \h0249, blez |-> \h0B49, bgez |-> \h0A49, bltz |-> \h0849, bgtz |-> \h0949,
     bgt |-> \h1983, ble |-> \h1B83, bgtu |-> \h1D83, bleu |-> \h1F83, csrr |-> \h2459,
     csrw |-> \h0259, csrs |-> \h0459, csrc |-> \h0659, csrwi |-> \h1A59, csrsi |-> \h1C59,
     csrci |-> \h1E59])
  @@ Lower(\h8000, [
     lb |-> \h0005, lh |-> \h0205, lw |-> \h0405, lbu |-> \h0805, lhu |-> \h0A05, lwu |-> \h0C05,
     ld |-> \h0605, sb |-> \h0084, sh |-> \h0284, sw |-> \h0484, sd |-> \h0684, li |-> \h000B])
  @@ Lower(\h2000, [
     srai |-> \h0A42, sub |-> \h00C6, sra |-> \h0AC6, sraiw |-> \h0A62, subw |-> \h00E6, sraw |-> \h0AE6])
  @@ Lower(\h0100, [
     mul |-> \h00C6, mulh |-> \h02C6, mulhsu |-> \h04C6, mulhu |-> \h06C6, div |-> \h08C6,
     divu |-> \h0AC6, rem |-> \h0CC6, remu |-> \h0EC6, mulw |-> \h00E6, divw |-> \h08E6,
     divuw |-> \h0AE6, remw |-> \h0CE6, remuw |-> \h0EE6])
  @@ Lower(\h9000, [la |-> \h000B, lla |-> \h000B])
  @@ Lower(\hA000, [call |-> \h021B, tail |-> \h006B])
  @@ Lower(\h2200, [rdinstret |-> \hC069, rdinstreth |-> \hC869, frrm |-> \h0069])
  @@ Lower(\h0200, [rdcycle |-> \hC069, rdcycleh |-> \hC869])
  @@ Lower(\h1200, [rdtime |-> \hC069, rdtimeh |-> \hC869, frflags |-> \h0069])
  @@ Lower(\h3200, [frcsr |-> \h0069])
  @@ Lower(\h3100, [fscsr |-> \h0069])
  @@ Lower(\h2100, [fsrm |-> \h0069])
  @@ Lower(\h1100, [fsflags |-> \h0069])

HalfBits(h, at) == {i \in at .. at + 15 : (h \div 2^(i - at)) % 2 = 1}
Token(op) == HalfBits(Mnemonics[op][2], 0) \cup HalfBits(Mnemonics[op][1], 16)
SuffixBit == [rl |-> 20, aq |-> 21, d |-> 27]
Class(op) == Mnemonics[op][1] % 16

Bits(v) == {i \in 0 .. 30 : (v \div 2^i) % 2 = 1} \cup (IF v < 0 THEN {31} ELSE {})
Field(b, lo, hi, shift) == {i + shift : i \in b \cap (lo .. hi)} \cap (0 .. 31)
Reg(n, at) == Field(Bits(n), 0, 31, at)

(* get_reg for the k-th operand: -1 when there is none.                      *)
Get(x, k) == IF k <= Len(x.regs) THEN x.regs[k] ELSE -1
Missing(x, n) == Len(x.regs) < n

Opcode(t) == Field(t, 20, 24, -18) \cup {0, 1}
Funct3(t) == Field(t, 25, 27, -13)
Funct7(t) == Field(t, 8, 14, 17)

-----------------------------------------------------------------------------
(* Do the bits of v above a signed field of n bits agree?                    *)
Fits(v, n) == (n - 1) .. 31 \subseteq Bits(v) \/ (n - 1) .. 31 \cap Bits(v) = {}
Unsigned(v, n) == n .. 31 \cap Bits(v) = {}

ImmI(v) == Field(Bits(v), 0, 11, 20)
ImmS(v) == Field(Bits(v), 5, 11, 20) \cup Field(Bits(v), 0, 4, 7)
(* Mutant: bit 11 of a branch offset goes where a jump has it.               *)
ImmBAsJump(v) ==
  Field(Bits(v), 12, 12, 19) \cup Field(Bits(v), 11, 11, 9) \cup Field(Bits(v), 5, 10, 20) \cup Field(Bits(v), 1, 4, 7)
ImmB(v) ==
  Field(Bits(v), 12, 12, 19) \cup Field(Bits(v), 11, 11, -4) \cup Field(Bits(v), 5, 10, 20) \cup Field(Bits(v), 1, 4, 7)
ImmJ(v) ==
  Field(Bits(v), 20, 20, 11) \cup Field(Bits(v), 12, 19, 0) \cup Field(Bits(v), 11, 11, 9) \cup Field(Bits(v), 1, 10, 20)

(* What a line assembles to: an error, words in front, and the word.         *)
Code(error, prefix, word) == [error |-> error, prefix |-> prefix, word |-> word]
Checked(x, ok, error) == IF ok THEN x.error ELSE error
Parsed(x, n, code) == IF Missing(x, n) THEN Code("bad_reg", <<>>, {}) ELSE code

(* b_offset and the offset of JAL: the operand is a target.                  *)
JumpError(x, v, n) ==
  IF v % 2 # 0 THEN "unaligned_branch" ELSE IF Fits(v, n) THEN x.error ELSE "oorange_branch"

EncodeU(t, x) ==
  Parsed(x, 1, Code(Checked(x, x.value % 4096 = 0, "oorange"), <<>>,
                    Opcode(t) \cup Reg(Get(x, 1), 7) \cup Bits(x.value)))

EncodeJ(t, x, pc) ==
  LET v == x.value - pc
      rd == IF Missing(x, 1) THEN 1 ELSE Get(x, 1)
  IN  Code(JumpError(x, v, 21), <<>>, Opcode(t) \cup Reg(rd, 7) \cup ImmJ(v))

(* Mutant: SUBI checks the range before it negates.                          *)
EncodeILate(t, x) ==
  LET v == IF 28 \in t THEN 0 - x.value ELSE x.value
      shift == 25 \in t /\ 26 \notin t
  IN  Parsed(x, 2, Code(Checked(x, IF shift THEN Unsigned(v, 5) ELSE Fits(x.value, 12), "oorange"), <<>>,
        Opcode(t) \cup Funct3(t) \cup Reg(Get(x, 1), 7) \cup Reg(Get(x, 2), 15)
          \cup (IF shift THEN Funct7(t) \cup Field(Bits(v), 0, 4, 20) ELSE ImmI(v))))
EncodeI(t, x) ==
  LET v == IF 28 \in t THEN 0 - x.value ELSE x.value
      shift == 25 \in t /\ 26 \notin t
  IN  Parsed(x, 2, Code(Checked(x, IF shift THEN Unsigned(v, 5) ELSE Fits(v, 12), "oorange"), <<>>,
        Opcode(t) \cup Funct3(t) \cup Reg(Get(x, 1), 7) \cup Reg(Get(x, 2), 15)
          \cup (IF shift THEN Funct7(t) \cup Field(Bits(v), 0, 4, 20) ELSE ImmI(v))))

EncodeB(t, x, pc) ==
  LET v == x.value - pc
      swap == 28 .. 31 \cap t # {}
  IN  Parsed(x, 2, Code(JumpError(x, v, 13), <<>>,
        Opcode(t) \cup Funct3(t) \cup Reg(Get(x, 1), IF swap THEN 20 ELSE 15)
          \cup Reg(Get(x, 2), IF swap THEN 15 ELSE 20) \cup ImmB(v)))

(* addr_mode: offset[base], or a label, which takes an AUIPC into `into'.    *)
AddrMode(x, pc, base, into, jalr) ==
  LET v == x.value - pc
      high == Bits(IF 11 \in Bits(v) THEN v + 4096 ELSE v) \cap (12 .. 31)
      prefix == IF x.error # EvalOkay \/ jalr THEN <<>> ELSE <<{0, 1, 2, 4} \cup Reg(into, 7) \cup high>>
  IN  IF x.form = "global"
      THEN [error |-> IF x.error # EvalOkay THEN x.error ELSE IF jalr THEN "no_lbr"
                      ELSE IF into < 0 THEN "bad_reg" ELSE EvalOkay,
            prefix |-> prefix, reg |-> into, offset |-> v]
      ELSE [error |-> IF x.error # EvalOkay THEN x.error ELSE IF base < 0 THEN "syntax"
                      ELSE IF Fits(x.value, 12) THEN EvalOkay ELSE "oorange",
            prefix |-> <<>>, reg |-> base, offset |-> x.value]

EncodeS(t, x, pc) ==
  LET a == AddrMode(x, pc, Get(x, 2), Get(x, 2), FALSE)
  IN  Parsed(x, 1, Code(a.error, a.prefix,
        Opcode(t) \cup Funct3(t) \cup Reg(Get(x, 1), 20) \cup Reg(a.reg, 15) \cup ImmS(a.offset)))

(* Loads, and JALR, which links x1 when there is only a base.                *)
EncodeL(t, x, pc) ==
  LET jalr == 24 \in t
      a == AddrMode(x, pc, Get(x, 2), Get(x, 1), jalr)
  IN  IF jalr /\ x.form = "plain"
      THEN Parsed(x, 1, Code(EvalOkay, <<>>, Opcode(t) \cup Funct3(t) \cup Reg(Get(x, 1), 15) \cup {7}))
      ELSE Parsed(x, 1, Code(a.error, a.prefix,
             Opcode(t) \cup Funct3(t) \cup Reg(Get(x, 1), 7) \cup Reg(a.reg, 15) \cup ImmI(a.offset)))

EncodeR(t, x) ==
  Parsed(x, 3, Code(EvalOkay, <<>>, Opcode(t) \cup Funct3(t) \cup Funct7(t)
    \cup Reg(Get(x, 1), 7) \cup Reg(Get(x, 2), 15) \cup Reg(Get(x, 3), 20)))

(* FENCE: nothing means all; one set of accesses needs the other.            *)
EncodeFence(t, x) ==
  LET w == {0, 1, 2, 3} \cup Funct3(t)
  IN  CASE 25 .. 27 \cap t # {} -> Code(EvalOkay, <<>>, w)
        [] 25 .. 27 \cap t = {} /\ Get(x, 1) \in {-1, 0} -> Code(EvalOkay, <<>>, w \cup (20 .. 27))
        [] 25 .. 27 \cap t = {} /\ Get(x, 1) > 0 ->
             Code(IF Missing(x, 2) THEN "no_comma" ELSE IF Get(x, 2) = 0 THEN "syntax" ELSE EvalOkay,
                  <<>>, w \cup Reg(Get(x, 1), 24) \cup Reg(Get(x, 2), 20))

-----------------------------------------------------------------------------
(* parse_csr and parse_csr2: the CSR, then a register or five bits.          *)
CsrError(x, t, k) ==
  CASE ~Unsigned(x.csr, 12) -> "oorange"
    [] Unsigned(x.csr, 12) /\ 28 \in t -> Checked(x, x.error # EvalOkay \/ Unsigned(x.value, 5), "oorange")
    [] Unsigned(x.csr, 12) /\ 28 \notin t -> IF Missing(x, k) THEN "bad_reg" ELSE EvalOkay
CsrSource(x, t, k) == Reg(IF 28 \in t THEN x.value ELSE Get(x, k), 15)

EncodeCsr(t, x) ==
  Parsed(x, 1, Code(CsrError(x, t, 2), <<>>,
    Opcode(t) \cup Funct3(t) \cup Reg(Get(x, 1), 7) \cup Reg(x.csr, 20) \cup CsrSource(x, t, 2)))

PseudoCsr(t, x) ==
  LET w == {0, 1, 4, 5, 6} \cup Funct3(t) \cup Reg(x.csr, 20)
  IN  IF 29 \in t
      THEN Parsed(x, 1, Code(IF Unsigned(x.csr, 12) THEN EvalOkay ELSE "oorange", <<>>, w \cup Reg(Get(x, 1), 7)))
      ELSE Code(CsrError(x, t, 1), <<>>, w \cup CsrSource(x, t, 1))

(* The counters and the floating point status: only the latter have a source.*)
PseudoCounter(t, x) ==
  LET w == (t \cap (24 .. 31)) \cup {0, 1, 4, 5, 6} \cup Field(t, 12, 15, 8) \cup Field(t, 8, 10, 4)
  IN  Parsed(x, 1, Code(EvalOkay, <<>>, w \cup
        (IF t \cap (8 .. 10) = {9} THEN Reg(Get(x, 1), 7)
         ELSE IF Missing(x, 2) THEN Reg(Get(x, 1), 15)
         ELSE Reg(Get(x, 1), 7) \cup Reg(Get(x, 2), 15))))

(* MV, NOT, ...: a fixed word, with the source in rs1 or in rs2.             *)
TwoRegisters ==
  [mv   |-> [word |-> {0, 1, 4}, at |-> 15],                            \* 00000013
   not  |-> [word |-> {0, 1, 4, 14} \cup (20 .. 31), at |-> 15],        \* FFF04013
   neg  |-> [word |-> {0, 1, 4, 5, 30}, at |-> 20],                     \* 40000033
   negw |-> [word |-> {0, 1, 3, 4, 5, 30}, at |-> 20],                  \* 4000003B
   sextw |-> [word |-> {0, 1, 3, 4}, at |-> 15],                        \* 0000001B
   seqz |-> [word |-> {0, 1, 4, 12, 13, 20}, at |-> 15],                \* 00103013
   snez |-> [word |-> {0, 1, 4, 5, 12, 13}, at |-> 20],                 \* 00003033
   sltz |-> [word |-> {0, 1, 4, 5, 13}, at |-> 15],                     \* 00002033
   sgtz |-> [word |-> {0, 1, 4, 5, 13}, at |-> 20]]                     \* 00002033

PseudoMove(x) ==
  Parsed(x, 2, Code(EvalOkay, <<>>,
    TwoRegisters[x.op].word \cup Reg(Get(x, 1), 7) \cup Reg(Get(x, 2), TwoRegisters[x.op].at)))

(* J does not look at the last bit of its offset, which has no place.        *)
PseudoJump(x, pc) ==
  LET v == x.value - pc
  IN  Code(IF Fits(v, 21) THEN x.error ELSE "oorange_branch", <<>>, ImmJ(v) \cup {0, 1, 2, 3, 5, 6})

PseudoBranch(t, x, pc) ==
  LET v == x.value - pc
  IN  Parsed(x, 1, Code(JumpError(x, v, 13), <<>>, {0, 1, 5, 6} \cup Funct3(t) \cup ImmB(v)
                          \cup Reg(Get(x, 1), IF 24 \in t THEN 20 ELSE 15)))

Pseudo(t, x, pc) ==
  LET kind == (Mnemonics[x.op][1] \div 16) % 16
  IN  CASE kind = 0 -> Code(EvalOkay, <<>>, IF 28 \in t THEN {0, 1, 2, 5, 6, 15}         \* RET 00008067
                                        ELSE IF 29 \in t THEN {} ELSE {0, 1, 4})     \* ILLEGAL, NOP
        [] kind = 1 -> Parsed(x, 1, Code(EvalOkay, <<>>, {0, 1, 2, 5, 6} \cup Reg(Get(x, 1), 15)))
        [] kind = 2 -> PseudoJump(x, pc)
        [] kind = 3 -> PseudoMove(x)
        [] kind = 4 -> PseudoBranch(t, x, pc)
        [] kind = 5 -> PseudoCsr(t, x)
        [] kind = 6 -> PseudoCounter(t, x)

(* LI, LA, CALL and TAIL: two words, or one where the value allows it and    *)
(* variable_item_size does too.  The short CALL links x1.                    *)
EncodeLong(t, x, pc) ==
  LET rd    == Get(x, 1)
      jump  == 13 \in t
      li    == t \cap (12 .. 14) = {}
      v     == IF li THEN x.value ELSE x.value - pc
      high  == (IF jump THEN Field(t, 20, 24, -13) ELSE Reg(rd, 7)) \cup (Bits(v + 2048) \cap (12 .. 31))
      upper == high \cup (IF li THEN {0, 1, 2, 4, 5} ELSE {0, 1, 2, 4})
      low   == ImmI(v) \cup (IF jump THEN Field(t, 20, 24, -5) \cup Field(t, 25, 29, -18) \cup {0, 1, 2, 5, 6}
                             ELSE Reg(rd, 7) \cup Reg(rd, 15) \cup {0, 1, 4})
      both  == x.room = 8
  IN  CASE ~jump /\ Missing(x, 1) -> Code("bad_reg", <<>>, {})
        [] jump /\ v % 2 # 0 -> Code("unaligned_branch", <<high>>, {})
        [] jump /\ v % 2 = 0 /\ Fits(v, 21) ->
             Code(x.error, IF both THEN <<high>> ELSE <<>>, {0, 1, 2, 3, 5, 6, 7} \cup ImmJ(v))
        [] li /\ ~Missing(x, 1) /\ Fits(v, 12) ->
             Code(x.error, IF both THEN <<upper>> ELSE <<>>, low \ (15 .. 19))
        [] li /\ ~Missing(x, 1) /\ ~Fits(v, 12) /\ v % 4096 = 0 ->
             Code(x.error, IF both THEN <<upper>> ELSE <<>>, (upper \cap (0 .. 11)) \cup Bits(v))
        [] OTHER -> Code(x.error, <<upper>>, low)

(* LR has no rs2.                                                            *)
EncodeAtomic(t, x) ==
  LET lr == t \cap (22 .. 26) = {23}
      n  == IF lr THEN 2 ELSE 3
  IN  Parsed(x, n, Code(EvalOkay, <<>>, Field(t, 20, 26, 5) \cup Field(t, 27, 27, -15) \cup {0, 1, 2, 3, 5, 13}
        \cup Reg(Get(x, 1), 7) \cup (IF lr THEN {} ELSE Reg(Get(x, 2), 20)) \cup Reg(Get(x, n), 15)))

(* rv32i_mnemonic in the last pass: the words of a line with an error end in *)
(* a place holder.                                                           *)
Rv32iMnemonic(x, pc) ==
  LET t == Token(x.op) \cup {SuffixBit[f] : f \in x.suffix}
      k == Class(x.op)
  IN  CASE k = 0 -> EncodeU(t, x)
        [] k = 1 -> EncodeJ(t, x, pc)
        [] k = 2 -> EncodeI(t, x)
        [] k = 3 -> EncodeB(t, x, pc)
        [] k = 4 -> EncodeS(t, x, pc)
        [] k = 5 -> EncodeL(t, x, pc)
        [] k = 6 -> EncodeR(t, x)
        [] k = 7 -> Code(EvalOkay, <<>>, (t \cap (20 .. 31)) \cup {0, 1, 4, 5, 6})
        [] k = 8 -> EncodeFence(t, x)
        [] k = 9 -> Pseudo(t, x, pc)
        [] k = 10 -> EncodeCsr(t, x)
        [] k = 11 -> EncodeLong(t, x, pc)
        [] k = 12 -> EncodeAtomic(t, x)
Words(code) == Append(code.prefix, IF code.error = EvalOkay THEN code.word ELSE {})
=============================================================================
