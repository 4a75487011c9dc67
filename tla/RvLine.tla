------------------------------- MODULE RvLine -------------------------------
(* One instruction line in the last pass of tools/assembler/rva.c: evaluate   *)
(* computes its operand with a stack of pending operations, then RvEncode     *)
(* makes words of it.  An expression is a sequence of tokens; values are      *)
(* Width-bit words, written as signed numbers.                                *)
EXTENDS RvEncode, RvIsa, SequencesExt

CONSTANTS Lines,          \* lines: [op, suffix, regs, form, csr, room, pc, expr]
          Symbols,        \* operand tokens that have a value -> the value
          Unknown,        \* labels without one
          MathStackSize,  \* MATHSTACK_SIZE
          Width           \* 32

ASSUME LineAssumption ==
  /\ MathStackSize \in Nat \ {0} /\ Width \in 1 .. 32
  /\ Unknown \cap DOMAIN Symbols = {}

VARIABLES ln,           \* the line
          pos,          \* the next token of its expression
          math_stack,   \* entries [operand, operator, priority]; a marker has operator "start"
          unaries,      \* the unary operators that wait for a bracket to close
          operand, operator, priority,
          phase, error, first_error,
          value, words  \* the result of evaluate, and of rv32i_mnemonic

lvars == <<ln, pos, math_stack, unaries, operand, operator, priority, phase, error, first_error, value, words>>

-----------------------------------------------------------------------------
Modulus == 2^Width
Wrap(v) == ((v + (Modulus \div 2)) % Modulus) - (Modulus \div 2)
Natural(v) == v % Modulus
Truth(b) == IF b THEN -1 ELSE 0
Low(b) == b \cap (0 .. Width - 1)
FromBits(b) == SignedBits(Low(b), Width)

(* The unary operators; | is the truncated logarithm.                        *)
Unaries == {"+", "-", "~", "|"}
Unary(u, v) ==
  CASE u = "+" -> v
    [] u = "-" -> Wrap(0 - v)
    [] u = "~" -> Wrap(-1 - v)
    [] u = "|" -> IF v = 0 THEN -1 ELSE CHOOSE n \in 0 .. Width - 1 : 2^n <= Natural(v) /\ Natural(v) < 2^(n + 1)

(* get_operator: the terminators are 0 and 1.                                *)
Priorities ==
  [o \in {"+", "-"} |-> 3] @@ [o \in {"*", "/", "\\"} |-> 4] @@ [o \in {"|", "^"} |-> 5]
    @@ ("&" :> 6) @@ [o \in {"<<", ">>"} |-> 7]
    @@ [o \in {"=", "<>", "<", "<=", ">", ">=", "lt", "le", "gt", "ge"} |-> 2]

Divides(o, b) == o = "/" /\ b = 0

(* One pending operation.  < and its like compare without sign, lt with it;  *)
(* the host takes shift counts modulo the word.                              *)
Operate(a, o, b) ==
  CASE o = "+"  -> Wrap(a + b)
    [] o = "-"  -> Wrap(a - b)
    [] o = "*"  -> Wrap(a * b)
    [] o = "/"  -> IF b = 0 THEN -1 ELSE Wrap(Natural(a) \div Natural(b))
    [] o = "\\" -> IF b = 0 THEN b ELSE Wrap(Natural(a) % Natural(b))
    [] o = "<<" -> LET n == Natural(b) % Width IN Wrap((Natural(a) % 2^(Width - n)) * 2^n)
    [] o = ">>" -> LET n == Natural(b) % Width IN Wrap(Natural(a) \div 2^n)
    [] o = "&"  -> FromBits(Bits(a) \cap Bits(b))
    [] o = "|"  -> FromBits(Bits(a) \cup Bits(b))
    [] o = "^"  -> FromBits((Bits(a) \cup Bits(b)) \ (Bits(a) \cap Bits(b)))
    [] o = "="  -> Truth(a = b)
    [] o = "<>" -> Truth(a # b)
    [] o = "<"  -> Truth(Natural(a) < Natural(b))
    [] o = "<=" -> Truth(Natural(a) <= Natural(b))
    [] o = ">"  -> Truth(Natural(a) > Natural(b))
    [] o = ">=" -> Truth(Natural(a) >= Natural(b))
    [] o = "lt" -> Truth(a < b)
    [] o = "le" -> Truth(a <= b)
    [] o = "gt" -> Truth(a > b)
    [] o = "ge" -> Truth(a >= b)

-----------------------------------------------------------------------------
Entry(v, o, p) == [operand |-> v, operator |-> o, priority |-> p]
Marker(p) == Entry(0, "start", p)

(* math_SP: a marker is one word, an operation three.                        *)
MathSP == FoldSeq(LAMBDA e, n : n + (IF e.operator = "start" THEN 1 ELSE 3), 0, math_stack)

At(k) == IF k <= Len(ln.expr) THEN ln.expr[k] ELSE "end"

(* get_variable skips one unary operator.                                    *)
Sign == IF At(pos) \in Unaries THEN At(pos) ELSE "+"
Start == IF At(pos) \in Unaries THEN pos + 1 ELSE pos

Stop(e, v) ==
  /\ error' = e /\ phase' = "encode" /\ value' = v
  /\ UNCHANGED <<ln, unaries, operator, priority, first_error, words>>

(* An operand: a value, or a label that has none, which is noted.            *)
GetVariable ==
  /\ phase = "operand" /\ At(Start) \in DOMAIN Symbols \cup Unknown
  /\ LET known == At(Start) \in DOMAIN Symbols
     IN  /\ operand' = Unary(Sign, IF known THEN Symbols[At(Start)] ELSE 0)
         /\ first_error' = IF known \/ first_error # EvalOkay THEN first_error ELSE "label_undef"
  /\ pos' = Start + 1 /\ phase' = "operator"
  /\ UNCHANGED <<ln, math_stack, unaries, operator, priority, error, value, words>>

(* A bracket: Eval_inner again, which marks the stack without looking at its *)
(* end.  What happens past the end is undefined, and not followed further.   *)
OpenBracket ==
  /\ phase = "operand" /\ At(Start) = "("
  /\ math_stack' = Append(math_stack, Marker(1)) /\ unaries' = Append(unaries, Sign)
  /\ pos' = Start + 1 /\ operand' = 0
  /\ phase' = IF MathSP < MathStackSize THEN "operand" ELSE "overrun"
  /\ UNCHANGED <<ln, operator, priority, error, first_error, value, words>>

NoVariable ==
  /\ phase = "operand" /\ At(Start) \notin DOMAIN Symbols \cup Unknown \cup {"("}
  /\ operand' = 0 /\ Stop("no_operand", 0) /\ UNCHANGED <<pos, math_stack>>

GetOperator ==
  /\ phase = "operator" /\ At(pos) \in DOMAIN Priorities \cup {")", "end"}
  /\ operator' = At(pos)
  /\ priority' = CASE At(pos) = "end" -> 0 [] At(pos) = ")" -> 1 [] OTHER -> Priorities[At(pos)]
  /\ pos' = IF At(pos) = "end" THEN pos ELSE pos + 1
  /\ phase' = "reduce"
  /\ UNCHANGED <<ln, math_stack, unaries, operand, error, first_error, value, words>>

NoOperator ==
  /\ phase = "operator" /\ At(pos) \notin DOMAIN Priorities \cup {")", "end"}
  /\ Stop("no_operator", operand) /\ UNCHANGED <<pos, math_stack, operand>>

-----------------------------------------------------------------------------
Top == Last(math_stack)

(* Mutant: equal priorities wait, so that operators associate to the right.  *)
ReducesLate == phase = "reduce" /\ priority < Top.priority /\ Top.priority > 1
Reduces == phase = "reduce" /\ priority <= Top.priority /\ Top.priority > 1

Reduce ==
  /\ Reduces
  /\ operand' = Operate(Top.operand, Top.operator, operand)
  /\ error' = IF Divides(Top.operator, operand) /\ error = EvalOkay /\ first_error = EvalOkay THEN "div_by_zero" ELSE error
  /\ math_stack' = Front(math_stack)
  /\ UNCHANGED <<ln, pos, unaries, operator, priority, phase, first_error, value, words>>

(* The operation waits, if there is room for it.                             *)
Push ==
  /\ phase = "reduce" /\ ~Reduces /\ priority > 1
  /\ UNCHANGED <<pos, operand>>
  /\ IF MathSP + 3 <= MathStackSize
     THEN /\ math_stack' = Append(math_stack, Entry(operand, operator, priority))
          /\ IF error # EvalOkay THEN Stop(error, operand)
             ELSE /\ phase' = "operand"
                  /\ UNCHANGED <<ln, unaries, operator, priority, error, first_error, value, words>>
     ELSE Stop("mathstack_limit", operand) /\ UNCHANGED math_stack

(* A terminator meets its marker: the bracket, or the expression, is done.   *)
CloseBracket ==
  /\ phase = "reduce" /\ ~Reduces /\ priority <= 1 /\ priority = Top.priority
  /\ math_stack' = Front(math_stack) /\ UNCHANGED pos
  /\ IF unaries = <<>> \/ error # EvalOkay THEN Stop(error, operand) /\ UNCHANGED operand
     ELSE /\ operand' = Unary(Last(unaries), operand) /\ unaries' = Front(unaries)
          /\ phase' = "operator"
          /\ UNCHANGED <<ln, operator, priority, error, first_error, value, words>>

Unmatched ==
  /\ phase = "reduce" /\ ~Reduces /\ priority <= 1 /\ priority # Top.priority
  /\ Stop(IF priority = 0 THEN "not_closebr" ELSE "not_openbr", operand)
  /\ UNCHANGED <<pos, math_stack, operand>>

-----------------------------------------------------------------------------
(* What evaluate returns: an error that was noted counts when there is no    *)
(* worse one.                                                                *)
EvalError == IF error # EvalOkay THEN error ELSE first_error

Parse == [op |-> ln.op, suffix |-> ln.suffix, regs |-> ln.regs, form |-> ln.form, csr |-> ln.csr, room |-> ln.room,
          value |-> value, error |-> EvalError]
LineCode == Rv32iMnemonic(Parse, ln.pc)

Encode ==
  /\ phase = "encode" /\ phase' = "done"
  /\ words' = Words(LineCode)
  /\ UNCHANGED <<ln, pos, math_stack, unaries, operand, operator, priority, error, first_error, value>>

(* A line without operand, or [base] without offset, does not call evaluate. *)
HasOperand(l) == l.form # "plain" /\ ~(l.form = "base" /\ l.expr = <<>>)

LineInit ==
  /\ ln \in Lines
  /\ pos = 1 /\ math_stack = <<Marker(0)>> /\ unaries = <<>>
  /\ operand = 0 /\ operator = "end" /\ priority = 0 /\ value = 0
  /\ phase = IF HasOperand(ln) THEN "operand" ELSE "encode"
  /\ error = EvalOkay /\ first_error = EvalOkay /\ words = <<>>

LineNext ==
  \/ GetVariable \/ OpenBracket \/ NoVariable \/ GetOperator \/ NoOperator
  \/ Reduce \/ Push \/ CloseBracket \/ Unmatched \/ Encode

LineSpec == LineInit /\ [][LineNext]_lvars

-----------------------------------------------------------------------------
(* The reference for evaluate: an expression is split at its last operator of *)
(* lowest priority outside brackets, and its parts are evaluated first.       *)
Nesting(ts, i) == Len(SelectSeq(SubSeq(ts, 1, i - 1), LAMBDA t : t = "("))
                    - Len(SelectSeq(SubSeq(ts, 1, i - 1), LAMBDA t : t = ")"))
Operands == DOMAIN Symbols \cup Unknown
Splits(ts) == {i \in 2 .. Len(ts) :
                 ts[i] \in DOMAIN Priorities /\ ts[i - 1] \in Operands \cup {")"} /\ Nesting(ts, i) = 0}
SplitAt(ts) == CHOOSE i \in Splits(ts) : \A j \in Splits(ts) \ {i} :
                 Priorities[ts[i]] < Priorities[ts[j]] \/ (Priorities[ts[i]] = Priorities[ts[j]] /\ j < i)
Left(ts)  == SubSeq(ts, 1, SplitAt(ts) - 1)
Right(ts) == SubSeq(ts, SplitAt(ts) + 1, Len(ts))
Body(ts)  == IF Head(ts) \in Unaries THEN Tail(ts) ELSE ts
Inner(ts) == SubSeq(ts, 2, Len(ts) - 1)

RECURSIVE WellFormed(_)
WellFormed(ts) ==
  /\ ts # <<>>
  /\ IF Splits(ts) # {} THEN WellFormed(Left(ts)) /\ WellFormed(Right(ts))
     ELSE \/ Len(Body(ts)) = 1 /\ Head(Body(ts)) \in Operands
          \/ Len(Body(ts)) > 2 /\ Head(Body(ts)) = "(" /\ Last(ts) = ")" /\ WellFormed(Inner(Body(ts)))

RECURSIVE Result(_)
Result(ts) ==
  IF Splits(ts) # {} THEN Operate(Result(Left(ts)), ts[SplitAt(ts)], Result(Right(ts)))
  ELSE Unary(IF Head(ts) \in Unaries THEN Head(ts) ELSE "+",
             IF Head(Body(ts)) = "(" THEN Result(Inner(Body(ts)))
             ELSE IF Head(Body(ts)) \in Unknown THEN 0 ELSE Symbols[Head(Body(ts))])

RECURSIVE DividesByZero(_)
DividesByZero(ts) ==
  IF Splits(ts) # {}
  THEN \/ DividesByZero(Left(ts)) \/ DividesByZero(Right(ts))
       \/ ts[SplitAt(ts)] = "/" /\ Result(Right(ts)) = 0
  ELSE Head(Body(ts)) = "(" /\ DividesByZero(Inner(Body(ts)))

(* evaluate accepts exactly the well-formed expressions that fit its stack,   *)
(* with the value that priorities, left association and brackets give them;   *)
(* a division by zero and a label without a value are never lost.             *)
EvalExact ==
  (phase = "done" /\ HasOperand(ln)) =>
    LET undefined == \E i \in DOMAIN ln.expr : ln.expr[i] \in Unknown
        well == WellFormed(ln.expr)
    IN  /\ error = EvalOkay => well /\ value = Result(ln.expr) /\ (first_error = EvalOkay <=> ~undefined)
        /\ EvalError = EvalOkay => ~DividesByZero(ln.expr)
        /\ error \notin {EvalOkay, "mathstack_limit", "div_by_zero"} => ~well
        /\ (error = "div_by_zero" /\ well) => DividesByZero(ln.expr)

-----------------------------------------------------------------------------
Target == value - ln.pc
InJalRange == Target \in -(2^20) .. (2^20 - 1)

(* The instructions that other names stand for.                              *)
Immediates == WithOpcode(19) \cup WithOpcode(27)
Shifts     == {"slli", "srli", "srai", "slliw", "srliw", "sraiw"}
Swapped    == [bgt |-> "blt", ble |-> "bge", bgtu |-> "bltu", bleu |-> "bgeu"]
FromZero   == [beqz |-> "beq", bnez |-> "bne", bgez |-> "bge", bltz |-> "blt"]   \* r against x0
ToZero     == [blez |-> "bge", bgtz |-> "blt"]                                   \* x0 against r
System     == [ecall |-> 0, ebreak |-> 1, uret |-> 2, sret |-> 258, mret |-> 770, wfi |-> 261]
CsrRegs    == {"csrrw", "csrrs", "csrrc"}
CsrBits    == {"csrrwi", "csrrsi", "csrrci"}
CsrWrites  == [csrw |-> "csrrw", csrs |-> "csrrs", csrc |-> "csrrc"]
CsrSets    == [csrwi |-> "csrrwi", csrsi |-> "csrrsi", csrci |-> "csrrci"]
ReadOnly   ==
  [rdcycle |-> 3072, rdtime |-> 3073, rdinstret |-> 3074, rdcycleh |-> 3200, rdtimeh |-> 3201,
   rdinstreth |-> 3202, frflags |-> 1, frrm |-> 2, frcsr |-> 3]
Status     == [fsflags |-> 1, fsrm |-> 2, fscsr |-> 3]
Moves(r) ==
  [mv |-> Insn("addi", r[1], r[2], 0, 0), not |-> Insn("xori", r[1], r[2], 0, -1),
   neg |-> Insn("sub", r[1], 0, r[2], 0), negw |-> Insn("subw", r[1], 0, r[2], 0),
   sextw |-> Insn("addiw", r[1], r[2], 0, 0), seqz |-> Insn("sltiu", r[1], r[2], 0, 1),
   snez |-> Insn("sltu", r[1], 0, r[2], 0), sltz |-> Insn("slt", r[1], r[2], 0, 0),
   sgtz |-> Insn("slt", r[1], 0, r[2], 0)]
AtomicBits(suffix) ==
  (IF "rl" \in suffix THEN 1 ELSE 0) + (IF "aq" \in suffix THEN 2 ELSE 0) + (IF "d" \in suffix THEN 4 ELSE 0)

(* What a line asks for, given the instructions ds that its words are.       *)
Asks(ds) ==
  LET o == ln.op
      r == [k \in 1 .. 3 |-> IF k <= Len(ln.regs) THEN ln.regs[k] ELSE 0]
      n == Len(ds)
      d == ds[n]
      address == Leaves(ds, n - 1, d.rs1, ln.pc) + d.imm
  IN  CASE o \in {"lui", "auipc"} -> d = Insn(o, r[1], 0, 0, value)
        [] o \in Immediates -> d = Insn(o, r[1], r[2], 0, value)
        [] o = "subi" -> d = Insn("addi", r[1], r[2], 0, 0 - value)
        [] o = "jal" -> d = Insn("jal", IF ln.regs = <<>> THEN 1 ELSE r[1], 0, 0, Target)
        [] o \in WithOpcode(99) -> d = Insn(o, 0, r[1], r[2], Target)
        [] o \in DOMAIN Swapped -> d = Insn(Swapped[o], 0, r[2], r[1], Target)
        [] o \in WithOpcode(3) -> IF ln.form = "base" THEN d = Insn(o, r[1], r[2], 0, value)
                                  ELSE d.name = o /\ d.rd = r[1] /\ address = value
        [] o \in WithOpcode(35) -> IF ln.form = "base" THEN d = Insn(o, 0, r[2], r[1], value)
                                   ELSE d.name = o /\ d.rs2 = r[1] /\ address = value
        [] o = "jalr" -> d = IF ln.form = "plain" THEN Insn("jalr", 1, r[1], 0, 0)
                             ELSE Insn("jalr", r[1], r[2], 0, value)
        [] o \in WithOpcode(51) \cup WithOpcode(59) -> d = Insn(o, r[1], r[2], r[3], 0)
        [] o = "fence" -> d = Insn("fence", 0, 0, 0, IF r[1] = 0 THEN 255 ELSE (16 * r[1]) + r[2])
        [] o = "fencei" -> d = Insn("fencei", 0, 0, 0, 0)
        [] o \in DOMAIN System -> d = Insn("system", 0, 0, 0, System[o])
        [] o \in CsrRegs -> d = Insn(o, r[1], r[2], 0, ln.csr)
        [] o \in CsrBits -> d = Insn(o, r[1], value, 0, ln.csr)
        [] o = "csrr" -> d = Insn("csrrs", r[1], 0, 0, ln.csr)
        [] o \in DOMAIN CsrWrites -> d = Insn(CsrWrites[o], 0, r[1], 0, ln.csr)
        [] o \in DOMAIN CsrSets -> d = Insn(CsrSets[o], 0, value, 0, ln.csr)
        [] o \in DOMAIN ReadOnly -> d = Insn("csrrs", r[1], 0, 0, ReadOnly[o])
        [] o \in DOMAIN Status -> d = IF Len(ln.regs) = 1 THEN Insn("csrrw", 0, r[1], 0, Status[o])
                                      ELSE Insn("csrrw", r[1], r[2], 0, Status[o])
        [] o = "nop" -> d = Insn("addi", 0, 0, 0, 0)
        [] o = "ret" -> d = Insn("jalr", 0, 1, 0, 0)
        [] o = "illegal" -> d.name = "none"
        [] o = "jr" -> d = Insn("jalr", 0, r[1], 0, 0)
        [] o = "j" -> d = Insn("jal", 0, 0, 0, Target)
        [] o \in DOMAIN Moves(r) -> d = Moves(r)[o]
        [] o \in DOMAIN FromZero -> d = Insn(FromZero[o], 0, r[1], 0, Target)
        [] o \in DOMAIN ToZero -> d = Insn(ToZero[o], 0, 0, r[1], Target)
        [] o \in {"li", "la", "lla"} -> Leaves(ds, n, r[1], ln.pc) = value
        [] o \in {"call", "tail"} ->
             /\ d.rd = IF o = "call" THEN 1 ELSE 0
             /\ d.name = "jal" => d.imm = Target - (4 * (n - 1))
             /\ d.name # "jal" => d.name = "jalr" /\ address = value
        [] o = "lr" -> d = Insn("lr", r[1], r[2], 0, AtomicBits(ln.suffix))
        [] o \in WithOpcode(47) \ {"lr"} -> d = Insn(o, r[1], r[3], r[2], AtomicBits(ln.suffix))

(* Three accepted lines do not do what they say: a TAIL within reach of JAL   *)
(* links x1 like a CALL, such a jump kept at two words has a first word       *)
(* without an opcode, and J to an odd address loses its last bit.             *)
Wrong ==
  \/ ln.op = "tail" /\ InJalRange
  \/ ln.op = "call" /\ InJalRange /\ ln.room = 8
  \/ ln.op = "j" /\ Target % 2 = 1

(* The words of an accepted line are, by the manual, the instructions the     *)
(* line asks for, with its registers and its operand in the right fields:     *)
(* LI and LA leave the value, loads, stores and jumps reach the address.      *)
DecodeExact ==
  (phase = "done" /\ EvalError = EvalOkay /\ LineCode.error = EvalOkay) =>
    (Asks([i \in DOMAIN words |-> Decode(words[i])]) <=> ~Wrong)

(* Can the operand of the line be encoded?                                    *)
Encodable ==
  LET o == ln.op IN
  CASE o \in {"lui", "auipc"} -> value % 4096 = 0
    [] o \in {"jal", "j"} -> InJalRange /\ Target % 2 = 0
    [] o \in Immediates \ Shifts -> value \in -2048 .. 2047
    [] o = "subi" -> value \in -2047 .. 2048
    [] o \in Shifts -> value \in 0 .. 31
    [] o \in WithOpcode(99) \cup UNION {DOMAIN Swapped, DOMAIN FromZero, DOMAIN ToZero} ->
         Target \in -4096 .. 4095 /\ Target % 2 = 0
    [] o \in WithOpcode(3) \cup WithOpcode(35) -> ln.form = "global" \/ value \in -2048 .. 2047
    [] o = "jalr" -> ln.form = "plain" \/ (ln.form = "base" /\ value \in -2048 .. 2047)
    [] o \in CsrBits \cup DOMAIN CsrSets -> ln.csr \in 0 .. 4095 /\ value \in 0 .. 31
    [] o \in CsrRegs \cup {"csrr"} \cup DOMAIN CsrWrites -> ln.csr \in 0 .. 4095
    [] o \in {"call", "tail"} -> Target % 2 = 0
    [] o = "fence" -> Len(ln.regs) = 1 => ln.regs[1] = 0
    [] OTHER -> TRUE

(* A line is accepted exactly if its operand can be encoded: each range check *)
(* of rv32i_mnemonic ends at the last value of its field, for negated, signed *)
(* and unsigned operands and for offsets alike.  The one line that is taken   *)
(* and cannot be encoded is a J within reach of an odd address.               *)
RangeExact ==
  (phase = "done" /\ EvalError = EvalOkay) =>
    (LineCode.error = EvalOkay <=> Encodable \/ (ln.op = "j" /\ InJalRange /\ Target % 2 = 1))
=============================================================================
