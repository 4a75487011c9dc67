------------------------------- MODULE MCAsm --------------------------------
(* The assembler in two parts: sources read pass by pass ("passes"), and one  *)
(* instruction line evaluated and encoded in the last pass ("line").  A       *)
(* behaviour belongs to one of them.                                          *)
EXTENDS RvPass, RvLine

(* Sources of four lines with the labels A, B and X.  Words have 6 bits there,*)
(* ADDI reaches 8 values and JAL 16.                                          *)
E(k, p, m) == [k |-> k, plus |-> p, minus |-> m]
Src(n, op, e) == [label |-> n, op |-> op, e |-> e]

First == {Src("A", "LI", E(0, "X", None)), Src("A", "CALL", E(0, "B", None)), Src("A", "CALL", E(0, "X", None)),
          Src("A", "ALIGN", E(8, None, None)), Src("A", None, E(0, None, None)), Src("X", "EQU", E(1, "B", None)),
          Src("A", "MEM", E(0, "B", None)), Src("A", "RECORD", E(0, "X", None)), Src(None, "IF", E(0, "B", None)),
          Src("A", "LA", E(0, "B", None)), Src("A", "ORG", E(0, "X", None)), Src(None, "MEM", E(0, "N", None)),
          Src("A", "ALIGN_FILL", E(8, None, None)), Src("A", "OFFSET", E(0, "X", None)), Src("A", "REC_ALIGN", E(0, "X", None))}
Middle == {Src(None, "LI", E(k, p, None)) : k \in {1, 3}, p \in {"A", "B", "X"}}
  \cup {Src("B", "CALL", E(24, "X", None)), Src("B", "DEFW", E(2, ".", "A")), Src("A", "INS", E(0, "B", None)),
        Src(None, "IF", E(0, None, None)), Src(None, "IF", E(1, None, None)), Src(None, "DEFS", E(12, None, None)), Src(None, "DEFS", E(56, None, None)),
        Src("B", "WORD", E(2, None, None)), Src("B", "REC_ALIGN", E(4, None, None)), Src("B", "BYTE", E(0, "X", None)), Src("B", "ALIGN_FILL", E(16, None, None)),
        Src("B", "ORG", E(40, None, None)), Src("B", "ELSE", E(0, None, None))}
Third == Middle \cup {Src(None, "ELSE", E(0, None, None)), Src("B", None, E(0, None, None)), Src("B", "EQU", E(5, "A", None))}
Final == {Src("X", "EQU", E(k, "A", "B")) : k \in {4, 12, 23}} \cup {Src("X", "EQU", E(1, "X", None)), Src("X", "INS", E(0, "B", None)),
         Src("B", "FI", E(0, None, None)), Src("X", "LI", E(0, "B", None))}

Programs == {<<a, b, c, d>> : a \in First, b \in Middle, c \in Third, d \in Final}

-----------------------------------------------------------------------------
(* Lines of every instruction with operands at the limits of its fields, and *)
(* a line of LI with every shape of expression.  Words have 22 bits here,     *)
(* which is one more than the reach of JAL.                                   *)
Values ==
  ("0" :> 0) @@ ("2" :> 2) @@ ("3" :> 3) @@ ("5" :> 5) @@ ("m" :> -6)
    @@ ("31" :> 31) @@ ("32" :> 32) @@ ("2047" :> 2047) @@ ("2048" :> 2048) @@ ("-2048" :> -2048) @@ ("-2049" :> -2049)
    @@ ("4095" :> 4095) @@ ("4350" :> 4350) @@ ("4352" :> 4352) @@ ("-3840" :> -3840) @@ ("-3842" :> -3842)
    @@ ("8192" :> 8192) @@ ("-4096" :> -4096)
    @@ ("far" :> 2^20 - 2) @@ ("farther" :> 2^20 + 254) @@ ("past" :> 2^20 + 256) @@ ("back" :> 256 - 2^20)
    @@ ("behind" :> 254 - 2^20) @@ ("b11" :> 2^16 + 2304) @@ ("odd" :> 2^20 + 257)

OneLine(op, regs, form, csr, room, pc, e) ==
  [op |-> op, suffix |-> {}, regs |-> regs, form |-> form, csr |-> csr, room |-> room, pc |-> pc, expr |-> e]
Pcs == {0, 256}
Each(ops, regs, form) ==
  {OneLine(o, rs, form, c, 4, pc, <<v>>) : o \in ops, rs \in regs, c \in {768}, pc \in Pcs, v \in DOMAIN Values \cup {"u"}}
Plain(ops, regs, csrs) == {OneLine(o, rs, "plain", c, 4, 256, <<>>) : o \in ops, rs \in regs, c \in csrs}

Branches == WithOpcode(99) \cup DOMAIN Swapped
Loads    == WithOpcode(3)
Stores   == WithOpcode(35)

(* A line with each token of the mnemonics file.                             *)
Instructions ==
  Each({"lui", "auipc"}, {<<5>>, <<31>>}, "value") \cup Each({"jal"}, {<<>>, <<5>>}, "value")
  \cup Each(Immediates \cup {"subi"}, {<<5, 26>>}, "value")
  \cup Each(Branches, {<<5, 26>>}, "value") \cup Each(DOMAIN FromZero \cup DOMAIN ToZero, {<<21>>}, "value")
  \cup Each(Loads \cup Stores \cup {"jalr"}, {<<5, 26>>}, "base") \cup Each(Loads \cup {"jalr"}, {<<5>>}, "global")
  \cup Each(Stores, {<<5, 26>>}, "global") \cup Each({"j"}, {<<>>}, "value")
  \cup Each(CsrBits, {<<9>>}, "value") \cup Each(DOMAIN CsrSets, {<<>>}, "value")
  \cup {OneLine(o, <<5>>, "value", 4096, 4, 0, <<"3">>) : o \in CsrBits \cup DOMAIN CsrSets}
  \cup {[l EXCEPT !.room = n] : l \in Each({"li", "la", "lla"}, {<<5>>}, "value") \cup Each({"call", "tail"}, {<<>>}, "value"), n \in {4, 8}}
  \cup {OneLine(o, <<5, 26>>, "base", 0, 4, 0, <<>>) : o \in {"lw", "sw", "jalr"}}
  \cup Plain(WithOpcode(51) \cup WithOpcode(59), {<<5, 26, 19>>, <<31, 1, 16>>}, {0})
  \cup {[l EXCEPT !.suffix = f] : l \in Plain(WithOpcode(47) \ {"lr"}, {<<5, 26, 19>>, <<31, 1, 16>>}, {0}) \cup Plain({"lr"}, {<<5, 26>>}, {0}),
                                   f \in SUBSET DOMAIN SuffixBit}
  \cup Plain(DOMAIN Moves(<<0, 0>>) \cup CsrRegs, {<<5, 26>>, <<31, 1>>}, {768, 4095, 4096})
  \cup Plain({"jalr", "jr", "csrr"} \cup DOMAIN CsrWrites \cup DOMAIN ReadOnly, {<<5>>, <<26>>}, {768, 4096})
  \cup Plain(DOMAIN Status, {<<5>>, <<5, 26>>}, {0}) \cup Plain({"fence"}, {<<>>, <<3>>, <<12, 3>>, <<15, 1>>}, {0})
  \cup Plain({"nop", "ret", "illegal", "fencei"} \cup DOMAIN System, {<<>>}, {0})
ASSUME EveryMnemonic == {l.op : l \in Instructions} = DOMAIN Mnemonics

Operators == DOMAIN Priorities
Ranks == {"+", "-", "*", "/", "^", "&", "<<", "lt"}
Tokens == {"0", "5", "u", "(", ")", "+", "-", "~", "|", "*", "/"}

Expressions ==
  UNION {[1 .. n -> Tokens] : n \in 0 .. 3}
  \cup {<<a, o, b, p, c>> : a \in {"5", "m"}, o \in Operators, b \in {"3", "0"}, p \in Operators, c \in {"2", "u"}}
  \cup {<<a, o, b, p, "3", q, "2">> : a \in {"5", "0"}, o \in Ranks, b \in {"m", "0"} , p \in Ranks, q \in Ranks}
  \cup {<<s, "(", "5", o, "3", ")", p, "2">> : s \in Unaries, o \in Operators, p \in Operators}
  \cup {<<"m", o, s, "(", "2", p, "3", ")", q, "2">> : s \in {"+", "-"}, o \in Ranks, p \in {"-", "/", "lt"}, q \in Ranks}
  \cup {<<"3", "+", "(", "3", "+", "(", "(", "(", t>> : t \in {"(", "3"}}
  \cup {<<"3", "+", "(", "3", "*", "(", "3", "&", "2", ")", ")">>, <<"3", "+", "(", "3", "*", "2", "&", "2", "<<", "2", ")">>}

AllLines == Instructions \cup {OneLine("li", <<5>>, "value", 0, 8, 0, e) : e \in Expressions}

-----------------------------------------------------------------------------
VARIABLE part
asmVars == <<part, avars, lvars>>

(* The part that is not under test: an assembler at its first line, and a     *)
(* line of no operand that is encoded already.                                *)
NoPasses ==
  /\ source = <<>> /\ line = 1 /\ labels = [n \in {} |-> 0] /\ sizes = <<>> /\ out = <<>> /\ st = PassStart
  /\ pass_count = 0 /\ last_pass = FALSE /\ dump_code = FALSE /\ finished = FALSE
NoLine ==
  /\ ln = OneLine("nop", <<>>, "plain", 0, 4, 0, <<>>) /\ phase = "done" /\ words = <<{0, 1, 4}>>
  /\ pos = 1 /\ math_stack = <<>> /\ unaries = <<>> /\ operand = 0 /\ operator = "end" /\ priority = 0
  /\ value = 0 /\ error = EvalOkay /\ first_error = EvalOkay

MCInit == (part = "passes" /\ AsmInit /\ NoLine) \/ (part = "line" /\ LineInit /\ NoPasses)
MCNext ==
  /\ UNCHANGED part
  /\ (part = "passes" /\ AsmNext /\ UNCHANGED lvars) \/ (part = "line" /\ LineNext /\ UNCHANGED avars)
MCSpec == MCInit /\ [][MCNext]_asmVars
=============================================================================
