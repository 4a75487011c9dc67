------------------------------- MODULE RvPass -------------------------------
(* The passes of the assembler, tools/assembler/rva.c: it reads the source    *)
(* again and again until no label has moved, then once more to emit code.      *)
(* Some instructions take one or two words, depending on label values that     *)
(* depend on the sizes of instructions.  One action is one source line; a      *)
(* source is given with its INCLUDE files expanded.                            *)
EXTENDS Integers, Sequences, SequencesExt

CONSTANTS Sources,      \* sources: sequences of [label, op, e]
          MaxPasses,    \* MAX_PASSES
          ShrinkStop,   \* SHRINK_STOP
          IfStackSize,  \* IF_STACK_SIZE
          Mod,          \* 2^32
          ImmRange,     \* 2^12, what ADDI reaches around 0
          JalRange      \* 2^21, what JAL reaches around 0

None == ""
Okay == "okay"

Sized    == {"LI", "LA", "CALL"}                          \* one or two words
Instr    == {"INS", "OFFSET"}                             \* one word; OFFSET is offset[base]
Element  == [ALIAS |-> 0, BYTE |-> 1, HALFWORD |-> 2, WORD |-> 4, DOUBLE |-> 8]
Records  == DOMAIN Element \cup {"RECORD", "REC_ALIGN"}
Aligns   == {"ALIGN", "ALIGN_FILL"}                       \* the latter with a fill value
Unplaced == {"EQU", "ORG"} \cup Aligns \cup Records       \* labelled after their operand is read
Ops      == Sized \cup Unplaced \cup Instr \cup {None, "MEM", "DEFW", "DEFS", "IF", "ELSE", "FI"}
Names    == STRING \cup {None}
SourceLine ==
  [label : Names, op : Ops, e : [k : Int, plus : Names, minus : Names]]

ASSUME PassAssumption ==
  /\ MaxPasses \in Nat /\ ShrinkStop \in Nat /\ IfStackSize \in Nat
  /\ Mod \in Nat /\ Mod > 4 /\ ImmRange \in 2 .. Mod /\ JalRange \in 2 .. Mod
ASSUME SourceAssumption == Sources \subseteq Seq(SourceLine)

VARIABLES source,   \* the source being assembled
          line,     \* the next line of it
          labels,   \* symbol_table: name -> [value, def, pass]
          sizes,    \* size_record_list, kept from pass to pass
          st,       \* the variables that every pass initialises
          pass_count, last_pass, dump_code, finished,
          out       \* what has been emitted in the last pass

avars == <<source, line, labels, sizes, st, pass_count, last_pass, dump_code, finished, out>>

(* The start of a pass.  span is no variable of the code: it is what          *)
(* assembly_pointer has been advanced by in the pass, without the wrap at 2^32.*)
PassStart ==
  [assembly_pointer |-> 0, defined |-> TRUE, data_pointer |-> 0, errors |-> 0,
   undefined_count |-> 0, defined_count |-> 0, redefined_count |-> 0,
   if_stack |-> <<>>, item |-> 1, span |-> 0]

FirstPass == pass_count = 0

(* allow_error.                                                              *)
Allowed(error) ==
  \/ error \in {"label_undef", "oorange"} /\ ~last_pass
  \/ error = "no_label" /\ FirstPass
Forgiven(error) == IF Allowed(error) THEN Okay ELSE error

-----------------------------------------------------------------------------
(* get_variable for a label, the current position (".") or nothing.          *)
Operand(t, s, n) ==
  CASE n = None -> [value |-> 0, error |-> Okay, undef |-> 0]
    [] n = "."  -> IF s.defined THEN [value |-> s.assembly_pointer, error |-> Okay, undef |-> 0]
                   ELSE [value |-> 0, error |-> "label_undef", undef |-> 0]
    [] n \notin DOMAIN t \cup {None, "."} -> [value |-> 0, error |-> "no_label", undef |-> 0]
    [] n \in DOMAIN t \ {None, "."} ->
         IF t[n].def THEN [value |-> t[n].value, error |-> Okay, undef |-> 0]
         ELSE [value |-> 0, error |-> "label_undef", undef |-> 1]

(* evaluate, for e.k + e.plus - e.minus: the first error is reported.        *)
Evaluate(t, s, e) ==
  LET p == Operand(t, s, e.plus)
      m == Operand(t, s, e.minus)
  IN  [value |-> (e.k + p.value - m.value) % Mod,
       error |-> IF p.error # Okay THEN p.error ELSE m.error,
       undef |-> p.undef + m.undef]

(* Mutant: a label that moved is not counted.                                *)
RedefLabelUncounted(t, s, n, value, error) ==
  LET old == IF n \in DOMAIN t THEN t[n] ELSE [value |-> 0, def |-> FALSE, pass |-> pass_count]
  IN  [labels |-> [x \in DOMAIN t \cup {n} |->
                     IF x = n THEN [value |-> value, def |-> error = Okay, pass |-> pass_count] ELSE t[x]],
       st |-> IF error = Okay /\ ~old.def THEN [s EXCEPT !.defined_count = @ + 1] ELSE s,
       error |-> Forgiven(error)]

(* assemble_redef_label: [labels, st, error] after the label n of the line   *)
(* got a value.  A second definition in a pass must agree with the first.    *)
RedefLabel(t, s, n, value, error) ==
  LET old   == IF n \in DOMAIN t THEN t[n] ELSE [value |-> 0, def |-> FALSE, pass |-> pass_count]
      again == old.pass = pass_count /\ old.def
      given == error = Okay
      def   == IF again THEN TRUE ELSE given
  IN  [labels |-> [x \in DOMAIN t \cup {n} |->
                     IF x = n THEN [value |-> value, def |-> def, pass |-> pass_count] ELSE t[x]],
       st |-> IF again \/ ~given THEN s
              ELSE IF ~old.def THEN [s EXCEPT !.defined_count = @ + 1]
              ELSE IF old.value # value THEN [s EXCEPT !.redefined_count = @ + 1]
              ELSE s,
       error |-> IF ~again THEN (IF given THEN Okay ELSE Forgiven(error))
                 ELSE IF given /\ value = old.value THEN error ELSE "inconsistent"]

(* The label of a line, if it has one.                                       *)
Labelled(t, s, n, value, error) ==
  IF n = None THEN [labels |-> t, st |-> s, error |-> error] ELSE RedefLabel(t, s, n, value, error)

Here(s) == IF s.defined THEN Okay ELSE "undefined_pointer"

-----------------------------------------------------------------------------
(* Is the innermost IF true?                                                 *)
Assembling(s) == s.if_stack = <<>> \/ Last(s.if_stack) # 0

Advance(s, n) == [s EXCEPT !.assembly_pointer = (@ + n) % Mod, !.span = @ + n]
Count(s, v) == [s EXCEPT !.undefined_count = @ + v.undef]

(* What a line contributes: table, pass state, sizes, emitted code, error.   *)
Line(t, s, z, o, error) == [labels |-> t, st |-> s, sizes |-> z, out |-> o, error |-> error]

(* byte_dump: only in the last pass, and only where IF allows it.            *)
Dump(s, o, item) == IF last_pass /\ dump_code /\ Assembling(s) THEN Append(o, item) ELSE o

Item(addr, size, e, ok, value) == [addr |-> addr, size |-> size, e |-> e, ok |-> ok, value |-> value]

(* Mutant: an item may always shrink.                                        *)
VariableItemSizeShrinks(z, i, size) == IF FirstPass THEN Append(z, size) ELSE [z EXCEPT ![i] = size]

(* variable_item_size: the list of sizes after item i asked for size.        *)
VariableItemSize(z, i, size) ==
  IF FirstPass THEN Append(z, size)
  ELSE IF pass_count < ShrinkStop \/ z[i] < size THEN [z EXCEPT ![i] = size]
  ELSE z

(* The bytes that LI, LA and CALL need for the value v.                      *)
Odd(op, v, s) == op = "CALL" /\ (v - s.assembly_pointer) % 2 = 1

Needs(op, v, s) ==
  CASE Odd(op, v, s) -> 8
    [] op = "LI"   -> IF (v + ImmRange \div 2) % Mod < ImmRange \/ v % ImmRange = 0 THEN 4 ELSE 8
    [] op = "LA"   -> 8
    [] op = "CALL" /\ ~Odd(op, v, s) ->
         IF (v - s.assembly_pointer + JalRange \div 2) % Mod < JalRange THEN 4 ELSE 8

(* Mutant: the first word of a long item takes no space.                     *)
LongNoPrefix(l, s0, t) ==
  LET v    == Evaluate(t, s0, l.e)
      s    == Count(s0, v)
      z    == VariableItemSize(sizes, s.item, Needs(l.op, v.value, s))
      size == z[s.item]
  IN  Line(t, [(IF Assembling(s) THEN Advance(s, 4) ELSE s) EXCEPT !.item = @ + 1], z,
           Dump(s, out, Item(s.assembly_pointer, size, l.e, TRUE, v.value)), Forgiven(v.error))

(* LI, LA and CALL.  The first word of two moves assembly_pointer even where  *)
(* IF is false.  LI and LA are the same instructions in both sizes; a short   *)
(* CALL in a long place gets a first word without an opcode, and a JAL whose  *)
(* offset is that of the first word.  A CALL to an odd address is an error.   *)
Long(l, s0, t) ==
  LET v    == Evaluate(t, s0, l.e)
      s    == Count(s0, v)
      need == Needs(l.op, v.value, s)
      z    == VariableItemSize(sizes, s.item, need)
      size == z[s.item]
      past == Advance(s, size - 4)
      fits == l.op # "CALL" \/ need = size
      item == Item(s.assembly_pointer, size, l.e, fits, IF fits THEN v.value ELSE (v.value + 4) % Mod)
  IN  Line(t, [(IF Assembling(s) THEN Advance(past, 4) ELSE past) EXCEPT !.item = @ + 1], z,
           Dump(s, out, item), Forgiven(IF Odd(l.op, v.value, s) THEN "oorange" ELSE v.error))

(* Any other instruction: its operand is evaluated in the first and the last *)
(* pass only, but for loads and stores, whose tokens have the flag of items  *)
(* of variable length.                                                       *)
OperandRead(l) == FirstPass \/ last_pass \/ l.op = "OFFSET"

Fixed(l, s0, t) ==
  LET v == Evaluate(t, s0, l.e)
      s == IF OperandRead(l) THEN Count(s0, v) ELSE s0
  IN  Line(t, IF Assembling(s) THEN Advance(s, 4) ELSE s, sizes,
           Dump(s, out, Item(s.assembly_pointer, 4, l.e, TRUE, v.value)),
           IF OperandRead(l) THEN Forgiven(v.error) ELSE Okay)

(* A load or store of a label: AUIPC in front of it, as for Long.            *)
Global(l, s0, t) ==
  LET v == Evaluate(t, s0, l.e)
      s == Count(s0, v)
      past == Advance(s, 4)
      error == Forgiven(v.error)
  IN  IF error # Okay THEN Line(t, IF Assembling(s) THEN Advance(s, 4) ELSE s, sizes, out, error)
      ELSE Line(t, IF Assembling(s) THEN Advance(past, 4) ELSE past, sizes,
                Dump(s, out, Item(s.assembly_pointer, 8, l.e, TRUE, v.value)), Okay)

(* DEFW (assemble_define) and DEFS, which emits nothing: its form with a fill *)
(* value is left out, see ALIGN_FILL for what fill_space does.                *)
Define(l, s0, t) ==
  LET v == Evaluate(t, s0, l.e)
      s == Count(s0, v)
      n == IF l.op = "DEFW" THEN 4 ELSE v.value
      error == Forgiven(v.error)
  IN  Line(t, IF Assembling(s) /\ error = Okay THEN Advance(s, n) ELSE s, sizes,
           IF l.op = "DEFW" /\ error = Okay THEN Dump(s, out, Item(s.assembly_pointer, 4, l.e, TRUE, v.value)) ELSE out,
           error)

(* IF, ELSE and FI.  A condition with an error is -1 and the error stands.   *)
Conditional(l, s0, t) ==
  LET v == Evaluate(t, s0, l.e)
      s == Count(s0, v)
      depth == Len(s0.if_stack)
  IN  CASE l.op = "IF" /\ depth >= IfStackSize -> Line(t, s0, sizes, out, "many_ifs")
        [] l.op = "IF" /\ depth < IfStackSize  ->
             Line(t, [s EXCEPT !.if_stack = Append(@, IF v.error = Okay THEN v.value ELSE Mod - 1)],
                  sizes, out, v.error)
        [] l.op # "IF" /\ depth = 0 -> Line(t, s0, sizes, out, "no_if")
        [] l.op = "ELSE" /\ depth > 0 ->
             Line(t, [s0 EXCEPT !.if_stack[depth] = Mod - 1 - @], sizes, out, Okay)
        [] l.op = "FI" /\ depth > 0 -> Line(t, [s0 EXCEPT !.if_stack = Front(@)], sizes, out, Okay)

(* EQU and ORG are not subject to IF; an ORG that is not known yet leaves     *)
(* the position undefined.                                                   *)
Equ(l, s0, t) ==
  LET v == Evaluate(t, s0, l.e)
      r == RedefLabel(t, Count(s0, v), l.label, v.value, v.error)
  IN  Line(r.labels, r.st, sizes, out, r.error)

Org(l, s0, t) ==
  LET v == Evaluate(t, s0, l.e)
      s == [Count(s0, v) EXCEPT !.assembly_pointer = v.value, !.defined = v.error = Okay]
      e == Forgiven(v.error)
      r == Labelled(t, s, l.label, v.value, IF e = Okay THEN Here(s) ELSE e)
  IN  Line(r.labels, r.st, sizes, out, IF r.error = "undefined_pointer" THEN Okay ELSE r.error)

(* ALIGN: the bytes to the next multiple (ALIGN alone is ALIGN 4); a label is *)
(* put behind them.  With a fill value, here a number, they are emitted and   *)
(* the label is in front.                                                     *)
Gap(s, n) == IF n = 0 THEN 0 ELSE n - 1 - (((s.assembly_pointer - 1) % Mod) % n)
Number == [k |-> 0, plus |-> None, minus |-> None]

Align(l, s0, t) ==
  LET v == Evaluate(t, s0, l.e)
      s == Count(s0, v)
      g == Gap(s, v.value)
      n == IF l.op = "ALIGN" THEN g ELSE 0
      r == Labelled(t, s, l.label, (s.assembly_pointer + n) % Mod, Here(s))
      o == Item(s.assembly_pointer, g, Number, TRUE, 0)
  IN  IF v.error # Okay THEN Line(t, s, sizes, out, v.error)
      ELSE Line(r.labels, IF Assembling(s) THEN Advance(r.st, g) ELSE r.st, sizes,
                IF l.op = "ALIGN" \/ g = 0 THEN out ELSE Dump(s, out, o),
                IF r.error = "undefined_pointer" THEN Okay ELSE r.error)

(* The operand of a record's line that has none, or none yet.                *)
Absent(op) == IF op = "RECORD" THEN 0 ELSE IF op = "REC_ALIGN" THEN 4 ELSE 1

(* The data pointer d for the label of a record's line: RECORD sets it,      *)
(* REC_ALIGN moves it on, by a whole unit where it is aligned already.       *)
RecordAt(op, d, n) ==
  IF op = "RECORD" THEN n
  ELSE IF op = "REC_ALIGN" /\ n # 0 THEN (d - (d % n) + n) % Mod
  ELSE d

(* The data pointer behind the line: n elements further.                     *)
RecordPast(op, d, n) == IF op \in DOMAIN Element THEN (d + (Element[op] * n)) % Mod ELSE d

Record(l, s0, t) ==
  LET v == Evaluate(t, s0, l.e)
      e == Forgiven(v.error)
      n == IF v.error # Okay /\ e = Okay THEN Absent(l.op) ELSE v.value
      s == [Count(s0, v) EXCEPT !.data_pointer = RecordAt(l.op, @, n)]
      r == Labelled(t, s, l.label, s.data_pointer, Okay)
  IN  IF e # Okay THEN Line(t, Count(s0, v), sizes, out, e)
      ELSE Line(r.labels, [r.st EXCEPT !.data_pointer = RecordPast(l.op, @, n)], sizes, out, r.error)

(* assemble_line for the lines whose own label is the current position: it   *)
(* is defined first, and an error in it ends the line.                       *)
Placed(l) ==
  LET r == Labelled(labels, st, l.label, st.assembly_pointer, Here(st))
      e == IF r.error = "undefined_pointer" THEN Okay ELSE r.error
  IN  IF e # Okay THEN Line(r.labels, r.st, sizes, out, e)
      ELSE CASE l.op = None -> Line(r.labels, r.st, sizes, out, Okay)
             [] l.op \in Sized -> Long(l, r.st, r.labels)
             [] l.op \in Instr -> Fixed(l, r.st, r.labels)
             [] l.op = "MEM" -> Global(l, r.st, r.labels)
             [] l.op \in {"DEFW", "DEFS"} -> Define(l, r.st, r.labels)
             [] l.op \in {"IF", "ELSE", "FI"} -> Conditional(l, r.st, r.labels)

(* A new label that is not the position is in the table, undefined, before   *)
(* its operand is evaluated.                                                 *)
Known(l) ==
  IF l.label = None \/ l.label \in DOMAIN labels THEN labels
  ELSE [x \in DOMAIN labels \cup {l.label} |->
          IF x = l.label THEN [value |-> 0, def |-> FALSE, pass |-> pass_count] ELSE labels[x]]

(* parse_source_line and, for an error, print_error.                         *)
Apply(r) ==
  /\ labels' = r.labels /\ sizes' = r.sizes /\ out' = r.out
  /\ st' = [r.st EXCEPT !.errors = IF r.error = Okay THEN @ ELSE @ + 1]
  /\ line' = line + 1
  /\ UNCHANGED <<source, pass_count, last_pass, dump_code, finished>>

ReadLine == ~finished /\ line <= Len(source)

ParsePlaced ==
  /\ ReadLine /\ source[line].op \notin Unplaced
  /\ Apply(Placed(source[line]))
ParseEqu   == ReadLine /\ source[line].op = "EQU" /\ Apply(Equ(source[line], st, Known(source[line])))
ParseOrg   == ReadLine /\ source[line].op = "ORG" /\ Apply(Org(source[line], st, Known(source[line])))
ParseAlign == ReadLine /\ source[line].op \in Aligns /\ Apply(Align(source[line], st, Known(source[line])))
ParseRecord ==
  /\ ReadLine /\ source[line].op \in Records
  /\ Apply(Record(source[line], st, Known(source[line])))

-----------------------------------------------------------------------------
(* Mutant: labels that moved do not ask for another pass.                    *)
CleanMoved == st.defined_count = 0 /\ st.undefined_count = 0

(* Nothing was defined, moved or read while undefined.                       *)
Clean == st.defined_count = 0 /\ st.redefined_count = 0 /\ st.undefined_count = 0

(* The end of the file: stop, or another pass, which is the last one after a *)
(* clean pass.  No expression here divides, so dump_code follows last_pass.  *)
EndOfPass ==
  LET stop == st.errors # 0 \/ last_pass \/ pass_count > MaxPasses
  IN  /\ ~finished /\ line > Len(source)
      /\ finished' = (stop \/ st.if_stack # <<>>)
      /\ last_pass' = (last_pass \/ (~stop /\ Clean))
      /\ dump_code' = (dump_code \/ (~stop /\ Clean))
      /\ pass_count' = IF stop THEN pass_count ELSE pass_count + 1
      /\ line' = IF finished' THEN line ELSE 1
      /\ st' = IF finished' THEN st ELSE PassStart
      /\ UNCHANGED <<source, labels, sizes, out>>

AsmInit ==
  /\ source \in Sources /\ line = 1
  /\ labels = [n \in {} |-> 0] /\ sizes = <<>> /\ out = <<>> /\ st = PassStart
  /\ pass_count = 0 /\ last_pass = FALSE /\ dump_code = FALSE /\ finished = FALSE

AsmNext == ParsePlaced \/ ParseEqu \/ ParseOrg \/ ParseAlign \/ ParseRecord \/ EndOfPass

(* The assembler is a sequential program that keeps running.                 *)
AsmSpec == AsmInit /\ [][AsmNext]_avars /\ WF_avars(AsmNext)

-----------------------------------------------------------------------------
Assembled == finished /\ last_pass /\ st.errors = 0 /\ st.if_stack = <<>>

(* In a last pass without errors every label and every size is what it was in *)
(* the pass before: what is emitted early agrees with what comes later.       *)
LastPassStable ==
  [][last_pass /\ st'.errors = 0 =>
       sizes' = sizes /\ \A n \in DOMAIN labels : labels'[n].value = labels[n].value]_avars

(* The code emitted for a line has the value its operand has in the end,      *)
(* however sizes and labels moved in between; the exception is a CALL that    *)
(* was kept long, which cannot work.                                          *)
EmittedRight ==
  Assembled =>
    \A i \in DOMAIN out :
      "." \notin {out[i].e.plus, out[i].e.minus} =>
        (out[i].ok <=> out[i].value = Evaluate(labels, st, out[i].e).value)

(* Emitted code never overlaps, unless ORG asked for it or the program does   *)
(* not fit into 2^32 bytes.                                                   *)
NoOverlap ==
  (Assembled /\ st.span <= Mod /\ \A i \in DOMAIN source : source[i].op # "ORG") =>
    \A i \in DOMAIN out, j \in DOMAIN out : i < j => out[i].addr + out[i].size <= out[j].addr

(* No EQU hangs on another EQU, and no directive on a label.                  *)
IsEqu(n) == \E i \in DOMAIN source : source[i].label = n /\ source[i].op = "EQU"
NoChains ==
  \A i \in DOMAIN source : LET l == source[i] IN
    /\ l.op = "EQU" => ~IsEqu(l.e.plus) /\ ~IsEqu(l.e.minus)
    /\ l.op \in {"ORG", "DEFS", "IF"} \cup Aligns \cup Records => l.e.plus = None /\ l.e.minus = None

(* In a source with few such items, sizes that depend on each other do not    *)
(* keep the assembler going until it gives up after MAX_PASSES: shrinking is  *)
(* forbidden from SHRINK_STOP on. Items that each depend on the next settle   *)
(* one in a pass, so a source with more of them than passes is outside this.  *)
SizesSettle == NoChains /\ finished /\ st.errors = 0 /\ st.if_stack = <<>> => last_pass
=============================================================================
