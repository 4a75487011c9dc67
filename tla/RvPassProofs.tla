---------------------------- MODULE RvPassProofs ----------------------------
(* The passes of the assembler, for every source and every range of the      *)
(* instructions that change their size: what a clean pass says about the     *)
(* pass after it.                                                            *)
EXTENDS RvPass, TLAPS, FiniteSetTheorems

Word == 0 .. Mod - 1

Entry == [value : Word, def : BOOLEAN, pass : Nat]
IsTable(t) == t \in [DOMAIN t -> Entry]

PassState ==
  [assembly_pointer : Word, defined : BOOLEAN, data_pointer : Word, errors : Nat,
   undefined_count : Nat, defined_count : Nat, redefined_count : Nat,
   if_stack : Seq(Word), item : Nat, span : Nat]

Expr == [k : Int, plus : Names, minus : Names]
Code == [addr : Word, size : Nat \ {0}, e : Expr, ok : BOOLEAN, value : Word]

Typed ==
  /\ source \in Seq(SourceLine) /\ line \in 1 .. Len(source) + 1
  /\ IsTable(labels) /\ sizes \in Seq({4, 8}) /\ st \in PassState /\ out \in Seq(Code)
  /\ pass_count \in Nat /\ last_pass \in BOOLEAN /\ dump_code \in BOOLEAN /\ finished \in BOOLEAN

(* Only the last pass emits, and it is never the first.                      *)
Phases ==
  /\ dump_code <=> last_pass
  /\ ~last_pass => out = <<>>
  /\ last_pass => pass_count # 0

(* The number of the item that line j of a source would have.                *)
ItemNo(src, j) == Cardinality({i \in 1 .. j - 1 : src[i].op \in Sized}) + 1

(* size_record_list is complete after the first pass.                        *)
Items ==
  /\ st.item >= 1 /\ st.item <= ItemNo(source, line)
  /\ st.errors = 0 => st.item = ItemNo(source, line)
  /\ FirstPass => st.item = Len(sizes) + 1
  /\ ~FirstPass => Len(sizes) + 1 = ItemNo(source, Len(source) + 1)

(* Without ORG the code lies below the bytes passed over, in order.          *)
InOrder(o, n) ==
  /\ \A i \in DOMAIN o : o[i].addr + o[i].size <= n
  /\ \A i \in DOMAIN o, j \in DOMAIN o : i < j => o[i].addr + o[i].size <= o[j].addr

Extent ==
  (\A i \in DOMAIN source : source[i].op # "ORG") =>
    /\ st.assembly_pointer = st.span % Mod
    /\ st.span <= Mod => InOrder(out, st.span)

-----------------------------------------------------------------------------
(* What can be read of a table: the labels that are defined.                 *)
View(t) == [n \in {m \in DOMAIN t : t[m].def} |-> t[n].value]

NoLabels(t) == DOMAIN View(t) = {}

(* An operand that can be evaluated at place p, and its value.               *)
Given(V, p, n) ==
  \/ n = None
  \/ n = "." /\ p.defined
  \/ n \notin {None, "."} /\ n \in DOMAIN V
Worth(V, p, n) == IF n = None THEN 0 ELSE IF n = "." THEN p.assembly_pointer ELSE V[n]
Solved(V, p, e) == Given(V, p, e.plus) /\ Given(V, p, e.minus)
Result(V, p, e) == (e.k + Worth(V, p, e.plus) - Worth(V, p, e.minus)) % Mod

(* Where a line is met, without what is counted.                             *)
Places ==
  [assembly_pointer : Word, defined : BOOLEAN, data_pointer : Word, if_stack : Seq(Word), item : Nat]
Place(s) ==
  [assembly_pointer |-> s.assembly_pointer, defined |-> s.defined, data_pointer |-> s.data_pointer,
   if_stack |-> s.if_stack, item |-> s.item]

(* The place behind line l, if its operand can be evaluated.                 *)
Forward(p, n) == [p EXCEPT !.assembly_pointer = (@ + n) % Mod]
Onward(p, q, n) == IF Assembling(p) THEN Forward(q, n) ELSE q
Moves(l, p, V, z) ==
  LET v == Result(V, p, l.e)
  IN  CASE l.op \in Sized  -> [Onward(p, Forward(p, z[p.item] - 4), 4) EXCEPT !.item = @ + 1]
        [] l.op \in Instr \cup {"DEFW"} -> Onward(p, p, 4)
        [] l.op = "MEM"    -> Onward(p, Forward(p, 4), 4)
        [] l.op = "DEFS"   -> Onward(p, p, v)
        [] l.op \in Aligns -> Onward(p, p, Gap(p, v))
        [] l.op = "IF"     -> [p EXCEPT !.if_stack = Append(@, v)]
        [] l.op = "ELSE"   -> [p EXCEPT !.if_stack[Len(p.if_stack)] = Mod - 1 - @]
        [] l.op = "FI"     -> [p EXCEPT !.if_stack = Front(@)]
        [] l.op = "ORG"    -> [p EXCEPT !.assembly_pointer = v, !.defined = TRUE]
        [] l.op \in Records -> [p EXCEPT !.data_pointer = RecordPast(l.op, RecordAt(l.op, @, v), v)]
        [] l.op \in {None, "EQU"} -> p

(* The value line l gives its label, where it gives it one.                  *)
Named(l, p) ==
  \/ l.op = "EQU"
  \/ l.label # None /\ (p.defined \/ l.op \in {"ORG"} \cup Records)
LabelOf(l, p, V) ==
  IF l.op \in {"EQU", "ORG"} THEN Result(V, p, l.e)
  ELSE IF l.op \in Records THEN RecordAt(l.op, p.data_pointer, Result(V, p, l.e))
  ELSE IF l.op = "ALIGN" THEN (p.assembly_pointer + Gap(p, Result(V, p, l.e))) % Mod
  ELSE p.assembly_pointer
Labels(l, p, V) == Named(l, p) => l.label \in DOMAIN V /\ V[l.label] = LabelOf(l, p, V)

(* An item that has the size it asks for, or no longer shrinks to it.        *)
Settled(z, i, need, pc) ==
  i \in DOMAIN z /\ z[i] >= need /\ (pc < ShrinkStop => z[i] = need)

Plain(l) == l.op \in {None, "ELSE", "FI"}

(* Line l has led from p to q and will do so again, with the same labels and *)
(* sizes, unless its operand cannot be evaluated.                            *)
Repeats(l, p, q, V, z, pc) ==
  /\ l.op \notin Unplaced => Labels(l, p, V)
  /\ Plain(l) \/ Solved(V, p, l.e) =>
       /\ Labels(l, p, V)
       /\ q = Moves(l, p, V, z)
       /\ l.op \in Sized => Settled(z, p.item, Needs(l.op, Result(V, p, l.e), p), pc)

(* A record of the places of the first n lines of a pass.                    *)
Trace(tr, n, src, V, z, pc) ==
  /\ tr \in [1 .. n -> Places]
  /\ tr[1] = Place(PassStart)
  /\ \A j \in 1 .. n - 1 : Repeats(src[j], tr[j], tr[j + 1], V, z, pc)

-----------------------------------------------------------------------------
Quiet(s) == s.defined_count = 0 /\ s.redefined_count = 0 /\ s.undefined_count = 0 /\ s.errors = 0

(* A pass that has been clean so far: in the first pass no label is defined, *)
(* later the position is known, and every line would do the same again.      *)
Passed(tr, n, src, s, V, z, pc) ==
  /\ Trace(tr, n, src, V, z, pc)
  /\ tr[n] = Place(s)
  /\ \A j \in 1 .. n - 1 : src[j].op \in Sized => tr[j].item < s.item

CleanSoFar ==
  (~last_pass /\ ~finished /\ Quiet(st)) =>
    /\ FirstPass => NoLabels(labels)
    /\ ~FirstPass => st.defined
    /\ \E tr : Passed(tr, line, source, st, View(labels), sizes, pass_count)

(* The last pass follows the record of the pass before it.                   *)
Follows ==
  (last_pass /\ ~finished /\ st.errors = 0) =>
    /\ st.defined
    /\ \E tr : /\ Trace(tr, Len(source) + 1, source, View(labels), sizes, pass_count)
               /\ tr[line] = Place(st)

(* The code of an operand without "." is right for the labels.               *)
Right(o, V) ==
  "." \notin {o.e.plus, o.e.minus} =>
    Solved(V, PassStart, o.e) /\ (o.ok <=> o.value = Result(V, PassStart, o.e))
Emitted == (last_pass /\ st.errors = 0) => \A i \in DOMAIN out : Right(out[i], View(labels))

(* The inductive invariant.                                                  *)
AInv == Typed /\ Phases /\ Items /\ Extent /\ CleanSoFar /\ Follows /\ Emitted

-----------------------------------------------------------------------------
(* The directives of a record.                                               *)
LEMMA RecordSet ==
  Records = {"ALIAS", "BYTE", "HALFWORD", "WORD", "DOUBLE", "RECORD", "REC_ALIGN"}
  BY DEF Records, Element

(* Residues are words.                                                       *)
LEMMA Reduced ==
  ASSUME NEW x \in Int
  PROVE  x % Mod \in Word
  BY PassAssumption DEF Word

(* Words are natural numbers.                                                *)
LEMMA WordNat == Word \subseteq Nat /\ Word \subseteq Int
  BY PassAssumption DEF Word

(* What get_variable makes of an operand: its error, its value and whether   *)
(* an undefined label was read.                                              *)
LEMMA OperandView ==
  ASSUME NEW t, IsTable(t), NEW s, s.assembly_pointer \in Word, s.defined \in BOOLEAN, NEW n \in Names
  PROVE  LET o == Operand(t, s, n)
         IN  /\ o.error \in {Okay, "label_undef", "no_label"}
             /\ o.error = Okay <=> Given(View(t), s, n)
             /\ o.error = Okay => o.value = Worth(View(t), s, n)
             /\ o.value \in Word /\ o.undef \in {0, 1}
             /\ o.error = "label_undef" /\ s.defined => o.undef = 1
  <1> DEFINE o == Operand(t, s, n)
             V == View(t)
  <1>0. 0 \in Word
    BY PassAssumption DEF Word
  <1>1. CASE n = None
    <2>1. o = [value |-> 0, error |-> Okay, undef |-> 0]
      BY <1>1 DEF Operand, None
    <2> QED
      BY <1>0, <1>1, <2>1 DEF Given, Worth, Okay
  <1>2. CASE n = "."
    <2>1. o = IF s.defined THEN [value |-> s.assembly_pointer, error |-> Okay, undef |-> 0]
                 ELSE [value |-> 0, error |-> "label_undef", undef |-> 0]
      BY <1>2 DEF Operand, None
    <2> QED
      BY <1>0, <1>2, <2>1 DEF Given, Worth, Okay, None
  <1>3. CASE n \notin DOMAIN t \cup {None, "."}
    <2>1. o = [value |-> 0, error |-> "no_label", undef |-> 0]
      BY <1>3 DEF Operand
    <2>2. ~Given(V, s, n)
      BY <1>3 DEF Given, View
    <2> QED
      BY <1>0, <2>1, <2>2 DEF Okay
  <1>4. CASE n \in DOMAIN t \ {None, "."}
    <2>1. o = IF t[n].def THEN [value |-> t[n].value, error |-> Okay, undef |-> 0]
                 ELSE [value |-> 0, error |-> "label_undef", undef |-> 1]
      BY <1>4 DEF Operand
    <2>2. t[n].def \in BOOLEAN /\ t[n].value \in Word
      BY <1>4 DEF IsTable, Entry
    <2>3. Given(V, s, n) <=> t[n].def
      BY <1>4 DEF Given, View
    <2>4. t[n].def => Worth(V, s, n) = t[n].value
      BY <1>4 DEF Worth, View
    <2> QED
      BY <1>0, <2>1, <2>2, <2>3, <2>4 DEF Okay
  <1> QED
    BY <1>1, <1>2, <1>3, <1>4

(* The same for evaluate.                                                    *)
LEMMA EvaluateView ==
  ASSUME NEW t, IsTable(t), NEW s, s.assembly_pointer \in Word, s.defined \in BOOLEAN, NEW e \in Expr
  PROVE  LET v == Evaluate(t, s, e)
         IN  /\ v.error \in {Okay, "label_undef", "no_label"}
             /\ v.error = Okay <=> Solved(View(t), s, e)
             /\ v.error = Okay => v.value = Result(View(t), s, e)
             /\ v.value \in Word /\ v.undef \in Nat
             /\ v.error = "label_undef" /\ s.defined => v.undef > 0
  <1> DEFINE p == Operand(t, s, e.plus)
             m == Operand(t, s, e.minus)
             v == Evaluate(t, s, e)
  <1>1. e.plus \in Names /\ e.minus \in Names /\ e.k \in Int
    BY DEF Expr
  <1>2. /\ p.error \in {Okay, "label_undef", "no_label"}
        /\ p.error = Okay <=> Given(View(t), s, e.plus)
        /\ p.error = Okay => p.value = Worth(View(t), s, e.plus)
        /\ p.value \in Word /\ p.undef \in {0, 1}
        /\ p.error = "label_undef" /\ s.defined => p.undef = 1
    BY <1>1, OperandView
  <1>3. /\ m.error \in {Okay, "label_undef", "no_label"}
        /\ m.error = Okay <=> Given(View(t), s, e.minus)
        /\ m.error = Okay => m.value = Worth(View(t), s, e.minus)
        /\ m.value \in Word /\ m.undef \in {0, 1}
        /\ m.error = "label_undef" /\ s.defined => m.undef = 1
    BY <1>1, OperandView
  <1>4. /\ v.value = (e.k + p.value - m.value) % Mod
        /\ v.error = IF p.error # Okay THEN p.error ELSE m.error
        /\ v.undef = p.undef + m.undef
    BY DEF Evaluate
  <1> HIDE DEF p, m, v
  <1>5. v.value \in Word
    <2>1. p.value \in Int /\ m.value \in Int
      BY <1>2, <1>3, WordNat
    <2>2. e.k + p.value - m.value \in Int
      BY <1>1, <2>1
    <2> QED
      BY <1>4, <2>2, Reduced
  <1>6. v.undef \in Nat /\ (v.error = "label_undef" /\ s.defined => v.undef > 0)
    BY <1>2, <1>3, <1>4 DEF Okay
  <1>7. v.error = Okay => v.value = Result(View(t), s, e)
    BY <1>2, <1>3, <1>4 DEF Result
  <1>8. v.error = Okay <=> Solved(View(t), s, e)
    BY <1>2, <1>3, <1>4 DEF Solved, Okay
  <1>9. v.error \in {Okay, "label_undef", "no_label"}
    BY <1>2, <1>3, <1>4
  <1> QED
    BY <1>5, <1>6, <1>7, <1>8, <1>9 DEF v

-----------------------------------------------------------------------------
(* The entry that assemble_redef_label finds.                                *)
Old(t, n) == IF n \in DOMAIN t THEN t[n] ELSE [value |-> 0, def |-> FALSE, pass |-> pass_count]
Again(t, n) == Old(t, n).pass = pass_count /\ Old(t, n).def

(* The entry found is well-formed.                                           *)
LEMMA OldTyped ==
  ASSUME NEW t, IsTable(t), NEW n, pass_count \in Nat
  PROVE  Old(t, n) \in Entry /\ Again(t, n) \in BOOLEAN /\ (Old(t, n).def => n \in DOMAIN t)
  <1>0. 0 \in Word
    BY PassAssumption DEF Word
  <1>1. CASE n \in DOMAIN t
    BY <1>1 DEF Old, Again, IsTable
  <1>2. CASE n \notin DOMAIN t
    BY <1>0, <1>2 DEF Old, Again, Entry
  <1> QED
    BY <1>1, <1>2

(* What is counted and how far the pass is, as numbers.                      *)
LEMMA PassNumbers ==
  ASSUME NEW s \in PassState
  PROVE  /\ s.errors \in Nat /\ s.undefined_count \in Nat /\ s.defined_count \in Nat
         /\ s.redefined_count \in Nat /\ s.item \in Nat /\ s.span \in Nat
  BY DEF PassState

(* Counting leaves everything else of the pass alone.                        *)
LEMMA CountersOnly ==
  ASSUME NEW s \in PassState, NEW u \in Nat
  PROVE  /\ [s EXCEPT !.defined_count = @ + 1] \in PassState
         /\ [s EXCEPT !.redefined_count = @ + 1] \in PassState
         /\ [s EXCEPT !.undefined_count = @ + u] \in PassState
         /\ Place([s EXCEPT !.defined_count = @ + 1]) = Place(s)
         /\ Place([s EXCEPT !.redefined_count = @ + 1]) = Place(s)
         /\ Place([s EXCEPT !.undefined_count = @ + u]) = Place(s)
  <1>1. /\ [s EXCEPT !.defined_count = @ + 1] \in PassState
        /\ [s EXCEPT !.redefined_count = @ + 1] \in PassState
        /\ [s EXCEPT !.undefined_count = @ + u] \in PassState
    <2>1. /\ s.defined_count + 1 \in Nat /\ s.redefined_count + 1 \in Nat
          /\ s.undefined_count + u \in Nat
      BY DEF PassState
    <2>2. [s EXCEPT !.defined_count = @ + 1] \in PassState
      BY <2>1 DEF PassState
    <2>3. [s EXCEPT !.redefined_count = @ + 1] \in PassState
      BY <2>1 DEF PassState
    <2>4. [s EXCEPT !.undefined_count = @ + u] \in PassState
      BY <2>1 DEF PassState
    <2> QED
      BY <2>2, <2>3, <2>4
  <1>2. /\ Place([s EXCEPT !.defined_count = @ + 1]) = Place(s)
        /\ Place([s EXCEPT !.redefined_count = @ + 1]) = Place(s)
        /\ Place([s EXCEPT !.undefined_count = @ + u]) = Place(s)
    BY DEF PassState, Place
  <1> QED
    BY <1>1, <1>2

(* A pass state that differs from s in counters only.                        *)
Counted(s2, s) ==
  /\ s2 \in PassState /\ Place(s2) = Place(s) /\ s2.span = s.span /\ s2.errors = s.errors
  /\ s2.defined_count >= s.defined_count /\ s2.redefined_count >= s.redefined_count
  /\ s2.undefined_count >= s.undefined_count

(* Nothing counted.                                                          *)
LEMMA CountedSelf ==
  ASSUME NEW s \in PassState
  PROVE  Counted(s, s)
  BY DEF Counted, PassState

(* assemble_redef_label keeps a table a table and only counts.               *)
LEMMA RedefTyped ==
  ASSUME NEW t, IsTable(t), NEW s \in PassState, NEW n, NEW value \in Word, NEW error,
         pass_count \in Nat
  PROVE  LET r == RedefLabel(t, s, n, value, error)
         IN  IsTable(r.labels) /\ Counted(r.st, s)
  <1> DEFINE r == RedefLabel(t, s, n, value, error)
             old == Old(t, n)
             again == Again(t, n)
  <1>1. again \in BOOLEAN
    BY OldTyped
  <1>2. r.labels = [x \in DOMAIN t \cup {n} |->
                     IF x = n THEN [value |-> value, def |-> IF again THEN TRUE ELSE error = Okay,
                                    pass |-> pass_count]
                     ELSE t[x]]
    BY DEF RedefLabel, Old, Again
  <1>3. \/ r.st = s
        \/ r.st = [s EXCEPT !.defined_count = @ + 1]
        \/ r.st = [s EXCEPT !.redefined_count = @ + 1]
    BY DEF RedefLabel
  <1> HIDE DEF r, old, again
  <1>4. [value |-> value, def |-> IF again THEN TRUE ELSE error = Okay, pass |-> pass_count] \in Entry
    BY <1>1 DEF Entry
  <1>5. IsTable(r.labels)
    BY <1>2, <1>4 DEF IsTable
  <1>6. Counted(r.st, s)
    <2>1. CASE r.st = s
      BY <2>1, CountedSelf
    <2>2. CASE r.st = [s EXCEPT !.defined_count = @ + 1]
      <3>1. r.st \in PassState /\ Place(r.st) = Place(s)
        BY <2>2, CountersOnly
      <3>2. /\ r.st.span = s.span /\ r.st.errors = s.errors
            /\ r.st.undefined_count = s.undefined_count
            /\ r.st.defined_count = s.defined_count + 1
            /\ r.st.redefined_count = s.redefined_count
        BY <2>2 DEF PassState
      <3> QED
        BY <3>1, <3>2, PassNumbers DEF Counted
    <2>3. CASE r.st = [s EXCEPT !.redefined_count = @ + 1]
      <3>1. r.st \in PassState /\ Place(r.st) = Place(s)
        BY <2>3, CountersOnly
      <3>2. /\ r.st.span = s.span /\ r.st.errors = s.errors
            /\ r.st.undefined_count = s.undefined_count
            /\ r.st.defined_count = s.defined_count
            /\ r.st.redefined_count = s.redefined_count + 1
        BY <2>3 DEF PassState
      <3> QED
        BY <3>1, <3>2, PassNumbers DEF Counted
    <2> QED
      BY <1>3, <2>1, <2>2, <2>3
  <1> QED
    BY <1>5, <1>6 DEF r

(* The view of a table in which n got an entry that says nothing new.        *)
LEMMA ViewPut ==
  ASSUME NEW t, IsTable(t), NEW n, NEW w \in Entry, NEW u, DOMAIN u = DOMAIN t \cup {n},
         u[n] = w, \A x \in DOMAIN t \ {n} : u[x] = t[x],
         w.def, n \in DOMAIN t, t[n].def, t[n].value = w.value
  PROVE  View(u) = View(t)
  <1>1. {m \in DOMAIN u : u[m].def} = {m \in DOMAIN t : t[m].def}
    OBVIOUS
  <1>2. \A m \in {x \in DOMAIN t : t[x].def} : u[m].value = t[m].value
    OBVIOUS
  <1> QED
    BY <1>1, <1>2 DEF View

(* The view of a table in which n has no value, before and after.            *)
LEMMA ViewSkip ==
  ASSUME NEW t, IsTable(t), NEW n, NEW w \in Entry, NEW u, DOMAIN u = DOMAIN t \cup {n},
         u[n] = w, \A x \in DOMAIN t \ {n} : u[x] = t[x],
         ~w.def, n \notin DOMAIN View(t)
  PROVE  View(u) = View(t)
  <1>0. n \in DOMAIN t => ~t[n].def
    BY DEF View
  <1>1. {m \in DOMAIN u : u[m].def} = {m \in DOMAIN t : t[m].def}
    BY <1>0
  <1>2. \A m \in {x \in DOMAIN t : t[x].def} : u[m].value = t[m].value
    BY <1>0
  <1> QED
    BY <1>1, <1>2 DEF View

(* A definition that counts nothing and finds no disagreement: the label had *)
(* this value already, or it stays undefined in a table without labels.      *)
LEMMA RedefQuiet ==
  ASSUME NEW t, NEW s, NEW n, NEW value, NEW error, NEW r,
         IsTable(t), s \in PassState, value \in Word, pass_count \in Nat,
         r = RedefLabel(t, s, n, value, error),
         r.st.defined_count = 0, r.st.redefined_count = 0, r.error # "inconsistent",
         error = Okay \/ NoLabels(t)
  PROVE  /\ View(r.labels) = View(t) /\ r.st = s
         /\ error = Okay => n \in DOMAIN View(t) /\ View(t)[n] = value
  <1> DEFINE old == Old(t, n)
             again == Again(t, n)
             w == [value |-> value, def |-> IF again THEN TRUE ELSE error = Okay, pass |-> pass_count]
             u == [x \in DOMAIN t \cup {n} |-> IF x = n THEN w ELSE t[x]]
  <1>1. old \in Entry /\ again \in BOOLEAN /\ (old.def => n \in DOMAIN t) /\ (again => old.def)
    BY OldTyped DEF Again
  <1>2. r.labels = u
    BY DEF RedefLabel, Old, Again
  <1>3. r.st = IF again \/ error # Okay THEN s
               ELSE IF ~old.def THEN [s EXCEPT !.defined_count = @ + 1]
               ELSE IF old.value # value THEN [s EXCEPT !.redefined_count = @ + 1]
               ELSE s
    BY DEF RedefLabel, Old, Again
  <1>4. again => error = Okay /\ value = old.value
    <2>1. r.error = IF ~again THEN (IF error = Okay THEN Okay ELSE Forgiven(error))
                    ELSE IF error = Okay /\ value = old.value THEN error ELSE "inconsistent"
      BY DEF RedefLabel, Old, Again
    <2>2. r.error # "inconsistent"
      OBVIOUS
    <2> HIDE DEF again
    <2> QED
      BY <2>1, <2>2
  <1>5. n \in DOMAIN t => old = t[n]
    BY DEF Old
  <1>6. r.st.defined_count = 0 /\ r.st.redefined_count = 0
    OBVIOUS
  <1>7. w \in Entry
    BY <1>1 DEF Entry
  <1>8. (w.def <=> (again \/ error = Okay)) /\ w.value = value
    BY <1>1
  <1>15. DOMAIN u = DOMAIN t \cup {n} /\ u[n] = w /\ \A x \in DOMAIN t \ {n} : u[x] = t[x]
    OBVIOUS
  <1>9. (w.def /\ n \in DOMAIN t /\ t[n].def /\ t[n].value = w.value) => View(u) = View(t)
    <2> HIDE DEF w, u
    <2> QED
      BY <1>7, <1>15, ViewPut
  <1>10. (~w.def /\ n \notin DOMAIN View(t)) => View(u) = View(t)
    <2> HIDE DEF w, u
    <2> QED
      BY <1>7, <1>15, ViewSkip
  <1>12. n \in DOMAIN t /\ t[n].def => n \in DOMAIN View(t) /\ View(t)[n] = t[n].value
    BY DEF View
  <1> HIDE DEF old, again, w, u
  <1>11. error = Okay => old.def /\ old.value = value /\ r.st = s
    <2>1. CASE again
      BY <1>1, <1>3, <1>4, <2>1
    <2>2. CASE ~again /\ error = Okay /\ ~old.def
      <3>1. r.st.defined_count = s.defined_count + 1 /\ s.defined_count \in Nat
        BY <1>3, <2>2 DEF PassState
      <3> QED
        BY <1>6, <3>1
    <2>3. CASE ~again /\ error = Okay /\ old.def /\ old.value # value
      <3>1. r.st.redefined_count = s.redefined_count + 1 /\ s.redefined_count \in Nat
        BY <1>3, <2>3 DEF PassState
      <3> QED
        BY <1>6, <3>1
    <2> QED
      BY <1>1, <1>3, <2>1, <2>2, <2>3
  <1>13. CASE error = Okay
    <2>1. n \in DOMAIN t /\ t[n].def /\ t[n].value = value /\ r.st = s /\ w.def
      BY <1>1, <1>5, <1>8, <1>11, <1>13
    <2> QED
      BY <1>2, <1>8, <1>9, <1>12, <1>13, <2>1
  <1>14. CASE error # Okay
    <2>1. n \notin DOMAIN View(t)
      BY <1>14 DEF NoLabels
    <2>2. ~again /\ ~w.def /\ r.st = s
      BY <1>3, <1>4, <1>8, <1>14
    <2> QED
      BY <1>2, <1>10, <1>14, <2>1, <2>2
  <1> QED
    BY <1>13, <1>14

(* Table u has the entries of t, and their values.                           *)
SameValues(u, t) == DOMAIN t \subseteq DOMAIN u /\ \A x \in DOMAIN t : u[x].value = t[x].value

(* A definition that agrees with the table changes nothing that is read.     *)
LEMMA RedefKnown ==
  ASSUME NEW t, IsTable(t), NEW s \in PassState, NEW n, NEW value \in Word, pass_count \in Nat,
         n \in DOMAIN View(t), View(t)[n] = value
  PROVE  LET r == RedefLabel(t, s, n, value, Okay)
         IN  View(r.labels) = View(t) /\ r.st = s /\ r.error = Okay /\ SameValues(r.labels, t)
  <1> DEFINE r == RedefLabel(t, s, n, value, Okay)
             again == Again(t, n)
             w == [value |-> value, def |-> IF again THEN TRUE ELSE Okay = Okay, pass |-> pass_count]
             u == [x \in DOMAIN t \cup {n} |-> IF x = n THEN w ELSE t[x]]
  <1>1. n \in DOMAIN t /\ t[n].def /\ t[n].value = value /\ Old(t, n) = t[n]
    BY DEF View, Old
  <1>2. r.labels = u
    BY DEF RedefLabel, Old, Again
  <1>3. r.st = s
    <2>1. r.st = IF again \/ Okay # Okay THEN s
                 ELSE IF ~Old(t, n).def THEN [s EXCEPT !.defined_count = @ + 1]
                 ELSE IF Old(t, n).value # value THEN [s EXCEPT !.redefined_count = @ + 1]
                 ELSE s
      BY DEF RedefLabel, Old, Again
    <2> HIDE DEF r, again
    <2> QED
      BY <1>1, <2>1
  <1>4. r.error = Okay
    <2>1. r.error = IF ~again THEN (IF Okay = Okay THEN Okay ELSE Forgiven(Okay))
                    ELSE IF Okay = Okay /\ value = Old(t, n).value THEN Okay ELSE "inconsistent"
      BY DEF RedefLabel, Old, Again
    <2> HIDE DEF r, again
    <2> QED
      BY <1>1, <2>1
  <1>5. w \in Entry /\ w.def /\ w.value = value
    BY DEF Entry
  <1>6. View(u) = View(t)
    <2>1. DOMAIN u = DOMAIN t \cup {n} /\ u[n] = w /\ \A x \in DOMAIN t \ {n} : u[x] = t[x]
      OBVIOUS
    <2> HIDE DEF w, u
    <2> QED
      BY <1>1, <1>5, <2>1, ViewPut
  <1>7. SameValues(u, t)
    BY <1>1, <1>5 DEF SameValues
  <1> HIDE DEF u
  <1> QED
    BY <1>2, <1>3, <1>4, <1>6, <1>7

(* The same for a line that need not have a label.                           *)
LEMMA LabelledTyped ==
  ASSUME NEW t, IsTable(t), NEW s \in PassState, NEW n, NEW value \in Word, NEW error, pass_count \in Nat
  PROVE  LET r == Labelled(t, s, n, value, error)
         IN  IsTable(r.labels) /\ Counted(r.st, s)
  <1>1. CASE n = None
    BY <1>1, CountedSelf DEF Labelled
  <1>2. CASE n # None
    BY <1>2, RedefTyped DEF Labelled
  <1> QED
    BY <1>1, <1>2

(* The same two facts for the label of a line that need not have one.        *)
LEMMA LabelledQuiet ==
  ASSUME NEW t, NEW s, NEW n, NEW value, NEW error, NEW r,
         IsTable(t), s \in PassState, value \in Word, pass_count \in Nat,
         r = Labelled(t, s, n, value, error),
         r.st.defined_count = 0, r.st.redefined_count = 0, r.error # "inconsistent",
         error = Okay \/ NoLabels(t)
  PROVE  /\ View(r.labels) = View(t) /\ r.st = s
         /\ (n # None /\ error = Okay) => n \in DOMAIN View(t) /\ View(t)[n] = value
  <1>1. CASE n = None
    BY <1>1 DEF Labelled
  <1>2. CASE n # None
    <2>1. r = RedefLabel(t, s, n, value, error)
      BY <1>2 DEF Labelled
    <2> QED
      BY <2>1, RedefQuiet
  <1> QED
    BY <1>1, <1>2

(* A label that agrees with the table changes nothing that is read.          *)
LEMMA LabelledKnown ==
  ASSUME NEW t, IsTable(t), NEW s \in PassState, NEW n, NEW value \in Word, pass_count \in Nat,
         n # None => n \in DOMAIN View(t) /\ View(t)[n] = value
  PROVE  LET r == Labelled(t, s, n, value, Okay)
         IN  View(r.labels) = View(t) /\ r.st = s /\ r.error = Okay /\ SameValues(r.labels, t)
  <1>1. CASE n = None
    BY <1>1 DEF Labelled, SameValues
  <1>2. CASE n # None
    <2>1. Labelled(t, s, n, value, Okay) = RedefLabel(t, s, n, value, Okay)
      BY <1>2 DEF Labelled
    <2> QED
      BY <1>2, <2>1, RedefKnown
  <1> QED
    BY <1>1, <1>2

(* Entering a label without a value changes nothing that is read.            *)
LEMMA KnownView ==
  ASSUME NEW l, IsTable(labels), pass_count \in Nat
  PROVE  IsTable(Known(l)) /\ View(Known(l)) = View(labels) /\ SameValues(Known(l), labels)
  <1> DEFINE n == l.label
             w == [value |-> 0, def |-> FALSE, pass |-> pass_count]
             u == Known(l)
  <1>1. CASE n = None \/ n \in DOMAIN labels
    BY <1>1 DEF Known, SameValues
  <1>2. CASE n # None /\ n \notin DOMAIN labels
    <2>1. u = [x \in DOMAIN labels \cup {n} |-> IF x = n THEN w ELSE labels[x]]
      BY <1>2 DEF Known
    <2>2. w \in Entry /\ ~w.def
      BY PassAssumption DEF Entry, Word
    <2>3. DOMAIN u = DOMAIN labels \cup {n} /\ u[n] = w /\ \A x \in DOMAIN labels \ {n} : u[x] = labels[x]
      BY <2>1
    <2>4. n \notin DOMAIN View(labels)
      BY <1>2 DEF View
    <2> HIDE DEF w, u
    <2>5. IsTable(u)
      BY <2>1, <2>2 DEF IsTable
    <2>6. View(u) = View(labels)
      BY <2>2, <2>3, <2>4, ViewSkip
    <2>7. SameValues(u, labels)
      BY <1>2, <2>3 DEF SameValues
    <2> QED
      BY <2>5, <2>6, <2>7 DEF u
  <1> QED
    BY <1>1, <1>2

-----------------------------------------------------------------------------
(* The remainder is the only one.                                            *)
LEMMA ModUnique ==
  ASSUME NEW n \in Int, NEW c \in Nat \ {0}, NEW q \in Int, NEW r \in Int,
         0 <= r, r < c, n = c * q + r
  PROVE  n % c = r
  BY Z3

(* Adding to a residue.                                                      *)
LEMMA ModPlus ==
  ASSUME NEW x \in Int, NEW n \in Int
  PROVE  ((x % Mod) + n) % Mod = (x + n) % Mod
  <1>0. Mod \in Nat /\ Mod > 4
    BY PassAssumption
  <1> DEFINE q == x \div Mod
             a == x % Mod
             p == (a + n) \div Mod
             b == (a + n) % Mod
  <1>1. x = Mod * q + a /\ q \in Int /\ a \in Int
    BY <1>0, Z3
  <1>2. a + n = Mod * p + b /\ p \in Int /\ b \in Int /\ 0 <= b /\ b < Mod
    BY <1>0, <1>1, Z3
  <1> HIDE DEF q, a, p, b
  <1>3. x + n = Mod * (q + p) + b
    BY <1>0, <1>1, <1>2, Z3
  <1>4. (x + n) % Mod = b
    <2>1. x + n \in Int /\ q + p \in Int /\ Mod \in Nat \ {0}
      BY <1>0, <1>1, <1>2
    <2> QED
      BY <1>2, <1>3, <2>1, ModUnique
  <1> QED
    BY <1>4 DEF a, b

(* s2 is behind s in the same pass: nothing is forgotten, and the position   *)
(* is still that of the bytes passed over.                                   *)
Ahead(s2, s) ==
  /\ s2 \in PassState /\ s2.errors = s.errors /\ s2.span >= s.span
  /\ s2.defined_count >= s.defined_count /\ s2.redefined_count >= s.redefined_count
  /\ s2.undefined_count >= s.undefined_count
  /\ s.assembly_pointer = s.span % Mod => s2.assembly_pointer = s2.span % Mod

(* Two steps forward.                                                        *)
LEMMA AheadTrans ==
  ASSUME NEW s \in PassState, NEW s2 \in PassState, NEW s3 \in PassState, Ahead(s2, s), Ahead(s3, s2)
  PROVE  Ahead(s3, s)
  BY PassNumbers DEF Ahead

(* Counting is a step forward.                                               *)
LEMMA CountedAhead ==
  ASSUME NEW s \in PassState, NEW s2, Counted(s2, s)
  PROVE  Ahead(s2, s)
  <1>1. s2.assembly_pointer = s.assembly_pointer
    BY DEF Counted, Place
  <1> QED
    BY <1>1 DEF Counted, Ahead, PassState

(* Reads of undefined labels are counted.                                    *)
LEMMA CountCounted ==
  ASSUME NEW s \in PassState, NEW v, v.undef \in Nat
  PROVE  Counted(Count(s, v), s) /\ Count(s, v).undefined_count = s.undefined_count + v.undef
  <1>1. Count(s, v) \in PassState /\ Place(Count(s, v)) = Place(s)
    BY CountersOnly DEF Count
  <1>2. Count(s, v).undefined_count = s.undefined_count + v.undef
    BY DEF Count, PassState
  <1> QED
    <2>1. /\ Count(s, v).span = s.span /\ Count(s, v).errors = s.errors
          /\ Count(s, v).defined_count = s.defined_count
          /\ Count(s, v).redefined_count = s.redefined_count
      BY DEF Count, PassState
    <2> QED
      BY <1>1, <1>2, <2>1, PassNumbers DEF Counted

(* assembly_pointer moves on.                                                *)
LEMMA AdvanceAhead ==
  ASSUME NEW s \in PassState, NEW n \in Nat
  PROVE  LET a == Advance(s, n)
         IN  /\ Ahead(a, s) /\ Place(a) = Forward(Place(s), n) /\ a.span = s.span + n
             /\ a.defined_count = s.defined_count /\ a.redefined_count = s.redefined_count
             /\ a.undefined_count = s.undefined_count
  <1> DEFINE a == Advance(s, n)
             x == (s.assembly_pointer + n) % Mod
             y == s.span + n
  <1>1. a = [s EXCEPT !.assembly_pointer = x, !.span = y]
    BY DEF Advance
  <1>2. s.assembly_pointer \in Int /\ s.span \in Nat
    BY WordNat DEF PassState
  <1>3. x \in Word /\ y \in Nat /\ y >= s.span
    BY <1>2, Reduced
  <1>4. s.assembly_pointer = s.span % Mod => x = y % Mod
    <2>1. n \in Int /\ s.span \in Int
      BY <1>2
    <2>2. ((s.span % Mod) + n) % Mod = (s.span + n) % Mod
      BY <2>1, ModPlus
    <2> QED
      BY <2>2
  <1>5. Place(a) = Forward(Place(s), n)
    BY <1>1 DEF Place, Forward, PassState
  <1> HIDE DEF x, y, a
  <1>6. a \in PassState
    BY <1>1, <1>3 DEF PassState
  <1>7. a.assembly_pointer = x /\ a.span = y
    BY <1>1 DEF PassState
  <1>8. /\ a.errors = s.errors /\ a.defined_count = s.defined_count
        /\ a.redefined_count = s.redefined_count /\ a.undefined_count = s.undefined_count
    BY <1>1 DEF PassState
  <1>9. Ahead(a, s)
    BY <1>3, <1>4, <1>6, <1>7, <1>8 DEF Ahead, PassState
  <1> QED
    BY <1>5, <1>7, <1>8, <1>9 DEF a, y

(* The item number and the data pointer say nothing about the position.      *)
LEMMA OtherAhead ==
  ASSUME NEW s \in PassState, NEW w \in Word, NEW f \in Seq(Word), NEW i \in Nat
  PROVE  /\ Ahead([s EXCEPT !.item = i], s) /\ Place([s EXCEPT !.item = i]) = [Place(s) EXCEPT !.item = i]
         /\ Ahead([s EXCEPT !.data_pointer = w], s)
         /\ Place([s EXCEPT !.data_pointer = w]) = [Place(s) EXCEPT !.data_pointer = w]
         /\ Ahead([s EXCEPT !.if_stack = f], s)
         /\ Place([s EXCEPT !.if_stack = f]) = [Place(s) EXCEPT !.if_stack = f]
  <1>1. [s EXCEPT !.item = i] \in PassState
    BY DEF PassState
  <1>2. [s EXCEPT !.data_pointer = w] \in PassState
    BY DEF PassState
  <1>3. [s EXCEPT !.if_stack = f] \in PassState
    BY DEF PassState
  <1>4. Ahead([s EXCEPT !.item = i], s)
    <2> DEFINE u == [s EXCEPT !.item = i]
    <2>1. /\ u.errors = s.errors /\ u.span = s.span /\ u.assembly_pointer = s.assembly_pointer
          /\ u.defined_count = s.defined_count /\ u.redefined_count = s.redefined_count
          /\ u.undefined_count = s.undefined_count /\ u \in PassState
      BY <1>1 DEF PassState
    <2> HIDE DEF u
    <2>2. Ahead(u, s)
      BY <2>1, PassNumbers DEF Ahead
    <2> QED
      BY <2>2 DEF u
  <1>5. Ahead([s EXCEPT !.data_pointer = w], s)
    <2> DEFINE u == [s EXCEPT !.data_pointer = w]
    <2>1. /\ u.errors = s.errors /\ u.span = s.span /\ u.assembly_pointer = s.assembly_pointer
          /\ u.defined_count = s.defined_count /\ u.redefined_count = s.redefined_count
          /\ u.undefined_count = s.undefined_count /\ u \in PassState
      BY <1>2 DEF PassState
    <2> HIDE DEF u
    <2>2. Ahead(u, s)
      BY <2>1, PassNumbers DEF Ahead
    <2> QED
      BY <2>2 DEF u
  <1>6. Ahead([s EXCEPT !.if_stack = f], s)
    <2> DEFINE u == [s EXCEPT !.if_stack = f]
    <2>1. /\ u.errors = s.errors /\ u.span = s.span /\ u.assembly_pointer = s.assembly_pointer
          /\ u.defined_count = s.defined_count /\ u.redefined_count = s.redefined_count
          /\ u.undefined_count = s.undefined_count /\ u \in PassState
      BY <1>3 DEF PassState
    <2> HIDE DEF u
    <2>2. Ahead(u, s)
      BY <2>1, PassNumbers DEF Ahead
    <2> QED
      BY <2>2 DEF u
  <1>7. Place([s EXCEPT !.item = i]) = [Place(s) EXCEPT !.item = i]
    BY DEF Place, PassState
  <1>8. Place([s EXCEPT !.data_pointer = w]) = [Place(s) EXCEPT !.data_pointer = w]
    BY DEF Place, PassState
  <1>9. Place([s EXCEPT !.if_stack = f]) = [Place(s) EXCEPT !.if_stack = f]
    BY DEF Place, PassState
  <1> QED
    BY <1>4, <1>5, <1>6, <1>7, <1>8, <1>9

-----------------------------------------------------------------------------
(* The size list behind an item.                                             *)
LEMMA SizeKept ==
  ASSUME NEW i \in Nat, NEW need \in {4, 8}, sizes \in Seq({4, 8}), pass_count \in Nat,
         FirstPass => i = Len(sizes) + 1, ~FirstPass => i \in 1 .. Len(sizes)
  PROVE  LET z == VariableItemSize(sizes, i, need)
         IN  /\ z \in Seq({4, 8}) /\ i \in DOMAIN z /\ z[i] \in {4, 8}
             /\ Len(z) = IF FirstPass THEN Len(sizes) + 1 ELSE Len(sizes)
             /\ \A j \in DOMAIN sizes : j # i => j \in DOMAIN z /\ z[j] = sizes[j]
             /\ Settled(z, i, need, pass_count)
             /\ ~FirstPass /\ Settled(sizes, i, need, pass_count) => z = sizes
  <1> DEFINE z == VariableItemSize(sizes, i, need)
  <1>1. CASE FirstPass
    <2>1. z = Append(sizes, need) /\ i = Len(sizes) + 1
      BY <1>1 DEF VariableItemSize
    <2>2. z \in Seq({4, 8}) /\ Len(z) = Len(sizes) + 1 /\ z[i] = need /\ i \in DOMAIN z
      BY <2>1
    <2>3. \A j \in DOMAIN sizes : j \in DOMAIN z /\ z[j] = sizes[j]
      BY <2>1
    <2> HIDE DEF z
    <2>4. Settled(z, i, need, pass_count)
      BY <2>2 DEF Settled
    <2> QED
      BY <1>1, <2>2, <2>3, <2>4 DEF z
  <1>2. CASE ~FirstPass
    <2>0. i \in DOMAIN sizes /\ sizes[i] \in {4, 8}
      BY <1>2
    <2>1. CASE pass_count < ShrinkStop \/ sizes[i] < need
      <3>1. z = [sizes EXCEPT ![i] = need]
        BY <1>2, <2>1 DEF VariableItemSize
      <3>2. z \in Seq({4, 8}) /\ Len(z) = Len(sizes) /\ z[i] = need /\ DOMAIN z = DOMAIN sizes
        BY <2>0, <3>1
      <3>3. \A j \in DOMAIN sizes : j # i => z[j] = sizes[j]
        BY <3>1
      <3>4. sizes[i] = need => z = sizes
        BY <2>0, <3>1
      <3> HIDE DEF z
      <3>5. Settled(z, i, need, pass_count)
        BY <2>0, <3>2 DEF Settled
      <3>6. Settled(sizes, i, need, pass_count) => sizes[i] = need
        BY <2>0, <2>1 DEF Settled
      <3> QED
        BY <1>2, <2>0, <3>2, <3>3, <3>4, <3>5, <3>6 DEF z
    <2>2. CASE ~(pass_count < ShrinkStop \/ sizes[i] < need)
      <3>1. z = sizes
        BY <1>2, <2>2 DEF VariableItemSize
      <3>2. Settled(sizes, i, need, pass_count)
        BY <2>0, <2>2 DEF Settled
      <3> QED
        BY <1>2, <2>0, <3>1, <3>2
    <2> QED
      BY <2>1, <2>2
  <1> QED
    BY <1>1, <1>2

(* LI, LA and CALL take one or two words.                                    *)
LEMMA NeedsSize ==
  ASSUME NEW op \in Sized, NEW v, NEW s
  PROVE  Needs(op, v, s) \in {4, 8}
  <1>1. CASE Odd(op, v, s)
    BY <1>1 DEF Needs, Odd
  <1>2. CASE ~Odd(op, v, s)
    BY <1>2 DEF Needs, Odd, Sized
  <1> QED
    BY <1>1, <1>2

(* What is read of the state of a pass is in its place.                      *)
LEMMA PlaceFields ==
  ASSUME NEW s, NEW s2, Place(s2) = Place(s)
  PROVE  /\ s2.assembly_pointer = s.assembly_pointer /\ s2.defined = s.defined
         /\ s2.data_pointer = s.data_pointer /\ s2.if_stack = s.if_stack /\ s2.item = s.item
  BY DEF Place

(* An operand, a size and a gap depend on the place only.                    *)
LEMMA AtPlace ==
  ASSUME NEW s, NEW V, NEW e, NEW op, NEW v
  PROVE  /\ Solved(V, Place(s), e) <=> Solved(V, s, e)
         /\ Result(V, Place(s), e) = Result(V, s, e)
         /\ Assembling(Place(s)) <=> Assembling(s)
         /\ Gap(Place(s), v) = Gap(s, v)
         /\ Needs(op, v, Place(s)) = Needs(op, v, s)
         /\ Place(s).item = s.item /\ Place(s).if_stack = s.if_stack
         /\ Place(s).assembly_pointer = s.assembly_pointer /\ Place(s).data_pointer = s.data_pointer
         /\ Place(s).defined = s.defined
  <1>1. /\ Place(s).item = s.item /\ Place(s).if_stack = s.if_stack
        /\ Place(s).assembly_pointer = s.assembly_pointer /\ Place(s).data_pointer = s.data_pointer
        /\ Place(s).defined = s.defined
    BY DEF Place
  <1>2. Assembling(Place(s)) <=> Assembling(s)
    BY <1>1 DEF Assembling
  <1>3. Gap(Place(s), v) = Gap(s, v)
    BY <1>1 DEF Gap
  <1>4. Needs(op, v, Place(s)) = Needs(op, v, s)
    BY <1>1 DEF Needs, Odd
  <1>5. Result(V, Place(s), e) = Result(V, s, e)
    BY <1>1 DEF Result, Worth
  <1>6. Solved(V, Place(s), e) <=> Solved(V, s, e)
    BY <1>1 DEF Solved, Given
  <1> QED
    BY <1>1, <1>2, <1>3, <1>4, <1>5, <1>6

(* The last pass forgives nothing.                                           *)
LEMMA LastForgivesNothing ==
  ASSUME last_pass, ~FirstPass, NEW e
  PROVE  Forgiven(e) = e
  BY DEF Forgiven, Allowed

(* Without "." the place does not matter.                                    *)
LEMMA NoDot ==
  ASSUME NEW V, NEW s, NEW s2, NEW e, "." \notin {e.plus, e.minus}
  PROVE  (Solved(V, s, e) <=> Solved(V, s2, e)) /\ Result(V, s, e) = Result(V, s2, e)
  <1>1. Solved(V, s, e) <=> Solved(V, s2, e)
    BY DEF Solved, Given
  <1>2. Result(V, s, e) = Result(V, s2, e)
    BY DEF Result, Worth
  <1> QED
    BY <1>1, <1>2

(* What a line that starts in s and ends in s2 has emitted.                  *)
Emits(o2, s, s2, error, V) ==
  \/ o2 = out
  \/ /\ last_pass
     /\ \E o \in Code : /\ o2 = Append(out, o) /\ o.addr = s.assembly_pointer
                        /\ s.span + o.size <= s2.span
                        /\ error = Okay => Right(o, V)

(* byte_dump emits the item or nothing.                                      *)
LEMMA DumpEmits ==
  ASSUME NEW s, NEW s1, NEW s2, NEW o, NEW error, NEW V,
         Place(s1) = Place(s), o \in Code, o.addr = s.assembly_pointer,
         Assembling(s) => s.span + o.size <= s2.span,
         (last_pass /\ error = Okay) => Right(o, V)
  PROVE  Emits(Dump(s1, out, o), s, s2, error, V)
  <1>1. Assembling(s1) <=> Assembling(s)
    BY PlaceFields DEF Assembling
  <1>2. CASE last_pass /\ dump_code /\ Assembling(s1)
    <2>1. Dump(s1, out, o) = Append(out, o)
      BY <1>2 DEF Dump
    <2> QED
      BY <1>1, <1>2, <2>1 DEF Emits
  <1>3. CASE ~(last_pass /\ dump_code /\ Assembling(s1))
    BY <1>3 DEF Dump, Emits
  <1> QED
    BY <1>2, <1>3

(* An item that holds the value of its operand is right.                     *)
LEMMA ValueRight ==
  ASSUME NEW t, NEW s, NEW e, NEW o, IsTable(t), s \in PassState, e \in Expr, o.e = e,
         Evaluate(t, s, e).error = Okay, o.ok <=> o.value = Evaluate(t, s, e).value
  PROVE  Right(o, View(t))
  <1>0. s.assembly_pointer \in Word /\ s.defined \in BOOLEAN
    BY DEF PassState
  <1>1. Solved(View(t), s, e) /\ Evaluate(t, s, e).value = Result(View(t), s, e)
    BY <1>0, EvaluateView
  <1>2. SUFFICES ASSUME "." \notin {e.plus, e.minus}
                 PROVE  /\ Solved(View(t), PassStart, e)
                        /\ o.ok <=> o.value = Result(View(t), PassStart, e)
    BY DEF Right
  <1>3. /\ Solved(View(t), s, e) <=> Solved(View(t), PassStart, e)
        /\ Result(View(t), s, e) = Result(View(t), PassStart, e)
    BY <1>2, NoDot
  <1> QED
    BY <1>1, <1>3

-----------------------------------------------------------------------------
(* What a line without directives does, once its label is entered.           *)
Effect(r, l, s, t) ==
  /\ r.labels = t /\ Ahead(r.st, s) /\ Emits(r.out, s, r.st, r.error, View(t))
  /\ r.st.defined = s.defined
  /\ (r.error = Okay /\ (Plain(l) \/ Solved(View(t), s, l.e))) =>
       Place(r.st) = Moves(l, Place(s), View(t), r.sizes)
  /\ (r.error = Okay /\ last_pass) => Plain(l) \/ Solved(View(t), s, l.e)

Context(l, s, t) ==
  /\ l \in SourceLine /\ s \in PassState /\ IsTable(t)
  /\ sizes \in Seq({4, 8}) /\ out \in Seq(Code) /\ pass_count \in Nat
  /\ last_pass => ~FirstPass

(* What evaluate returns in a line.                                          *)
LEMMA Evaluates ==
  ASSUME NEW l, NEW s, NEW t, Context(l, s, t)
  PROVE  LET v == Evaluate(t, s, l.e)
         IN  /\ v.error \in {Okay, "label_undef", "no_label"}
             /\ v.error = Okay <=> Solved(View(t), s, l.e)
             /\ v.error = Okay => v.value = Result(View(t), s, l.e)
             /\ v.value \in Word /\ v.undef \in Nat
             /\ v.error = "label_undef" /\ s.defined => v.undef > 0
             /\ Counted(Count(s, v), s) /\ Count(s, v).undefined_count = s.undefined_count + v.undef
             /\ l.e \in Expr
  <1>1. s.assembly_pointer \in Word /\ s.defined \in BOOLEAN /\ l.e \in Expr /\ IsTable(t) /\ s \in PassState
    BY DEF Context, PassState, SourceLine, Expr
  <1> DEFINE v == Evaluate(t, s, l.e)
  <1>2. /\ v.error \in {Okay, "label_undef", "no_label"}
        /\ v.error = Okay <=> Solved(View(t), s, l.e)
        /\ v.error = Okay => v.value = Result(View(t), s, l.e)
        /\ v.value \in Word /\ v.undef \in Nat
        /\ v.error = "label_undef" /\ s.defined => v.undef > 0
    BY <1>1, EvaluateView
  <1> HIDE DEF v
  <1>3. Counted(Count(s, v), s) /\ Count(s, v).undefined_count = s.undefined_count + v.undef
    BY <1>1, <1>2, CountCounted
  <1> QED
    BY <1>1, <1>2, <1>3 DEF v

(* A step by n bytes where IF allows it.                                     *)
LEMMA OnwardAhead ==
  ASSUME NEW s \in PassState, NEW p \in PassState, NEW n \in Nat, NEW q
  PROVE  LET a == IF Assembling(s) THEN Advance(p, n) ELSE p
         IN  /\ Ahead(a, p) /\ (Place(s) = q => Place(a) = Onward(q, Place(p), n))
             /\ Assembling(s) => a.span = p.span + n
             /\ a.defined = p.defined
  <1> DEFINE a == IF Assembling(s) THEN Advance(p, n) ELSE p
  <1>0. Assembling(Place(s)) <=> Assembling(s)
    BY AtPlace
  <1>1. CASE Assembling(s)
    <2>1. a = Advance(p, n)
      BY <1>1
    <2>2. Ahead(a, p) /\ Place(a) = Forward(Place(p), n) /\ a.span = p.span + n
      BY <2>1, AdvanceAhead
    <2>3. a.defined = p.defined
      BY <2>1 DEF Advance, PassState
    <2> HIDE DEF a
    <2> QED
      BY <1>0, <1>1, <2>2, <2>3 DEF Onward, a
  <1>2. CASE ~Assembling(s)
    <2>1. a = p
      BY <1>2
    <2>2. Ahead(p, p)
      BY CountedSelf, CountedAhead
    <2> QED
      BY <1>0, <1>2, <2>1, <2>2 DEF Onward
  <1> QED
    BY <1>1, <1>2

(* Any other instruction.                                                    *)
LEMMA FixedEffect ==
  ASSUME NEW l, NEW s, NEW t, Context(l, s, t), l.op \in Instr
  PROVE  LET r == Fixed(l, s, t)
         IN  Effect(r, l, s, t) /\ r.sizes = sizes /\ r.st.item = s.item
  <1> DEFINE v == Evaluate(t, s, l.e)
             s1 == IF OperandRead(l) THEN Count(s, v) ELSE s
             s2 == IF Assembling(s1) THEN Advance(s1, 4) ELSE s1
             o == Item(s1.assembly_pointer, 4, l.e, TRUE, v.value)
             r == Fixed(l, s, t)
             q == Place(s)
  <1>1. /\ v.error \in {Okay, "label_undef", "no_label"}
        /\ v.error = Okay <=> Solved(View(t), s, l.e)
        /\ v.value \in Word /\ l.e \in Expr /\ Counted(Count(s, v), s)
    BY Evaluates
  <1>2. r = Line(t, s2, sizes, Dump(s1, out, o), IF OperandRead(l) THEN Forgiven(v.error) ELSE Okay)
    BY DEF Fixed
  <1>3. /\ r.labels = t /\ r.st = s2 /\ r.sizes = sizes /\ r.out = Dump(s1, out, o)
        /\ r.error = IF OperandRead(l) THEN Forgiven(v.error) ELSE Okay
    BY <1>2 DEF Line
  <1>4. s \in PassState /\ IsTable(t)
    BY DEF Context
  <1>5. Counted(s1, s)
    BY <1>1, <1>4, CountedSelf
  <1>6. s1 \in PassState /\ Place(s1) = q /\ Ahead(s1, s) /\ s1.span = s.span
    BY <1>4, <1>5, CountedAhead DEF Counted
  <1>7. s1.assembly_pointer = s.assembly_pointer /\ s1.defined = s.defined /\ s1.item = s.item
    BY <1>6, PlaceFields
  <1> HIDE DEF s1, v, r
  <1>8. Ahead(s2, s1) /\ Place(s2) = Onward(q, q, 4) /\ (Assembling(s1) => s2.span = s1.span + 4)
        /\ s2.defined = s1.defined
    BY <1>6, OnwardAhead
  <1>9. s2.item = s1.item
    BY <1>6 DEF Advance, PassState
  <1>10. s1.assembly_pointer \in Word
    BY <1>6 DEF PassState
  <1>11. o \in Code /\ o.addr = s.assembly_pointer /\ o.size = 4 /\ o.e = l.e /\ o.ok /\ o.value = v.value
    <2>1. o \in Code
      BY <1>1, <1>10 DEF Item, Code
    <2> QED
      BY <1>7, <2>1 DEF Item
  <1> HIDE DEF o, s2
  <1>12. Ahead(s2, s)
    BY <1>4, <1>6, <1>8, AheadTrans DEF Ahead
  <1>13. (last_pass /\ r.error = Okay) => v.error = Okay
    BY <1>3, LastForgivesNothing DEF Context, OperandRead
  <1>14. Emits(r.out, s, s2, r.error, View(t))
    <2>1. Assembling(s) => s.span + o.size <= s2.span
      <3>1. Assembling(s) => Assembling(s1)
        BY <1>6, PlaceFields DEF Assembling
      <3> QED
        BY <1>4, <1>6, <1>8, <1>11, <3>1 DEF PassState
    <2>2. (last_pass /\ r.error = Okay) => Right(o, View(t))
      BY <1>1, <1>4, <1>11, <1>13, ValueRight DEF v
    <2> QED
      BY <1>3, <1>6, <1>11, <2>1, <2>2, DumpEmits
  <1>15. Moves(l, q, View(t), r.sizes) = Onward(q, q, 4)
    BY RecordSet DEF Moves, Sized, None, Instr, Aligns
  <1>16. (r.error = Okay /\ last_pass) => Solved(View(t), s, l.e)
    BY <1>1, <1>13
  <1>17. Effect(r, l, s, t)
    BY <1>3, <1>7, <1>8, <1>12, <1>14, <1>15, <1>16 DEF Effect
  <1> QED
    BY <1>3, <1>7, <1>9, <1>17 DEF r

(* A load or store of a label.                                               *)
LEMMA GlobalEffect ==
  ASSUME NEW l, NEW s, NEW t, Context(l, s, t), l.op = "MEM"
  PROVE  LET r == Global(l, s, t)
         IN  Effect(r, l, s, t) /\ r.sizes = sizes /\ r.st.item = s.item
  <1> DEFINE v == Evaluate(t, s, l.e)
             s1 == Count(s, v)
             past == Advance(s1, 4)
             a == IF Assembling(s1) THEN Advance(s1, 4) ELSE s1
             b == IF Assembling(s1) THEN Advance(past, 4) ELSE past
             o == Item(s1.assembly_pointer, 8, l.e, TRUE, v.value)
             r == Global(l, s, t)
             q == Place(s)
  <1>1. /\ v.error \in {Okay, "label_undef", "no_label"}
        /\ v.error = Okay <=> Solved(View(t), s, l.e)
        /\ v.value \in Word /\ l.e \in Expr /\ Counted(s1, s)
    BY Evaluates
  <1>2. r = IF Forgiven(v.error) # Okay THEN Line(t, a, sizes, out, Forgiven(v.error))
            ELSE Line(t, b, sizes, Dump(s1, out, o), Okay)
    BY DEF Global
  <1>4. s \in PassState /\ IsTable(t)
    BY DEF Context
  <1>6. s1 \in PassState /\ Place(s1) = q /\ Ahead(s1, s) /\ s1.span = s.span
    BY <1>1, <1>4, CountedAhead DEF Counted
  <1>7. s1.assembly_pointer = s.assembly_pointer /\ s1.defined = s.defined /\ s1.item = s.item
    BY <1>6, PlaceFields
  <1> HIDE DEF s1, v, r
  <1>8. Ahead(past, s1) /\ Place(past) = Forward(q, 4) /\ past.span = s1.span + 4
    BY <1>6, AdvanceAhead
  <1>9. past.defined = s1.defined /\ past.item = s1.item
    BY <1>6 DEF Advance, PassState
  <1>10. past \in PassState
    BY <1>8 DEF Ahead
  <1> HIDE DEF past
  <1>11. Ahead(b, past) /\ Place(b) = Onward(q, Forward(q, 4), 4) /\ (Assembling(s1) => b.span = past.span + 4)
         /\ b.defined = past.defined
    BY <1>6, <1>8, <1>10, OnwardAhead
  <1>12. Ahead(a, s1) /\ a.defined = s1.defined
    BY <1>6, OnwardAhead
  <1>13. a.item = s1.item /\ b.item = past.item
    BY <1>6, <1>10 DEF Advance, PassState
  <1> HIDE DEF a, b
  <1>14. Ahead(a, s) /\ Ahead(b, s)
    <2>1. a \in PassState /\ b \in PassState
      BY <1>11, <1>12 DEF Ahead
    <2>2. Ahead(past, s)
      BY <1>4, <1>6, <1>8, <1>10, AheadTrans
    <2> QED
      BY <1>4, <1>6, <1>10, <1>11, <1>12, <2>1, <2>2, AheadTrans
  <1>15. CASE Forgiven(v.error) # Okay
    <2>1. r.labels = t /\ r.st = a /\ r.sizes = sizes /\ r.out = out /\ r.error # Okay
      BY <1>2, <1>15 DEF Line
    <2>2. Emits(r.out, s, a, r.error, View(t))
      BY <2>1 DEF Emits
    <2>3. Effect(r, l, s, t)
      BY <1>7, <1>12, <1>14, <2>1, <2>2 DEF Effect
    <2> QED
      BY <1>7, <1>13, <2>1, <2>3 DEF r
  <1>16. CASE Forgiven(v.error) = Okay
    <2>1. r.labels = t /\ r.st = b /\ r.sizes = sizes /\ r.out = Dump(s1, out, o) /\ r.error = Okay
      BY <1>2, <1>16 DEF Line
    <2>2. s1.assembly_pointer \in Word
      BY <1>6 DEF PassState
    <2>3. o \in Code /\ o.addr = s.assembly_pointer /\ o.size = 8 /\ o.e = l.e /\ o.ok /\ o.value = v.value
      <3>1. o \in Code
        BY <1>1, <2>2 DEF Item, Code
      <3> QED
        BY <1>7, <3>1 DEF Item
    <2> HIDE DEF o
    <2>4. last_pass => v.error = Okay
      BY <1>16, LastForgivesNothing DEF Context
    <2>5. Emits(r.out, s, b, r.error, View(t))
      <3>1. Assembling(s) => s.span + o.size <= b.span
        <4>1. Assembling(s) => Assembling(s1)
          BY <1>6, PlaceFields DEF Assembling
        <4> QED
          BY <1>4, <1>6, <1>8, <1>11, <2>3, <4>1, PassNumbers
      <3>2. (last_pass /\ r.error = Okay) => Right(o, View(t))
        BY <1>1, <1>4, <2>3, <2>4, ValueRight DEF v
      <3> QED
        BY <1>6, <2>1, <2>3, <3>1, <3>2, DumpEmits
    <2>6. Moves(l, q, View(t), r.sizes) = Onward(q, Forward(q, 4), 4)
      BY RecordSet DEF Moves, Sized, None, Instr, Aligns
    <2>7. Effect(r, l, s, t)
      BY <1>1, <1>7, <1>9, <1>11, <1>14, <2>1, <2>4, <2>5, <2>6 DEF Effect
    <2> QED
      BY <1>7, <1>9, <1>13, <2>1, <2>7 DEF r
  <1> QED
    BY <1>15, <1>16

(* DEFW and DEFS.                                                            *)
LEMMA DefineEffect ==
  ASSUME NEW l, NEW s, NEW t, Context(l, s, t), l.op \in {"DEFW", "DEFS"}
  PROVE  LET r == Define(l, s, t)
         IN  Effect(r, l, s, t) /\ r.sizes = sizes /\ r.st.item = s.item
  <1> DEFINE v == Evaluate(t, s, l.e)
             s1 == Count(s, v)
             n == IF l.op = "DEFW" THEN 4 ELSE v.value
             b == IF Assembling(s1) THEN Advance(s1, n) ELSE s1
             o == Item(s1.assembly_pointer, 4, l.e, TRUE, v.value)
             r == Define(l, s, t)
             q == Place(s)
  <1>1. /\ v.error \in {Okay, "label_undef", "no_label"}
        /\ v.error = Okay <=> Solved(View(t), s, l.e)
        /\ v.error = Okay => v.value = Result(View(t), s, l.e)
        /\ v.value \in Word /\ l.e \in Expr /\ Counted(s1, s)
    BY Evaluates
  <1>2. r = Line(t, IF Assembling(s1) /\ Forgiven(v.error) = Okay THEN Advance(s1, n) ELSE s1, sizes,
                 IF l.op = "DEFW" /\ Forgiven(v.error) = Okay THEN Dump(s1, out, o) ELSE out,
                 Forgiven(v.error))
    BY DEF Define
  <1>4. s \in PassState /\ IsTable(t)
    BY DEF Context
  <1>5. n \in Nat
    BY <1>1, WordNat
  <1>6. s1 \in PassState /\ Place(s1) = q /\ Ahead(s1, s) /\ s1.span = s.span
    BY <1>1, <1>4, CountedAhead DEF Counted
  <1>7. s1.assembly_pointer = s.assembly_pointer /\ s1.defined = s.defined /\ s1.item = s.item
    BY <1>6, PlaceFields
  <1>15. CASE Forgiven(v.error) # Okay
    <2>1. r.labels = t /\ r.st = s1 /\ r.sizes = sizes /\ r.out = out /\ r.error # Okay
      BY <1>2, <1>15 DEF Line
    <2> HIDE DEF s1, v, r
    <2>2. Emits(r.out, s, s1, r.error, View(t))
      BY <2>1 DEF Emits
    <2>3. Effect(r, l, s, t)
      BY <1>6, <1>7, <2>1, <2>2 DEF Effect
    <2> QED
      BY <1>7, <2>1, <2>3 DEF r
  <1>16. CASE Forgiven(v.error) = Okay
    <2>1. /\ r.labels = t /\ r.st = b /\ r.sizes = sizes /\ r.error = Okay
          /\ r.out = IF l.op = "DEFW" THEN Dump(s1, out, o) ELSE out
      BY <1>2, <1>16 DEF Line
    <2> HIDE DEF s1, v, r, n
    <2>11. Ahead(b, s1) /\ Place(b) = Onward(q, q, n) /\ (Assembling(s1) => b.span = s1.span + n)
           /\ b.defined = s1.defined
      BY <1>5, <1>6, OnwardAhead
    <2>12. b.item = s1.item
      BY <1>6 DEF Advance, PassState
    <2> HIDE DEF b
    <2>13. Ahead(b, s)
      <3>1. b \in PassState
        BY <2>11 DEF Ahead
      <3> QED
        BY <1>4, <1>6, <2>11, <3>1, AheadTrans
    <2>2. s1.assembly_pointer \in Word
      BY <1>6 DEF PassState
    <2>3. o \in Code /\ o.addr = s.assembly_pointer /\ o.size = 4 /\ o.e = l.e /\ o.ok /\ o.value = v.value
      <3>1. o \in Code
        BY <1>1, <2>2 DEF Item, Code
      <3> QED
        BY <1>7, <3>1 DEF Item
    <2> HIDE DEF o
    <2>4. last_pass => v.error = Okay
      BY <1>16, LastForgivesNothing DEF Context
    <2>5. CASE l.op = "DEFW"
      <3>0. n = 4
        BY <2>5 DEF n
      <3>1. Assembling(s) => s.span + o.size <= b.span
        <4>1. Assembling(s) => Assembling(s1)
          BY <1>6, PlaceFields DEF Assembling
        <4> QED
          BY <1>4, <1>6, <2>3, <2>11, <3>0, <4>1 DEF PassState
      <3>2. (last_pass /\ r.error = Okay) => Right(o, View(t))
        BY <1>1, <1>4, <2>3, <2>4, ValueRight DEF v
      <3>3. Emits(r.out, s, b, r.error, View(t))
        BY <1>6, <2>1, <2>3, <2>5, <3>1, <3>2, DumpEmits
      <3>4. Moves(l, q, View(t), r.sizes) = Onward(q, q, 4)
        BY <2>5, RecordSet DEF Moves, Sized, None, Instr, Aligns
      <3>5. Effect(r, l, s, t)
        BY <1>1, <1>7, <2>1, <2>4, <2>11, <2>13, <3>0, <3>3, <3>4 DEF Effect
      <3> QED
        BY <1>7, <2>1, <2>12, <3>5 DEF r
    <2>6. CASE l.op = "DEFS"
      <3>0. n = v.value
        BY <2>6 DEF n
      <3>3. Emits(r.out, s, b, r.error, View(t))
        BY <2>1, <2>6 DEF Emits
      <3>4. Moves(l, q, View(t), r.sizes) = Onward(q, q, Result(View(t), q, l.e))
        BY <2>6, RecordSet DEF Moves, Sized, None, Instr, Aligns
      <3>6. Result(View(t), q, l.e) = Result(View(t), s, l.e)
        BY AtPlace
      <3>7. ~Plain(l)
        BY <2>6 DEF Plain, None
      <3>5. Effect(r, l, s, t)
        BY <1>1, <1>7, <2>1, <2>4, <2>11, <2>13, <3>0, <3>3, <3>4, <3>6, <3>7 DEF Effect
      <3> QED
        BY <1>7, <2>1, <2>12, <3>5 DEF r
    <2> QED
      BY <2>5, <2>6
  <1> QED
    BY <1>15, <1>16

(* A line with nothing but a label.                                          *)
LEMMA NoneEffect ==
  ASSUME NEW l, NEW s, NEW t, Context(l, s, t), l.op = None
  PROVE  LET r == Line(t, s, sizes, out, Okay)
         IN  Effect(r, l, s, t) /\ r.sizes = sizes /\ r.st.item = s.item
  <1> DEFINE r == Line(t, s, sizes, out, Okay)
  <1>1. r.labels = t /\ r.st = s /\ r.sizes = sizes /\ r.out = out /\ r.error = Okay
    BY DEF Line
  <1>2. Ahead(s, s)
    BY CountedSelf, CountedAhead DEF Context
  <1> HIDE DEF r
  <1>3. Moves(l, Place(s), View(t), r.sizes) = Place(s)
    BY RecordSet DEF Moves, Sized, None, Instr, Aligns
  <1>4. Effect(r, l, s, t)
    BY <1>1, <1>2, <1>3 DEF Effect, Emits, Plain
  <1> QED
    BY <1>1, <1>4 DEF r

(* Words on the IF stack.                                                    *)
LEMMA IfStack ==
  ASSUME NEW f \in Seq(Word), NEW w \in Word
  PROVE  /\ Append(f, w) \in Seq(Word)
         /\ Len(f) > 0 => /\ [f EXCEPT ![Len(f)] = Mod - 1 - @] \in Seq(Word)
                          /\ Front(f) \in Seq(Word)
  <1>1. Append(f, w) \in Seq(Word)
    OBVIOUS
  <1>2. ASSUME Len(f) > 0
        PROVE  [f EXCEPT ![Len(f)] = Mod - 1 - @] \in Seq(Word)
    <2>1. Len(f) \in 1 .. Len(f) /\ f[Len(f)] \in Word
      BY <1>2
    <2>2. Mod - 1 - f[Len(f)] \in Word
      BY <2>1, PassAssumption DEF Word
    <2> QED
      BY <2>1, <2>2
  <1>3. ASSUME Len(f) > 0
        PROVE  Front(f) \in Seq(Word)
    BY <1>3 DEF Front
  <1> QED
    BY <1>1, <1>2, <1>3

(* IF, ELSE and FI.                                                          *)
LEMMA ConditionalEffect ==
  ASSUME NEW l, NEW s, NEW t, Context(l, s, t), l.op \in {"IF", "ELSE", "FI"}
  PROVE  LET r == Conditional(l, s, t)
         IN  Effect(r, l, s, t) /\ r.sizes = sizes /\ r.st.item = s.item
  <1> DEFINE v == Evaluate(t, s, l.e)
             s1 == Count(s, v)
             depth == Len(s.if_stack)
             r == Conditional(l, s, t)
             q == Place(s)
  <1>1. /\ v.error \in {Okay, "label_undef", "no_label"}
        /\ v.error = Okay <=> Solved(View(t), s, l.e)
        /\ v.error = Okay => v.value = Result(View(t), s, l.e)
        /\ v.value \in Word /\ l.e \in Expr /\ Counted(s1, s)
    BY Evaluates
  <1>2. s \in PassState /\ IsTable(t) /\ Ahead(s, s)
    BY CountedSelf, CountedAhead DEF Context
  <1>3. s.if_stack \in Seq(Word) /\ depth \in Nat /\ IfStackSize \in Nat
    BY <1>2, PassAssumption DEF PassState
  <1>4. s1 \in PassState /\ Place(s1) = q /\ Ahead(s1, s) /\ s1.span = s.span
    BY <1>1, <1>2, CountedAhead DEF Counted
  <1>5. s1.defined = s.defined /\ s1.item = s.item /\ s1.if_stack = s.if_stack
    BY <1>4, PlaceFields
  <1>6. CASE \/ l.op = "IF" /\ depth >= IfStackSize
             \/ l.op # "IF" /\ depth = 0
    <2>1. r = Line(t, s, sizes, out, "many_ifs") \/ r = Line(t, s, sizes, out, "no_if")
      BY <1>3, <1>6 DEF Conditional
    <2>2. r.labels = t /\ r.st = s /\ r.sizes = sizes /\ r.out = out /\ r.error # Okay
      BY <2>1 DEF Line, Okay
    <2> HIDE DEF r
    <2>3. Effect(r, l, s, t)
      BY <1>2, <2>2 DEF Effect, Emits
    <2> QED
      BY <2>2, <2>3 DEF r
  <1>7. CASE l.op = "IF" /\ depth < IfStackSize
    <2> DEFINE f == Append(s.if_stack, IF v.error = Okay THEN v.value ELSE Mod - 1)
               s2 == [s1 EXCEPT !.if_stack = f]
    <2>1. r = Line(t, s2, sizes, out, v.error)
      <3>1. ~(depth >= IfStackSize)
        BY <1>3, <1>7
      <3> QED
        BY <1>5, <1>7, <3>1 DEF Conditional
    <2>2. r.labels = t /\ r.st = s2 /\ r.sizes = sizes /\ r.out = out /\ r.error = v.error
      BY <2>1 DEF Line
    <2>3. f \in Seq(Word)
      <3>1. (IF v.error = Okay THEN v.value ELSE Mod - 1) \in Word
        BY <1>1, PassAssumption DEF Word
      <3> QED
        BY <1>3, <3>1, IfStack
    <2>4. s2.defined = s1.defined /\ s2.item = s1.item
      BY <1>4 DEF PassState
    <2>5. v.error = Okay => f = Append(q.if_stack, Result(View(t), q, l.e))
      <3>1. q.if_stack = s.if_stack
        BY DEF Place
      <3>2. Result(View(t), q, l.e) = Result(View(t), s, l.e)
        BY AtPlace
      <3> HIDE DEF q, v
      <3> QED
        BY <1>1, <3>1, <3>2
    <2>6. Moves(l, q, View(t), r.sizes) = [q EXCEPT !.if_stack = Append(@, Result(View(t), q, l.e))]
      BY <1>7, RecordSet DEF Moves, Sized, None, Instr, Aligns
    <2> HIDE DEF r, v, s1, f
    <2>7. Ahead(s2, s1) /\ Place(s2) = [q EXCEPT !.if_stack = f]
      <3>1. 0 \in Word /\ 0 \in Nat
        BY PassAssumption DEF Word
      <3>2. Ahead(s2, s1) /\ Place(s2) = [Place(s1) EXCEPT !.if_stack = f]
        BY <1>4, <2>3, <3>1, OtherAhead
      <3> QED
        BY <1>4, <3>2
    <2> HIDE DEF s2
    <2>8. Ahead(s2, s)
      <3>1. s2 \in PassState
        BY <2>7 DEF Ahead
      <3> QED
        BY <1>2, <1>4, <2>7, <3>1, AheadTrans
    <2>9. v.error = Okay => Place(s2) = Moves(l, q, View(t), r.sizes)
      BY <2>5, <2>6, <2>7
    <2>10. Effect(r, l, s, t)
      BY <1>1, <1>5, <2>2, <2>4, <2>8, <2>9 DEF Effect, Emits
    <2> QED
      BY <1>5, <2>2, <2>4, <2>10 DEF r
  <1>8. CASE l.op \in {"ELSE", "FI"} /\ depth > 0
    <2> DEFINE f == IF l.op = "ELSE" THEN [s.if_stack EXCEPT ![depth] = Mod - 1 - @] ELSE Front(s.if_stack)
               s2 == [s EXCEPT !.if_stack = f]
    <2>1. r = Line(t, s2, sizes, out, Okay)
      <3>1. ~(depth = 0)
        BY <1>3, <1>8
      <3>2. CASE l.op = "ELSE"
        <4>1. r = Line(t, [s EXCEPT !.if_stack[depth] = Mod - 1 - @], sizes, out, Okay)
          BY <1>8, <3>1, <3>2 DEF Conditional
        <4> QED
          BY <1>2, <3>2, <4>1 DEF PassState
      <3>3. CASE l.op = "FI"
        BY <1>8, <3>1, <3>3 DEF Conditional
      <3> QED
        BY <1>8, <3>2, <3>3
    <2>2. r.labels = t /\ r.st = s2 /\ r.sizes = sizes /\ r.out = out /\ r.error = Okay
      BY <2>1 DEF Line
    <2>3. f \in Seq(Word)
      <3>1. 0 \in Word
        BY PassAssumption DEF Word
      <3> QED
        BY <1>3, <1>8, <3>1, IfStack
    <2>4. s2.defined = s.defined /\ s2.item = s.item
      BY <1>2 DEF PassState
    <2>5. Moves(l, q, View(t), r.sizes) = [q EXCEPT !.if_stack = f]
      <3>1. q.if_stack = s.if_stack
        BY DEF Place
      <3>2. CASE l.op = "ELSE"
        <4>1. Moves(l, q, View(t), r.sizes) = [q EXCEPT !.if_stack[Len(q.if_stack)] = Mod - 1 - @]
          BY <3>2, RecordSet DEF Moves, Sized, None, Instr, Aligns
        <4> QED
          BY <3>1, <3>2, <4>1
      <3>3. CASE l.op = "FI"
        <4>1. Moves(l, q, View(t), r.sizes) = [q EXCEPT !.if_stack = Front(@)]
          BY <3>3, RecordSet DEF Moves, Sized, None, Instr, Aligns
        <4> QED
          BY <3>1, <3>3, <4>1
      <3> QED
        BY <1>8, <3>2, <3>3
    <2> HIDE DEF r, f
    <2>7. Ahead(s2, s) /\ Place(s2) = [q EXCEPT !.if_stack = f]
      <3>1. 0 \in Word /\ 0 \in Nat
        BY PassAssumption DEF Word
      <3> QED
        BY <1>2, <2>3, <3>1, OtherAhead
    <2> HIDE DEF s2
    <2>9. Plain(l)
      BY <1>8 DEF Plain
    <2>10. Effect(r, l, s, t)
      BY <2>2, <2>4, <2>5, <2>7, <2>9 DEF Effect, Emits
    <2> QED
      BY <2>2, <2>4, <2>10 DEF r
  <1> QED
    BY <1>3, <1>6, <1>7, <1>8

(* The offset of a CALL that was kept long is not the one asked for.         *)
LEMMA PlusFour ==
  ASSUME NEW v \in Word
  PROVE  (v + 4) % Mod \in Word /\ (v + 4) % Mod # v
  <1>1. v \in Int /\ 0 <= v /\ v < Mod /\ Mod \in Nat \ {0} /\ Mod > 4
    BY PassAssumption DEF Word
  <1>2. (v + 4) % Mod \in Word
    BY <1>1, Reduced
  <1>3. CASE v + 4 < Mod
    <2>1. v + 4 = Mod * 0 + (v + 4)
      BY <1>1
    <2>2. (v + 4) % Mod = v + 4
      BY <1>1, <1>3, <2>1, ModUnique
    <2> QED
      BY <1>1, <1>2, <2>2
  <1>4. CASE v + 4 >= Mod
    <2>1. v + 4 = Mod * 1 + (v + 4 - Mod)
      BY <1>1
    <2>2. (v + 4) % Mod = v + 4 - Mod
      BY <1>1, <1>4, <2>1, ModUnique
    <2> QED
      BY <1>1, <1>2, <2>2
  <1> QED
    BY <1>1, <1>3, <1>4

(* LI, LA and CALL.                                                          *)
LEMMA LongEffect ==
  ASSUME NEW l, NEW s, NEW t, Context(l, s, t), l.op \in Sized,
         FirstPass => s.item = Len(sizes) + 1, ~FirstPass => s.item \in 1 .. Len(sizes)
  PROVE  LET r == Long(l, s, t)
         IN  /\ Effect(r, l, s, t) /\ r.st.item = s.item + 1
             /\ r.sizes = VariableItemSize(sizes, s.item, Needs(l.op, Evaluate(t, s, l.e).value, s))
  <1> DEFINE v == Evaluate(t, s, l.e)
             s1 == Count(s, v)
             need == Needs(l.op, v.value, s1)
             z == VariableItemSize(sizes, s1.item, need)
             size == z[s1.item]
             past == Advance(s1, size - 4)
             fits == l.op # "CALL" \/ need = size
             val == IF fits THEN v.value ELSE (v.value + 4) % Mod
             o == Item(s1.assembly_pointer, size, l.e, fits, val)
             b == IF Assembling(s1) THEN Advance(past, 4) ELSE past
             s2 == [b EXCEPT !.item = @ + 1]
             err == IF Odd(l.op, v.value, s1) THEN "oorange" ELSE v.error
             r == Long(l, s, t)
             q == Place(s)
  <1>1. /\ v.error \in {Okay, "label_undef", "no_label"}
        /\ v.error = Okay <=> Solved(View(t), s, l.e)
        /\ v.value \in Word /\ l.e \in Expr /\ Counted(s1, s)
    BY Evaluates
  <1>2. r = Line(t, s2, z, Dump(s1, out, o), Forgiven(err))
    BY DEF Long
  <1>3. r.labels = t /\ r.st = s2 /\ r.sizes = z /\ r.out = Dump(s1, out, o) /\ r.error = Forgiven(err)
    <2> HIDE DEF r, s2, z, o, err
    <2> QED
      BY <1>2 DEF Line
  <1>4. s \in PassState /\ IsTable(t) /\ sizes \in Seq({4, 8}) /\ pass_count \in Nat /\ s.item \in Nat
    BY DEF Context, PassState
  <1>6. s1 \in PassState /\ Place(s1) = q /\ Ahead(s1, s) /\ s1.span = s.span
    BY <1>1, <1>4, CountedAhead DEF Counted
  <1>7. s1.assembly_pointer = s.assembly_pointer /\ s1.defined = s.defined /\ s1.item = s.item
    BY <1>6, PlaceFields
  <1>8. need \in {4, 8} /\ need = Needs(l.op, v.value, s)
    BY <1>7, NeedsSize DEF Needs, Odd
  <1>9. size \in {4, 8} /\ size = z[q.item]
    <2> HIDE DEF need, v, s1
    <2>1. z[s.item] \in {4, 8}
      BY <1>4, <1>7, <1>8, SizeKept
    <2> QED
      BY <1>7, <2>1 DEF Place
  <1>10. (last_pass /\ r.error = Okay) => v.error = Okay
    <2> HIDE DEF v, s1, r
    <2>1. last_pass => r.error = err
      BY <1>3, LastForgivesNothing DEF Context
    <2> QED
      BY <2>1 DEF Okay
  <1>11. z = VariableItemSize(sizes, s.item, Needs(l.op, v.value, s))
    BY <1>7, <1>8
  <1> HIDE DEF s1, v, r, z, need, size, err
  <1>12. Ahead(past, s1) /\ Place(past) = Forward(q, size - 4) /\ past.span = s1.span + (size - 4)
    <2>1. size - 4 \in Nat
      BY <1>9
    <2> QED
      BY <1>6, <2>1, AdvanceAhead
  <1>13. past.defined = s1.defined /\ past.item = s1.item
    BY <1>6 DEF Advance, PassState
  <1>14. past \in PassState
    BY <1>12 DEF Ahead
  <1> HIDE DEF past
  <1>15. /\ Ahead(b, past) /\ Place(b) = Onward(q, Forward(q, size - 4), 4)
         /\ Assembling(s1) => b.span = past.span + 4
         /\ b.defined = past.defined
    BY <1>6, <1>12, <1>14, OnwardAhead
  <1>16. b.item = past.item /\ b \in PassState
    BY <1>14, <1>15 DEF Advance, PassState, Ahead
  <1> HIDE DEF b
  <1>17. Ahead(s2, b) /\ Place(s2) = [Place(b) EXCEPT !.item = @ + 1]
    <2>1. 0 \in Word /\ <<>> \in Seq(Word) /\ b.item + 1 \in Nat
      BY <1>16, PassAssumption DEF Word, PassState
    <2>2. Place(b).item = b.item
      BY DEF Place
    <2>3. /\ Ahead([b EXCEPT !.item = b.item + 1], b)
          /\ Place([b EXCEPT !.item = b.item + 1]) = [Place(b) EXCEPT !.item = b.item + 1]
      BY <1>16, <2>1, OtherAhead
    <2> QED
      BY <2>2, <2>3
  <1>18. s2.item = b.item + 1 /\ s2.defined = b.defined /\ s2.span = b.span
    BY <1>16 DEF PassState
  <1> HIDE DEF s2
  <1>19. Ahead(s2, s)
    <2>1. s2 \in PassState
      BY <1>17 DEF Ahead
    <2>2. Ahead(past, s)
      BY <1>4, <1>6, <1>12, <1>14, AheadTrans
    <2>3. Ahead(b, s)
      BY <1>4, <1>14, <1>15, <1>16, <2>2, AheadTrans
    <2> QED
      BY <1>4, <1>16, <1>17, <2>1, <2>3, AheadTrans
  <1>20. val \in Word /\ (fits <=> val = v.value) /\ fits \in BOOLEAN
    BY <1>1, PlusFour
  <1>21. s1.assembly_pointer \in Word
    BY <1>6 DEF PassState
  <1> HIDE DEF fits, val
  <1>22. /\ o \in Code /\ o.addr = s.assembly_pointer /\ o.size = size /\ o.e = l.e
         /\ o.ok <=> o.value = v.value
    <2>1. o \in Code
      BY <1>1, <1>9, <1>20, <1>21 DEF Item, Code
    <2>2. o.addr = s.assembly_pointer /\ o.size = size /\ o.e = l.e /\ o.value = val /\ o.ok = fits
      BY <1>7 DEF Item
    <2> HIDE DEF o
    <2> QED
      BY <1>20, <2>1, <2>2
  <1> HIDE DEF o
  <1>23. Emits(r.out, s, s2, r.error, View(t))
    <2>1. Assembling(s) => s.span + o.size <= s2.span
      <3>1. Assembling(s) => Assembling(s1)
        BY <1>6, PlaceFields DEF Assembling
      <3> QED
        <4>1. s.span \in Nat /\ size \in Nat
          BY <1>4, <1>9 DEF PassState
        <4>2. Assembling(s1) => s2.span = s.span + (size - 4) + 4
          BY <1>6, <1>12, <1>15, <1>18
        <4> QED
          BY <1>22, <3>1, <4>1, <4>2
    <2>2. (last_pass /\ r.error = Okay) => Right(o, View(t))
      BY <1>1, <1>4, <1>10, <1>22, ValueRight DEF v
    <2> QED
      BY <1>3, <1>6, <1>22, <2>1, <2>2, DumpEmits
  <1>24. Moves(l, q, View(t), z) = [Onward(q, Forward(q, z[q.item] - 4), 4) EXCEPT !.item = @ + 1]
    BY RecordSet DEF Moves, Sized, None, Instr, Aligns
  <1>25. Place(s2) = Moves(l, q, View(t), z)
    BY <1>9, <1>15, <1>17, <1>24
  <1>26. Effect(r, l, s, t)
    BY <1>1, <1>3, <1>7, <1>10, <1>13, <1>15, <1>18, <1>19, <1>23, <1>25 DEF Effect
  <1> QED
    BY <1>3, <1>7, <1>11, <1>13, <1>16, <1>18, <1>26 DEF r, v

-----------------------------------------------------------------------------
(* The part of assemble_line behind the label.                               *)
Operates(l, s, t) ==
  CASE l.op = None -> Line(t, s, sizes, out, Okay)
    [] l.op \in Sized -> Long(l, s, t)
    [] l.op \in Instr -> Fixed(l, s, t)
    [] l.op = "MEM" -> Global(l, s, t)
    [] l.op \in {"DEFW", "DEFS"} -> Define(l, s, t)
    [] l.op \in {"IF", "ELSE", "FI"} -> Conditional(l, s, t)

(* The item numbers of a line that asks for a size.                          *)
InList(i) == (FirstPass => i = Len(sizes) + 1) /\ (~FirstPass => i \in 1 .. Len(sizes))

(* What any of these lines does, with its item number and its size.          *)
LEMMA OperatesEffect ==
  ASSUME NEW l, NEW s, NEW t, NEW r, Context(l, s, t), l.op \notin Unplaced,
         l.op \in Sized => InList(s.item), r = Operates(l, s, t)
  PROVE  /\ Effect(r, l, s, t)
         /\ l.op \notin Sized => r.sizes = sizes /\ r.st.item = s.item
         /\ l.op \in Sized =>
              /\ r.st.item = s.item + 1
              /\ r.sizes = VariableItemSize(sizes, s.item, Needs(l.op, Evaluate(t, s, l.e).value, s))
  <1>1. CASE l.op = None
    <2>1. r = Line(t, s, sizes, out, Okay)
      BY <1>1, RecordSet DEF Operates, Sized, None, Instr, Aligns
    <2> QED
      <3>1. l.op \notin Sized
        BY <1>1 DEF Sized, None
      <3>2. Effect(r, l, s, t) /\ r.sizes = sizes /\ r.st.item = s.item
        BY <1>1, <2>1, NoneEffect
      <3> QED
        BY <3>1, <3>2
  <1>2. CASE l.op \in Sized
    <2>1. r = Long(l, s, t)
      BY <1>2, RecordSet DEF Operates, Sized, None, Instr, Aligns
    <2>2. (FirstPass => s.item = Len(sizes) + 1) /\ (~FirstPass => s.item \in 1 .. Len(sizes))
      BY <1>2 DEF InList
    <2> QED
      BY <1>2, <2>1, <2>2, LongEffect
  <1>3. CASE l.op \in Instr
    <2>1. r = Fixed(l, s, t)
      BY <1>3, RecordSet DEF Operates, Sized, None, Instr, Aligns
    <2> QED
      BY <1>3, <2>1, FixedEffect DEF Sized, Instr
  <1>4. CASE l.op = "MEM"
    <2>1. r = Global(l, s, t)
      BY <1>4, RecordSet DEF Operates, Sized, None, Instr, Aligns
    <2> QED
      BY <1>4, <2>1, GlobalEffect DEF Sized
  <1>5. CASE l.op \in {"DEFW", "DEFS"}
    <2>1. r = Define(l, s, t)
      BY <1>5, RecordSet DEF Operates, Sized, None, Instr, Aligns
    <2> QED
      BY <1>5, <2>1, DefineEffect DEF Sized
  <1>6. CASE l.op \in {"IF", "ELSE", "FI"}
    <2>1. r = Conditional(l, s, t)
      BY <1>6, RecordSet DEF Operates, Sized, None, Instr, Aligns
    <2> QED
      BY <1>6, <2>1, ConditionalEffect DEF Sized
  <1>7. l.op \in Ops
    BY DEF Context, SourceLine
  <1> QED
    BY <1>1, <1>2, <1>3, <1>4, <1>5, <1>6, <1>7 DEF Ops

(* What every line does to types, counters, items and emitted code.          *)
Frames(r, l) ==
  /\ IsTable(r.labels) /\ r.st \in PassState /\ r.sizes \in Seq({4, 8})
  /\ r.st.errors = st.errors /\ r.st.span >= st.span
  /\ r.st.defined_count >= st.defined_count /\ r.st.redefined_count >= st.redefined_count
  /\ r.st.undefined_count >= st.undefined_count
  /\ l.op # "ORG" => Ahead(r.st, st)
  /\ Emits(r.out, st, r.st, r.error, View(r.labels))
  /\ \/ r.sizes = sizes /\ r.st.item = st.item /\ (l.op \in Sized => r.error # Okay)
     \/ /\ l.op \in Sized /\ r.st.item = st.item + 1
        /\ Len(r.sizes) = IF FirstPass THEN Len(sizes) + 1 ELSE Len(sizes)

(* What a line does in a pass that stays clean.                              *)
Repeatable(r, l) ==
  /\ View(r.labels) = View(labels)
  /\ ~FirstPass => r.st.defined
  /\ Repeats(l, Place(st), Place(r.st), View(labels), r.sizes, pass_count)
  /\ \A j \in DOMAIN sizes : j # st.item => j \in DOMAIN r.sizes /\ r.sizes[j] = sizes[j]
CleanStep(r, l) ==
  (/\ ~last_pass /\ Quiet(st) /\ Quiet(r.st) /\ r.error = Okay
   /\ FirstPass => NoLabels(labels)
   /\ ~FirstPass => st.defined) => Repeatable(r, l)

(* What a line does in the last pass if it repeats the pass before.          *)
LastStep(r, l) ==
  \A q : (last_pass /\ r.error = Okay /\ st.defined /\ Repeats(l, Place(st), q, View(labels), sizes, pass_count)) =>
    /\ View(r.labels) = View(labels) /\ SameValues(r.labels, labels) /\ r.sizes = sizes
    /\ r.st.defined /\ Place(r.st) = q

(* The state that a line is met in.                                          *)
Ready(l) ==
  /\ Context(l, st, labels)
  /\ l.op \in Sized => InList(st.item)

(* Emitting from a state with the same place.                                *)
LEMMA EmitsFrom ==
  ASSUME NEW o2, NEW s, NEW s1, NEW s2, NEW error, NEW V,
         Emits(o2, s1, s2, error, V), Counted(s1, s)
  PROVE  Emits(o2, s, s2, error, V)
  <1>1. s1.assembly_pointer = s.assembly_pointer /\ s1.span = s.span
    BY PlaceFields DEF Counted
  <1> QED
    BY <1>1 DEF Emits

(* Lines whose label is the current position.                                *)
LEMMA PlacedSteps ==
  ASSUME NEW l, NEW r, Ready(l), l.op \notin Unplaced, r = Placed(l)
  PROVE  Frames(r, l) /\ CleanStep(r, l) /\ LastStep(r, l)
  <1> DEFINE r0 == Labelled(labels, st, l.label, st.assembly_pointer, Here(st))
             e0 == IF r0.error = "undefined_pointer" THEN Okay ELSE r0.error
             op == Operates(l, r0.st, r0.labels)
             need == Needs(l.op, Evaluate(r0.labels, r0.st, l.e).value, r0.st)
             V == View(labels)
             p == Place(st)
  <1>1. /\ l \in SourceLine /\ st \in PassState /\ IsTable(labels) /\ sizes \in Seq({4, 8})
        /\ out \in Seq(Code) /\ pass_count \in Nat /\ (last_pass => ~FirstPass)
    BY DEF Ready, Context
  <1>2. st.assembly_pointer \in Word /\ st.item \in Nat
    BY <1>1 DEF PassState
  <1>3. IsTable(r0.labels) /\ Counted(r0.st, st)
    BY <1>1, <1>2, LabelledTyped
  <1>4. r = IF e0 # Okay THEN Line(r0.labels, r0.st, sizes, out, e0) ELSE op
    BY DEF Placed, Operates
  <1>5. r0.st \in PassState /\ Place(r0.st) = p /\ Ahead(r0.st, st)
    BY <1>1, <1>3, CountedAhead DEF Counted
  <1>6. r0.st.item = st.item /\ r0.st.defined = st.defined
    BY <1>5, PlaceFields
  <1>7. Context(l, r0.st, r0.labels)
    BY <1>1, <1>3, <1>5 DEF Context
  <1>8. l.op \in Sized => InList(r0.st.item)
    BY <1>6 DEF Ready
  <1> HIDE DEF r0
  <1>9. /\ Effect(op, l, r0.st, r0.labels)
        /\ l.op \notin Sized => op.sizes = sizes /\ op.st.item = st.item
        /\ l.op \in Sized => /\ op.st.item = st.item + 1
                             /\ op.sizes = VariableItemSize(sizes, st.item, need)
    BY <1>6, <1>7, <1>8, OperatesEffect
  <1>10. l.op \in Sized => need \in {4, 8}
    BY NeedsSize
  <1> HIDE DEF op, need
  <1>11. ASSUME l.op \in Sized
         PROVE  /\ op.sizes \in Seq({4, 8}) /\ st.item \in DOMAIN op.sizes
                /\ Len(op.sizes) = IF FirstPass THEN Len(sizes) + 1 ELSE Len(sizes)
                /\ \A j \in DOMAIN sizes : j # st.item => j \in DOMAIN op.sizes /\ op.sizes[j] = sizes[j]
                /\ Settled(op.sizes, st.item, need, pass_count)
                /\ ~FirstPass /\ Settled(sizes, st.item, need, pass_count) => op.sizes = sizes
    <2>1. (FirstPass => st.item = Len(sizes) + 1) /\ (~FirstPass => st.item \in 1 .. Len(sizes))
      BY <1>11 DEF Ready, InList
    <2>2. op.sizes = VariableItemSize(sizes, st.item, need)
      BY <1>9, <1>11
    <2> QED
      BY <1>1, <1>2, <1>10, <1>11, <2>1, <2>2, SizeKept
  <1>12. /\ op.labels = r0.labels /\ Ahead(op.st, r0.st) /\ op.st.defined = st.defined
         /\ Emits(op.out, r0.st, op.st, op.error, View(r0.labels))
         /\ (op.error = Okay /\ (Plain(l) \/ Solved(View(r0.labels), r0.st, l.e))) =>
              Place(op.st) = Moves(l, p, View(r0.labels), op.sizes)
         /\ (op.error = Okay /\ last_pass) => Plain(l) \/ Solved(View(r0.labels), r0.st, l.e)
    BY <1>5, <1>6, <1>9 DEF Effect
  <1>13. Frames(r, l)
    <2>1. CASE e0 # Okay
      <3>1. r.labels = r0.labels /\ r.st = r0.st /\ r.sizes = sizes /\ r.out = out /\ r.error # Okay
        BY <1>4, <2>1 DEF Line
      <3>2. Emits(r.out, st, r.st, r.error, View(r.labels))
        BY <3>1 DEF Emits
      <3> HIDE DEF e0
      <3> QED
        BY <1>1, <1>3, <1>5, <1>6, <3>1, <3>2 DEF Frames, Ahead
    <2>2. CASE e0 = Okay
      <3>1. r = op
        BY <1>4, <2>2
      <3>2. Emits(op.out, st, op.st, op.error, View(op.labels))
        BY <1>3, <1>12, EmitsFrom
      <3>3. op.st \in PassState
        BY <1>12 DEF Ahead
      <3>4. Ahead(op.st, st)
        BY <1>1, <1>5, <1>12, <3>3, AheadTrans
      <3>5. \/ op.sizes = sizes /\ op.st.item = st.item /\ l.op \notin Sized
            \/ /\ l.op \in Sized /\ op.st.item = st.item + 1
               /\ Len(op.sizes) = IF FirstPass THEN Len(sizes) + 1 ELSE Len(sizes)
        BY <1>9, <1>11
      <3>6. op.sizes \in Seq({4, 8})
        BY <1>1, <1>9, <1>11
      <3> QED
        BY <1>3, <1>12, <3>1, <3>2, <3>3, <3>4, <3>5, <3>6 DEF Frames, Ahead
    <2> QED
      BY <2>1, <2>2
  <1>14. ASSUME View(r0.labels) = V, r0.st = st, l.op \in Sized, Solved(V, st, l.e)
         PROVE  need = Needs(l.op, Result(V, p, l.e), p)
    <2>1. Evaluate(r0.labels, st, l.e).value = Result(V, st, l.e)
      BY <1>7, <1>14, Evaluates
    <2>2. Result(V, p, l.e) = Result(V, st, l.e)
      BY AtPlace
    <2>3. need = Needs(l.op, Result(V, p, l.e), st)
      BY <1>14, <2>1, <2>2 DEF need
    <2>4. \A v : Needs(l.op, v, p) = Needs(l.op, v, st)
      BY AtPlace
    <2> QED
      BY <2>3, <2>4
  <1>15. Solved(V, p, l.e) <=> Solved(V, st, l.e)
    BY AtPlace
  <1>16. p.item = st.item /\ p.defined = st.defined /\ p.assembly_pointer = st.assembly_pointer
    BY DEF Place
  <1>17. Named(l, p) <=> (l.label # None /\ st.defined)
    BY <1>16, RecordSet DEF Named, Unplaced
  <1>18. LabelOf(l, p, V) = st.assembly_pointer
    BY <1>16, RecordSet DEF LabelOf, Unplaced, Aligns
  <1>19. CleanStep(r, l)
    <2> SUFFICES ASSUME ~last_pass, Quiet(st), Quiet(r.st), r.error = Okay,
                        FirstPass => NoLabels(labels), ~FirstPass => st.defined
                 PROVE  Repeatable(r, l)
      BY DEF CleanStep
    <2>1. r = op /\ e0 = Okay
      <3>1. CASE e0 # Okay
        BY <1>4, <3>1 DEF Line
      <3> QED
        BY <1>4, <3>1
    <2>2. r0.st.defined_count = 0 /\ r0.st.redefined_count = 0
      <3>1. Ahead(op.st, r0.st) /\ r0.st \in PassState /\ op.st.defined_count = 0 /\ op.st.redefined_count = 0
        BY <1>5, <1>12, <2>1 DEF Quiet
      <3> QED
        BY <3>1, PassNumbers DEF Ahead
    <2>3. r0.error # "inconsistent"
      BY <2>1 DEF Okay
    <2>4. Here(st) = Okay \/ NoLabels(labels)
      BY DEF Here
    <2>5. /\ View(r0.labels) = V /\ r0.st = st
          /\ (l.label # None /\ Here(st) = Okay) => l.label \in DOMAIN V /\ V[l.label] = st.assembly_pointer
      <3>1. r0 = Labelled(labels, st, l.label, st.assembly_pointer, Here(st))
        BY DEF r0
      <3> QED
        BY <1>1, <1>2, <2>2, <2>3, <2>4, <3>1, LabelledQuiet
    <2>6. Labels(l, p, V)
      BY <1>17, <1>18, <2>5 DEF Labels, Here
    <2>7. Plain(l) \/ Solved(V, p, l.e) => Place(r.st) = Moves(l, p, V, r.sizes)
      BY <1>12, <1>15, <2>1, <2>5
    <2>8. l.op \in Sized /\ Solved(V, p, l.e) =>
            Settled(r.sizes, p.item, Needs(l.op, Result(V, p, l.e), p), pass_count)
      BY <1>11, <1>14, <1>15, <1>16, <2>1, <2>5
    <2>9. l.op \in Sized => ~Plain(l)
      BY DEF Sized, Plain, None
    <2>10. \A j \in DOMAIN sizes : j # st.item => j \in DOMAIN r.sizes /\ r.sizes[j] = sizes[j]
      BY <1>9, <1>11, <2>1
    <2>11. Repeats(l, p, Place(r.st), V, r.sizes, pass_count)
      BY <2>6, <2>7, <2>8, <2>9 DEF Repeats
    <2> QED
      BY <1>12, <2>1, <2>5, <2>10, <2>11 DEF Repeatable
  <1>20. LastStep(r, l)
    <2> SUFFICES ASSUME NEW q, last_pass, r.error = Okay, st.defined,
                        Repeats(l, p, q, V, sizes, pass_count)
                 PROVE  /\ View(r.labels) = V /\ SameValues(r.labels, labels) /\ r.sizes = sizes
                        /\ r.st.defined /\ Place(r.st) = q
      BY DEF LastStep
    <2>1. r = op /\ e0 = Okay
      <3>1. CASE e0 # Okay
        BY <1>4, <3>1 DEF Line
      <3> QED
        BY <1>4, <3>1
    <2>2. l.label # None => l.label \in DOMAIN V /\ V[l.label] = st.assembly_pointer
      BY <1>17, <1>18 DEF Repeats, Labels
    <2>3. View(r0.labels) = V /\ r0.st = st /\ SameValues(r0.labels, labels)
      <3>1. r0 = Labelled(labels, st, l.label, st.assembly_pointer, Okay)
        BY DEF r0, Here
      <3> QED
        BY <1>1, <1>2, <2>2, <3>1, LabelledKnown
    <2>4. Plain(l) \/ Solved(V, p, l.e)
      BY <1>12, <1>15, <2>1, <2>3
    <2>5. /\ q = Moves(l, p, V, sizes)
          /\ l.op \in Sized => Settled(sizes, p.item, Needs(l.op, Result(V, p, l.e), p), pass_count)
      BY <2>4 DEF Repeats
    <2>6. l.op \in Sized => ~Plain(l)
      BY DEF Sized, Plain, None
    <2>7. op.sizes = sizes
      <3>1. CASE l.op \in Sized
        <4>1. need = Needs(l.op, Result(V, p, l.e), p)
          BY <1>14, <1>15, <2>3, <2>4, <2>6, <3>1
        <4> QED
          BY <1>1, <1>11, <1>16, <2>5, <3>1, <4>1
      <3>2. CASE l.op \notin Sized
        BY <1>9, <3>2
      <3> QED
        BY <3>1, <3>2
    <2>8. Place(op.st) = Moves(l, p, V, sizes)
      BY <1>12, <1>15, <2>1, <2>3, <2>4, <2>7
    <2> QED
      BY <1>12, <2>1, <2>3, <2>5, <2>7, <2>8
  <1> QED
    BY <1>13, <1>19, <1>20

-----------------------------------------------------------------------------
(* A definition without an error had a value, or an error that is forgiven.  *)
LEMMA RedefOkay ==
  ASSUME NEW t, NEW s, NEW n, NEW value, NEW error, RedefLabel(t, s, n, value, error).error = Okay
  PROVE  Forgiven(error) = Okay
  <1>1. Forgiven(Okay) = Okay
    BY DEF Forgiven
  <1>2. RedefLabel(t, s, n, value, error).error =
          IF ~Again(t, n) THEN (IF error = Okay THEN Okay ELSE Forgiven(error))
          ELSE IF error = Okay /\ value = Old(t, n).value THEN error ELSE "inconsistent"
    BY DEF RedefLabel, Old, Again
  <1> QED
    BY <1>1, <1>2 DEF Okay

(* After the first pass a line without an error that reads no undefined      *)
(* label has the value of its operand.                                       *)
LEMMA CleanValue ==
  ASSUME NEW l, NEW s, NEW t, NEW v, Context(l, s, t), v = Evaluate(t, s, l.e),
         Forgiven(v.error) = Okay, ~FirstPass, s.defined, Count(s, v).undefined_count = 0
  PROVE  v.error = Okay
  <1>1. /\ v.error \in {Okay, "label_undef", "no_label"} /\ v.undef \in Nat
        /\ v.error = "label_undef" /\ s.defined => v.undef > 0
        /\ Count(s, v).undefined_count = s.undefined_count + v.undef
    BY Evaluates
  <1>2. s.undefined_count \in Nat
    BY DEF Context, PassState
  <1>3. v.undef = 0
    BY <1>1, <1>2
  <1>4. v.error # "label_undef"
    BY <1>1, <1>3
  <1>5. v.error # "no_label"
    BY DEF Forgiven, Allowed, Okay
  <1> QED
    BY <1>1, <1>4, <1>5

(* EQU.                                                                      *)
LEMMA EquSteps ==
  ASSUME NEW l, NEW r, Ready(l), l.op = "EQU", r = Equ(l, st, Known(l))
  PROVE  Frames(r, l) /\ CleanStep(r, l) /\ LastStep(r, l)
  <1> DEFINE t == Known(l)
             v == Evaluate(t, st, l.e)
             s == Count(st, v)
             r0 == RedefLabel(t, s, l.label, v.value, v.error)
             V == View(labels)
             p == Place(st)
  <1>1. /\ l \in SourceLine /\ st \in PassState /\ IsTable(labels) /\ sizes \in Seq({4, 8})
        /\ out \in Seq(Code) /\ pass_count \in Nat /\ (last_pass => ~FirstPass)
    BY DEF Ready, Context
  <1>2. IsTable(t) /\ View(t) = V /\ SameValues(t, labels)
    BY <1>1, KnownView
  <1>3. Context(l, st, t)
    BY <1>1, <1>2 DEF Context
  <1>4. r.labels = r0.labels /\ r.st = r0.st /\ r.sizes = sizes /\ r.out = out /\ r.error = r0.error
    BY DEF Equ, Line
  <1> HIDE DEF t
  <1>5. /\ v.error = Okay <=> Solved(V, st, l.e)
        /\ v.error = Okay => v.value = Result(V, st, l.e)
        /\ v.value \in Word /\ Counted(s, st)
    BY <1>2, <1>3, Evaluates
  <1> HIDE DEF v
  <1>6. s \in PassState /\ Place(s) = p
    BY <1>5 DEF Counted
  <1> HIDE DEF s
  <1>7. IsTable(r0.labels) /\ Counted(r0.st, s)
    BY <1>1, <1>2, <1>5, <1>6, RedefTyped
  <1>8. r0.error = Okay => Forgiven(v.error) = Okay
    BY RedefOkay
  <1>9. r0 = RedefLabel(t, s, l.label, v.value, v.error)
    OBVIOUS
  <1> HIDE DEF r0
  <1>10. r0.st \in PassState /\ Place(r0.st) = p /\ Ahead(r0.st, st)
    <2>1. r0.st \in PassState /\ Place(r0.st) = p
      BY <1>6, <1>7 DEF Counted
    <2>2. Ahead(r0.st, s) /\ Ahead(s, st)
      BY <1>1, <1>5, <1>6, <1>7, CountedAhead
    <2> QED
      BY <1>1, <1>6, <2>1, <2>2, AheadTrans
  <1>11. r0.st.item = st.item /\ r0.st.defined = st.defined
    BY <1>10, PlaceFields
  <1>12. l.op \notin Sized /\ l.op \in Unplaced /\ ~Plain(l)
    BY RecordSet DEF Sized, Unplaced, Plain, None, Aligns
  <1>13. Frames(r, l)
    BY <1>1, <1>4, <1>7, <1>10, <1>11, <1>12 DEF Frames, Emits, Ahead
  <1>14. (Solved(V, p, l.e) <=> Solved(V, st, l.e)) /\ Result(V, p, l.e) = Result(V, st, l.e)
    BY AtPlace
  <1>15. Moves(l, p, V, sizes) = p
    BY RecordSet DEF Moves, Sized, None, Instr, Aligns
  <1>16. LabelOf(l, p, V) = Result(V, p, l.e) /\ Named(l, p)
    BY DEF LabelOf, Named
  <1>17. CleanStep(r, l)
    <2> SUFFICES ASSUME ~last_pass, Quiet(st), Quiet(r.st), r.error = Okay,
                        FirstPass => NoLabels(labels), ~FirstPass => st.defined
                 PROVE  Repeatable(r, l)
      BY DEF CleanStep
    <2>1. r0.st.defined_count = 0 /\ r0.st.redefined_count = 0 /\ r0.st.undefined_count = 0
      BY <1>4 DEF Quiet
    <2>2. s.undefined_count = 0
      BY <1>6, <1>7, <2>1 DEF Counted, PassState
    <2>3. ~FirstPass => v.error = Okay
      BY <1>3, <1>4, <1>8, <2>2, CleanValue DEF v, s
    <2>4. v.error = Okay \/ NoLabels(t)
      BY <1>2, <2>3 DEF NoLabels
    <2>5. r0.error # "inconsistent"
      BY <1>4 DEF Okay
    <2>6. /\ View(r0.labels) = View(t)
          /\ v.error = Okay => l.label \in DOMAIN View(t) /\ View(t)[l.label] = v.value
      BY <1>1, <1>2, <1>5, <1>6, <1>9, <2>1, <2>4, <2>5, RedefQuiet
    <2>7. Solved(V, p, l.e) => Labels(l, p, V)
      BY <1>2, <1>5, <1>14, <1>16, <2>6 DEF Labels
    <2>8. Repeats(l, p, Place(r.st), V, r.sizes, pass_count)
      BY <1>4, <1>10, <1>12, <1>15, <2>7 DEF Repeats
    <2> QED
      BY <1>2, <1>4, <1>11, <2>6, <2>8 DEF Repeatable
  <1>18. LastStep(r, l)
    <2> SUFFICES ASSUME NEW q, last_pass, r.error = Okay, st.defined,
                        Repeats(l, p, q, V, sizes, pass_count)
                 PROVE  /\ View(r.labels) = V /\ SameValues(r.labels, labels) /\ r.sizes = sizes
                        /\ r.st.defined /\ Place(r.st) = q
      BY DEF LastStep
    <2>1. v.error = Okay
      BY <1>1, <1>4, <1>8, LastForgivesNothing
    <2>2. Solved(V, p, l.e)
      BY <1>5, <1>14, <2>1
    <2>3. Labels(l, p, V) /\ q = p
      BY <1>15, <2>2 DEF Repeats
    <2>4. l.label \in DOMAIN V /\ V[l.label] = v.value
      BY <1>5, <1>14, <1>16, <2>1, <2>3 DEF Labels
    <2>5. View(r0.labels) = View(t) /\ SameValues(r0.labels, t)
      BY <1>1, <1>2, <1>5, <1>6, <1>9, <2>1, <2>4, RedefKnown
    <2>6. SameValues(r0.labels, labels)
      BY <1>2, <2>5 DEF SameValues
    <2> QED
      BY <1>2, <1>4, <1>10, <1>11, <2>3, <2>5, <2>6
  <1> QED
    BY <1>13, <1>17, <1>18

(* An error that a label did not cause is passed on or forgiven.             *)
LEMMA LabelledError ==
  ASSUME NEW t, NEW s, NEW n, NEW value, NEW error, error # Okay
  PROVE  Labelled(t, s, n, value, error).error \in {error, Forgiven(error), "inconsistent"}
  <1>1. CASE n = None
    BY <1>1 DEF Labelled
  <1>2. CASE n # None
    <2>1. RedefLabel(t, s, n, value, error).error =
            IF ~Again(t, n) THEN (IF error = Okay THEN Okay ELSE Forgiven(error))
            ELSE IF error = Okay /\ value = Old(t, n).value THEN error ELSE "inconsistent"
      BY DEF RedefLabel, Old, Again
    <2> QED
      BY <1>2, <2>1 DEF Labelled
  <1> QED
    BY <1>1, <1>2

(* A new position and whether it is known.                                   *)
LEMMA OrgPlace ==
  ASSUME NEW c \in PassState, NEW w \in Word, NEW d \in BOOLEAN
  PROVE  LET s == [c EXCEPT !.assembly_pointer = w, !.defined = d]
         IN  s \in PassState /\ Place(s) = [Place(c) EXCEPT !.assembly_pointer = w, !.defined = d]
  <1> DEFINE s == [c EXCEPT !.assembly_pointer = w, !.defined = d]
  <1>1. s \in PassState
    BY DEF PassState
  <1>2. Place(s) = [Place(c) EXCEPT !.assembly_pointer = w, !.defined = d]
    <2>1. /\ s.assembly_pointer = w /\ s.defined = d /\ s.data_pointer = c.data_pointer
          /\ s.if_stack = c.if_stack /\ s.item = c.item
      BY DEF PassState
    <2> HIDE DEF s
    <2>2. Place(s) = [assembly_pointer |-> w, defined |-> d, data_pointer |-> c.data_pointer,
                      if_stack |-> c.if_stack, item |-> c.item]
      BY <2>1 DEF Place
    <2>3. [Place(c) EXCEPT !.assembly_pointer = w, !.defined = d] =
            [assembly_pointer |-> w, defined |-> d, data_pointer |-> c.data_pointer,
             if_stack |-> c.if_stack, item |-> c.item]
      <3> DEFINE a == [Place(c) EXCEPT !.assembly_pointer = w]
      <3>1. a = [assembly_pointer |-> w, defined |-> c.defined, data_pointer |-> c.data_pointer,
                 if_stack |-> c.if_stack, item |-> c.item]
        BY DEF Place
      <3>2. [Place(c) EXCEPT !.assembly_pointer = w, !.defined = d] = [a EXCEPT !.defined = d]
        OBVIOUS
      <3> HIDE DEF a
      <3> QED
        BY <3>1, <3>2
    <2> QED
      BY <2>2, <2>3
  <1> QED
    BY <1>1, <1>2

(* ORG.                                                                      *)
LEMMA OrgSteps ==
  ASSUME NEW l, NEW r, Ready(l), l.op = "ORG", r = Org(l, st, Known(l))
  PROVE  Frames(r, l) /\ CleanStep(r, l) /\ LastStep(r, l)
  <1> DEFINE t == Known(l)
             v == Evaluate(t, st, l.e)
             c == Count(st, v)
             s == [c EXCEPT !.assembly_pointer = v.value, !.defined = v.error = Okay]
             e == Forgiven(v.error)
             err == IF e = Okay THEN Here(s) ELSE e
             r0 == Labelled(t, s, l.label, v.value, err)
             V == View(labels)
             p == Place(st)
  <1>1. /\ l \in SourceLine /\ st \in PassState /\ IsTable(labels) /\ sizes \in Seq({4, 8})
        /\ out \in Seq(Code) /\ pass_count \in Nat /\ (last_pass => ~FirstPass)
    BY DEF Ready, Context
  <1>2. IsTable(t) /\ View(t) = V /\ SameValues(t, labels)
    BY <1>1, KnownView
  <1>3. Context(l, st, t)
    BY <1>1, <1>2 DEF Context
  <1>4. /\ r.labels = r0.labels /\ r.st = r0.st /\ r.sizes = sizes /\ r.out = out
        /\ r.error = IF r0.error = "undefined_pointer" THEN Okay ELSE r0.error
    BY DEF Org, Line
  <1> HIDE DEF t
  <1>5. /\ v.error \in {Okay, "label_undef", "no_label"}
        /\ v.error = Okay <=> Solved(V, st, l.e)
        /\ v.error = Okay => v.value = Result(V, st, l.e)
        /\ v.value \in Word /\ Counted(c, st)
    BY <1>2, <1>3, Evaluates
  <1> HIDE DEF v
  <1>6. c \in PassState /\ Place(c) = p
    BY <1>5 DEF Counted
  <1>7. /\ s \in PassState /\ s.assembly_pointer = v.value /\ s.defined = (v.error = Okay)
        /\ s.span = c.span /\ s.errors = c.errors /\ s.item = c.item
        /\ s.defined_count = c.defined_count /\ s.redefined_count = c.redefined_count
        /\ s.undefined_count = c.undefined_count
    <2> HIDE DEF c
    <2>1. s \in PassState
      BY <1>5, <1>6 DEF PassState
    <2> QED
      BY <1>6, <2>1 DEF PassState
  <1>8. Place(s) = [p EXCEPT !.assembly_pointer = v.value, !.defined = v.error = Okay]
    <2> HIDE DEF c
    <2>1. Place(s) = [Place(c) EXCEPT !.assembly_pointer = v.value, !.defined = v.error = Okay]
      BY <1>5, <1>6, OrgPlace
    <2> QED
      BY <1>6, <2>1
  <1>9. c.item = st.item /\ c.span = st.span /\ c.errors = st.errors
    BY <1>5, PlaceFields DEF Counted
  <1> HIDE DEF s, c
  <1>10. r0 = Labelled(t, s, l.label, v.value, err)
    OBVIOUS
  <1>11. IsTable(r0.labels) /\ Counted(r0.st, s)
    BY <1>1, <1>2, <1>5, <1>7, LabelledTyped
  <1>12. r.error = Okay => e = Okay /\ r0.error # "inconsistent"
    <2>1. CASE e # Okay
      <3>1. err = e /\ e = v.error /\ e \in {"label_undef", "no_label"} /\ Forgiven(e) = e
        BY <1>5, <2>1 DEF Forgiven
      <3>2. r0.error \in {e, "inconsistent"}
        BY <2>1, <3>1, LabelledError
      <3> QED
        BY <1>4, <3>1, <3>2 DEF Okay
    <2>2. CASE e = Okay
      BY <1>4, <2>2 DEF Okay
    <2> QED
      BY <2>1, <2>2
  <1> HIDE DEF r0
  <1>13. r0.st \in PassState /\ Place(r0.st) = Place(s) /\ r0.st.defined = s.defined /\ r0.st.item = st.item
    BY <1>7, <1>9, <1>11, PlaceFields DEF Counted
  <1>14. l.op \notin Sized /\ l.op \in Unplaced /\ ~Plain(l)
    BY RecordSet DEF Sized, Unplaced, Plain, None, Aligns
  <1>15. Frames(r, l)
    <2>1. /\ r0.st.errors = st.errors /\ r0.st.span >= st.span
          /\ r0.st.defined_count >= st.defined_count /\ r0.st.redefined_count >= st.redefined_count
          /\ r0.st.undefined_count >= st.undefined_count
      <3>1. /\ c.defined_count >= st.defined_count /\ c.redefined_count >= st.redefined_count
            /\ c.undefined_count >= st.undefined_count
        BY <1>5 DEF Counted
      <3>2. /\ r0.st.errors = s.errors /\ r0.st.span = s.span
            /\ r0.st.defined_count >= s.defined_count /\ r0.st.redefined_count >= s.redefined_count
            /\ r0.st.undefined_count >= s.undefined_count
        BY <1>11 DEF Counted
      <3>3. /\ st.span \in Nat /\ st.defined_count \in Nat /\ st.redefined_count \in Nat
            /\ st.undefined_count \in Nat
        BY <1>1, PassNumbers
      <3>4. c.defined_count \in Nat /\ c.redefined_count \in Nat /\ c.undefined_count \in Nat
        BY <1>6, PassNumbers
      <3>5. r0.st.defined_count \in Nat /\ r0.st.redefined_count \in Nat /\ r0.st.undefined_count \in Nat
        BY <1>13, PassNumbers
      <3>6. r0.st.errors = st.errors /\ r0.st.span = st.span
        BY <1>7, <1>9, <3>2
      <3>7. /\ r0.st.defined_count >= c.defined_count /\ r0.st.redefined_count >= c.redefined_count
            /\ r0.st.undefined_count >= c.undefined_count
        BY <1>7, <3>2
      <3> QED
        BY <3>1, <3>3, <3>4, <3>5, <3>6, <3>7
    <2> QED
      BY <1>1, <1>4, <1>11, <1>13, <1>14, <2>1 DEF Frames, Emits
  <1>16. (Solved(V, p, l.e) <=> Solved(V, st, l.e)) /\ Result(V, p, l.e) = Result(V, st, l.e)
    BY AtPlace
  <1>17. Moves(l, p, V, sizes) = [p EXCEPT !.assembly_pointer = Result(V, p, l.e), !.defined = TRUE]
    BY RecordSet DEF Moves, Sized, None, Instr, Aligns
  <1>18. LabelOf(l, p, V) = Result(V, p, l.e) /\ (Named(l, p) <=> l.label # None)
    BY DEF LabelOf, Named
  <1>19. v.error = Okay => Place(s) = Moves(l, p, V, sizes)
    BY <1>5, <1>8, <1>16, <1>17
  <1>20. v.error = Okay => err = Okay
    BY <1>7 DEF Here, Forgiven
  <1> HIDE DEF err
  <1>21. CleanStep(r, l)
    <2> SUFFICES ASSUME ~last_pass, Quiet(st), Quiet(r.st), r.error = Okay,
                        FirstPass => NoLabels(labels), ~FirstPass => st.defined
                 PROVE  Repeatable(r, l)
      BY DEF CleanStep
    <2>1. r0.st.defined_count = 0 /\ r0.st.redefined_count = 0 /\ r0.st.undefined_count = 0
      BY <1>4 DEF Quiet
    <2>2. c.undefined_count = 0
      BY <1>6, <1>7, <1>11, <2>1 DEF Counted, PassState
    <2>3. ~FirstPass => v.error = Okay
      BY <1>3, <1>12, <2>2, CleanValue DEF v, c
    <2>4. err = Okay \/ NoLabels(t)
      BY <1>2, <1>20, <2>3 DEF NoLabels
    <2>6. /\ View(r0.labels) = View(t) /\ r0.st = s
          /\ (l.label # None /\ err = Okay) => l.label \in DOMAIN View(t) /\ View(t)[l.label] = v.value
      BY <1>1, <1>2, <1>5, <1>7, <1>10, <1>12, <2>1, <2>4, LabelledQuiet
    <2>7. Solved(V, p, l.e) => Labels(l, p, V)
      BY <1>2, <1>5, <1>16, <1>18, <1>20, <2>6 DEF Labels
    <2>8. Repeats(l, p, Place(r.st), V, r.sizes, pass_count)
      BY <1>4, <1>5, <1>13, <1>14, <1>16, <1>19, <2>7 DEF Repeats
    <2> QED
      BY <1>2, <1>4, <1>7, <1>13, <2>3, <2>6, <2>8 DEF Repeatable
  <1>22. LastStep(r, l)
    <2> SUFFICES ASSUME NEW q, last_pass, r.error = Okay, st.defined,
                        Repeats(l, p, q, V, sizes, pass_count)
                 PROVE  /\ View(r.labels) = V /\ SameValues(r.labels, labels) /\ r.sizes = sizes
                        /\ r.st.defined /\ Place(r.st) = q
      BY DEF LastStep
    <2>1. v.error = Okay
      BY <1>1, <1>12, LastForgivesNothing
    <2>2. Solved(V, p, l.e)
      BY <1>5, <1>16, <2>1
    <2>3. Labels(l, p, V) /\ q = Moves(l, p, V, sizes)
      BY <2>2 DEF Repeats
    <2>4. l.label # None => l.label \in DOMAIN V /\ V[l.label] = v.value
      BY <1>5, <1>16, <1>18, <2>1, <2>3 DEF Labels
    <2>5. View(r0.labels) = View(t) /\ SameValues(r0.labels, t)
      BY <1>1, <1>2, <1>5, <1>7, <1>10, <1>20, <2>1, <2>4, LabelledKnown
    <2>6. SameValues(r0.labels, labels)
      BY <1>2, <2>5 DEF SameValues
    <2> QED
      BY <1>2, <1>4, <1>7, <1>13, <1>19, <2>1, <2>3, <2>5, <2>6
  <1> QED
    BY <1>15, <1>21, <1>22

(* The bytes in front of a multiple.                                         *)
LEMMA GapNat ==
  ASSUME NEW s \in PassState, NEW n \in Word
  PROVE  Gap(s, n) \in Nat
  <1>1. s.assembly_pointer \in Int /\ n \in Nat
    BY WordNat DEF PassState
  <1>2. (s.assembly_pointer - 1) % Mod \in Int
    <2>1. s.assembly_pointer - 1 \in Int
      BY <1>1
    <2> HIDE DEF Word
    <2> QED
      BY <2>1, Reduced, WordNat
  <1>3. n # 0 => ((s.assembly_pointer - 1) % Mod) % n \in 0 .. n - 1
    <2> DEFINE x == (s.assembly_pointer - 1) % Mod
    <2>1. x \in Int
      BY <1>2
    <2> HIDE DEF x
    <2>2. n # 0 => x % n \in 0 .. n - 1
      BY <1>1, <2>1
    <2> QED
      BY <2>2 DEF x
  <1> QED
    BY <1>1, <1>3 DEF Gap

(* The bytes that fill a gap: an item with a number for its operand.         *)
LEMMA NumberRight ==
  ASSUME NEW a \in Word, NEW g \in Nat \ {0}, NEW V
  PROVE  LET o == Item(a, g, Number, TRUE, 0)
         IN  o \in Code /\ o.addr = a /\ o.size = g /\ Right(o, V)
  <1> DEFINE o == Item(a, g, Number, TRUE, 0)
  <1>0. None \in Names
    BY DEF Names
  <1>1. Number \in Expr /\ Number.k = 0 /\ Number.plus = None /\ Number.minus = None
    BY <1>0 DEF Number, Expr
  <1>2. 0 \in Word /\ 0 % Mod = 0
    BY PassAssumption DEF Word
  <1>3. o \in Code /\ o.addr = a /\ o.size = g /\ o.e = Number /\ o.ok = TRUE /\ o.value = 0
    BY <1>1, <1>2 DEF Item, Code
  <1>4. Solved(V, PassStart, Number)
    BY <1>1 DEF Solved, Given
  <1>5. Result(V, PassStart, Number) = 0
    <2>1. Worth(V, PassStart, None) = 0
      BY DEF Worth
    <2>2. Result(V, PassStart, Number) = (0 + 0 - 0) % Mod
      BY <1>1, <2>1 DEF Result
    <2> QED
      BY <1>2, <2>2
  <1> QED
    BY <1>3, <1>4, <1>5 DEF Right

(* ALIGN.                                                                    *)
LEMMA AlignSteps ==
  ASSUME NEW l, NEW r, Ready(l), l.op \in Aligns, r = Align(l, st, Known(l))
  PROVE  Frames(r, l) /\ CleanStep(r, l) /\ LastStep(r, l)
  <1> DEFINE t == Known(l)
             v == Evaluate(t, st, l.e)
             s == Count(st, v)
             g == Gap(s, v.value)
             n == IF l.op = "ALIGN" THEN g ELSE 0
             x == (s.assembly_pointer + n) % Mod
             o == Item(s.assembly_pointer, g, Number, TRUE, 0)
             r0 == Labelled(t, s, l.label, x, Here(s))
             a == IF Assembling(s) THEN Advance(r0.st, g) ELSE r0.st
             V == View(labels)
             p == Place(st)
  <1>1. /\ l \in SourceLine /\ st \in PassState /\ IsTable(labels) /\ sizes \in Seq({4, 8})
        /\ out \in Seq(Code) /\ pass_count \in Nat /\ (last_pass => ~FirstPass)
    BY DEF Ready, Context
  <1>2. IsTable(t) /\ View(t) = V /\ SameValues(t, labels)
    BY <1>1, KnownView
  <1>3. Context(l, st, t)
    BY <1>1, <1>2 DEF Context
  <1>4. r = IF v.error # Okay THEN Line(t, s, sizes, out, v.error)
            ELSE Line(r0.labels, a, sizes, IF l.op = "ALIGN" \/ g = 0 THEN out ELSE Dump(s, out, o),
                      IF r0.error = "undefined_pointer" THEN Okay ELSE r0.error)
    BY DEF Align
  <1> HIDE DEF t
  <1>5. /\ v.error = Okay <=> Solved(V, st, l.e)
        /\ v.error = Okay => v.value = Result(V, st, l.e)
        /\ v.value \in Word /\ Counted(s, st)
    BY <1>2, <1>3, Evaluates
  <1> HIDE DEF v
  <1>6. s \in PassState /\ Place(s) = p /\ Ahead(s, st)
    BY <1>1, <1>5, CountedAhead DEF Counted
  <1>7. s.assembly_pointer = st.assembly_pointer /\ s.defined = st.defined /\ s.item = st.item
    BY <1>6, PlaceFields
  <1> HIDE DEF s
  <1>8. g \in Nat
    BY <1>5, <1>6, GapNat
  <1>9. x \in Word
    <2>1. s.assembly_pointer \in Int
      BY <1>6, WordNat DEF PassState
    <2> QED
      BY <1>8, <2>1, Reduced DEF n
  <1>10. g = Gap(p, v.value)
    BY <1>7 DEF Gap, Place
  <1> HIDE DEF g
  <1>11. r0 = Labelled(t, s, l.label, x, Here(s))
    OBVIOUS
  <1>30. x = IF l.op = "ALIGN" THEN (p.assembly_pointer + g) % Mod ELSE p.assembly_pointer
    <2>1. s.assembly_pointer = p.assembly_pointer
      BY <1>7 DEF Place
    <2>2. s.assembly_pointer \in 0 .. Mod - 1 /\ Mod \in Nat
      BY <1>6, PassAssumption DEF PassState, Word
    <2>3. (s.assembly_pointer + 0) % Mod = s.assembly_pointer
      BY <2>2
    <2> QED
      BY <2>1, <2>3 DEF n
  <1> HIDE DEF x, r0
  <1>12. IsTable(r0.labels) /\ Counted(r0.st, s)
    BY <1>1, <1>2, <1>6, <1>9, <1>11, LabelledTyped
  <1>13. r0.st \in PassState /\ Place(r0.st) = p /\ Ahead(r0.st, s)
    BY <1>6, <1>12, CountedAhead DEF Counted
  <1>14. Ahead(a, r0.st) /\ Place(a) = Onward(p, p, g) /\ a.defined = r0.st.defined
    BY <1>6, <1>8, <1>13, OnwardAhead
  <1>15. a.item = r0.st.item
    BY <1>13 DEF Advance, PassState
  <1>16. r0.st.item = st.item /\ r0.st.defined = st.defined
    BY <1>13, PlaceFields
  <1>31. Assembling(s) => st.span + g <= a.span
    <2>1. r0.st.span >= st.span /\ r0.st.span \in Nat /\ st.span \in Nat
      <3>1. r0.st.span >= s.span /\ s.span >= st.span
        BY <1>6, <1>13 DEF Ahead
      <3>2. r0.st.span \in Nat /\ s.span \in Nat /\ st.span \in Nat
        BY <1>1, <1>6, <1>13 DEF PassState
      <3> QED
        BY <3>1, <3>2
    <2>2. Advance(r0.st, g).span = r0.st.span + g
      BY <1>13 DEF Advance, PassState
    <2> QED
      BY <1>8, <2>1, <2>2
  <1> HIDE DEF a
  <1>17. Ahead(a, st)
    <2>1. a \in PassState
      BY <1>14 DEF Ahead
    <2>2. Ahead(r0.st, st)
      BY <1>1, <1>6, <1>13, AheadTrans
    <2> QED
      BY <1>1, <1>13, <1>14, <2>1, <2>2, AheadTrans
  <1>18. l.op \notin Sized /\ l.op \in Unplaced /\ ~Plain(l)
    BY RecordSet DEF Sized, Unplaced, Plain, None, Aligns
  <1>19. CASE v.error # Okay
    <2>1. r.labels = t /\ r.st = s /\ r.sizes = sizes /\ r.out = out /\ r.error # Okay
      BY <1>4, <1>19 DEF Line
    <2>2. Frames(r, l)
      BY <1>1, <1>2, <1>6, <1>7, <1>18, <2>1 DEF Frames, Emits, Ahead
    <2> QED
      BY <2>1, <2>2 DEF CleanStep, LastStep
  <1>20. CASE v.error = Okay
    <2>1. /\ r.labels = r0.labels /\ r.st = a /\ r.sizes = sizes
          /\ r.out = IF l.op = "ALIGN" \/ g = 0 THEN out ELSE Dump(s, out, o)
          /\ r.error = IF r0.error = "undefined_pointer" THEN Okay ELSE r0.error
      BY <1>4, <1>20 DEF Line
    <2>9. Emits(r.out, st, r.st, r.error, View(r.labels))
      <3>1. CASE l.op = "ALIGN" \/ g = 0
        BY <2>1, <3>1 DEF Emits
      <3>2. CASE l.op # "ALIGN" /\ g # 0
        <4>1. s.assembly_pointer \in Word
          BY <1>6 DEF PassState
        <4>2. /\ o \in Code /\ o.addr = st.assembly_pointer /\ o.size = g
              /\ Right(o, View(r.labels))
          BY <1>7, <1>8, <3>2, <4>1, NumberRight
        <4>3. Place(s) = Place(st)
          BY <1>6
        <4>4. Assembling(st) => st.span + g <= a.span
          BY <1>31, <4>3, PlaceFields DEF Assembling
        <4> HIDE DEF o
        <4> QED
          BY <2>1, <3>2, <4>2, <4>3, <4>4, DumpEmits
      <3> QED
        BY <3>1, <3>2
    <2>2. Frames(r, l)
      BY <1>1, <1>12, <1>15, <1>16, <1>17, <1>18, <2>1, <2>9 DEF Frames, Ahead
    <2>3. Solved(V, p, l.e) /\ v.value = Result(V, p, l.e)
      BY <1>5, <1>20, AtPlace
    <2>4. Moves(l, p, V, sizes) = Onward(p, p, Gap(p, Result(V, p, l.e)))
      BY RecordSet DEF Moves, Sized, None, Instr, Aligns
    <2>5. Place(a) = Moves(l, p, V, sizes)
      BY <1>10, <1>14, <2>3, <2>4
    <2>6. LabelOf(l, p, V) = x /\ (Named(l, p) <=> l.label # None /\ st.defined)
      <3>1. p.defined = st.defined
        BY DEF Place
      <3>2. LabelOf(l, p, V) = IF l.op = "ALIGN" THEN (p.assembly_pointer + Gap(p, Result(V, p, l.e))) % Mod
                               ELSE p.assembly_pointer
        BY RecordSet DEF LabelOf, Aligns
      <3>3. LabelOf(l, p, V) = x
        BY <1>10, <1>30, <2>3, <3>2
      <3> QED
        BY <3>1, <3>3, RecordSet DEF Named, Aligns
    <2>7. CleanStep(r, l)
      <3> SUFFICES ASSUME ~last_pass, Quiet(st), Quiet(r.st), r.error = Okay,
                          FirstPass => NoLabels(labels), ~FirstPass => st.defined
                   PROVE  Repeatable(r, l)
        BY DEF CleanStep
      <3>1. r0.st.defined_count = 0 /\ r0.st.redefined_count = 0
        <4>1. a.defined_count = 0 /\ a.redefined_count = 0
          BY <2>1 DEF Quiet
        <4> QED
          BY <1>13, <1>14, <4>1, PassNumbers DEF Ahead
      <3>2. Here(s) = Okay \/ NoLabels(t)
        BY <1>2, <1>7 DEF Here, NoLabels
      <3>3. r0.error # "inconsistent"
        BY <2>1 DEF Okay
      <3>4. /\ View(r0.labels) = View(t)
            /\ (l.label # None /\ Here(s) = Okay) => l.label \in DOMAIN View(t) /\ View(t)[l.label] = x
        BY <1>1, <1>2, <1>6, <1>9, <1>11, <3>1, <3>2, <3>3, LabelledQuiet
      <3>5. Labels(l, p, V)
        BY <1>2, <1>7, <2>6, <3>4 DEF Labels, Here
      <3>6. Repeats(l, p, Place(r.st), V, r.sizes, pass_count)
        BY <1>18, <2>1, <2>5, <3>5 DEF Repeats
      <3> QED
        BY <1>2, <1>14, <1>16, <2>1, <3>4, <3>6 DEF Repeatable
    <2>8. LastStep(r, l)
      <3> SUFFICES ASSUME NEW q, last_pass, r.error = Okay, st.defined,
                          Repeats(l, p, q, V, sizes, pass_count)
                   PROVE  /\ View(r.labels) = V /\ SameValues(r.labels, labels) /\ r.sizes = sizes
                          /\ r.st.defined /\ Place(r.st) = q
        BY DEF LastStep
      <3>1. Labels(l, p, V) /\ q = Moves(l, p, V, sizes)
        BY <2>3 DEF Repeats
      <3>2. l.label # None => l.label \in DOMAIN V /\ V[l.label] = x
        BY <2>6, <3>1 DEF Labels
      <3>3. Here(s) = Okay
        BY <1>7 DEF Here
      <3>4. View(r0.labels) = View(t) /\ SameValues(r0.labels, t)
        BY <1>1, <1>2, <1>6, <1>9, <1>11, <3>2, <3>3, LabelledKnown
      <3>5. SameValues(r0.labels, labels)
        BY <1>2, <3>4 DEF SameValues
      <3> QED
        BY <1>2, <1>14, <1>16, <2>1, <2>5, <3>1, <3>4, <3>5
    <2> QED
      BY <2>2, <2>7, <2>8
  <1> QED
    BY <1>19, <1>20

(* The data pointer stays a word.                                            *)
LEMMA RecordTyped ==
  ASSUME NEW op \in Records, NEW d \in Word, NEW n \in Word
  PROVE  RecordAt(op, d, n) \in Word /\ RecordPast(op, d, n) \in Word /\ Absent(op) \in Word
  <1>1. d \in Nat /\ n \in Nat
    BY WordNat
  <1>2. RecordAt(op, d, n) \in Word
    <2>1. CASE op = "REC_ALIGN" /\ n # 0
      <3>1. d - (d % n) + n \in Int
        BY <1>1, <2>1
      <3> QED
        BY <2>1, <3>1, Reduced DEF RecordAt
    <2>2. CASE ~(op = "REC_ALIGN" /\ n # 0)
      BY <2>2 DEF RecordAt
    <2> QED
      BY <2>1, <2>2
  <1>3. RecordPast(op, d, n) \in Word
    <2>1. CASE op \in DOMAIN Element
      <3>1. Element[op] \in Nat
        BY <2>1 DEF Element
      <3>2. d + (Element[op] * n) \in Int
        BY <1>1, <3>1
      <3> QED
        BY <2>1, <3>2, Reduced DEF RecordPast
    <2>2. CASE op \notin DOMAIN Element
      BY <2>2 DEF RecordPast
    <2> QED
      BY <2>1, <2>2
  <1>4. Absent(op) \in Word
    BY PassAssumption DEF Absent, Word
  <1> QED
    BY <1>2, <1>3, <1>4

(* RECORD, REC_ALIGN and the elements of a record.                           *)
LEMMA RecordSteps ==
  ASSUME NEW l, NEW r, Ready(l), l.op \in Records, r = Record(l, st, Known(l))
  PROVE  Frames(r, l) /\ CleanStep(r, l) /\ LastStep(r, l)
  <1> DEFINE t == Known(l)
             v == Evaluate(t, st, l.e)
             c == Count(st, v)
             e == Forgiven(v.error)
             n == IF v.error # Okay /\ e = Okay THEN Absent(l.op) ELSE v.value
             d == RecordAt(l.op, c.data_pointer, n)
             s == [c EXCEPT !.data_pointer = d]
             r0 == Labelled(t, s, l.label, d, Okay)
             d2 == RecordPast(l.op, d, n)
             a == [r0.st EXCEPT !.data_pointer = d2]
             V == View(labels)
             p == Place(st)
  <1>1. /\ l \in SourceLine /\ st \in PassState /\ IsTable(labels) /\ sizes \in Seq({4, 8})
        /\ out \in Seq(Code) /\ pass_count \in Nat /\ (last_pass => ~FirstPass)
    BY DEF Ready, Context
  <1>2. IsTable(t) /\ View(t) = V /\ SameValues(t, labels)
    BY <1>1, KnownView
  <1>3. Context(l, st, t)
    BY <1>1, <1>2 DEF Context
  <1>4. /\ v.error \in {Okay, "label_undef", "no_label"}
        /\ v.error = Okay <=> Solved(V, st, l.e)
        /\ v.error = Okay => v.value = Result(V, st, l.e)
        /\ v.value \in Word /\ Counted(c, st)
    <2> HIDE DEF t
    <2> QED
      BY <1>2, <1>3, Evaluates
  <1>5. c \in PassState /\ Place(c) = p /\ Ahead(c, st)
    BY <1>1, <1>4, CountedAhead DEF Counted
  <1>6. c.data_pointer = st.data_pointer /\ c.defined = st.defined /\ c.item = st.item
    BY <1>5, PlaceFields
  <1>7. s.data_pointer = d /\ s.defined = c.defined /\ s.item = c.item /\ s.undefined_count = c.undefined_count
    BY <1>5 DEF PassState
  <1>8. n \in Word /\ d \in Word
    <2>1. c.data_pointer \in Word
      BY <1>5 DEF PassState
    <2>2. Absent(l.op) \in Word
      BY <2>1, RecordTyped
    <2>3. n \in Word
      BY <1>4, <2>2
    <2> HIDE DEF n
    <2> QED
      BY <2>1, <2>3, RecordTyped
  <1>9. d2 \in Word
    <2> HIDE DEF d, n
    <2> QED
      BY <1>8, RecordTyped
  <1>10. r = IF e # Okay THEN Line(t, c, sizes, out, e)
             ELSE Line(r0.labels,
                       [r0.st EXCEPT !.data_pointer = RecordPast(l.op, @, n)],
                       sizes, out, r0.error)
    <2> DEFINE s0 == [c EXCEPT !.data_pointer = RecordAt(l.op, @, n)]
               x == Labelled(t, s0, l.label, s0.data_pointer, Okay)
    <2>1. s0 = s
      BY <1>5 DEF PassState
    <2>2. r = IF e # Okay THEN Line(t, c, sizes, out, e)
              ELSE Line(x.labels,
                        [x.st EXCEPT !.data_pointer = RecordPast(l.op, @, n)],
                        sizes, out, x.error)
      BY DEF Record
    <2>3. x = r0
      <3> HIDE DEF s0, s, d
      <3> QED
        BY <1>7, <2>1
    <2> HIDE DEF x, r0, e, n, c, t
    <2> QED
      BY <2>2, <2>3
  <1> HIDE DEF t, v, c, n
  <1>11. 0 \in Word /\ <<>> \in Seq(Word) /\ 0 \in Nat
    BY PassAssumption DEF Word
  <1>12. Ahead(s, c) /\ Place(s) = [p EXCEPT !.data_pointer = d]
    <2> HIDE DEF d
    <2>1. Ahead(s, c) /\ Place(s) = [Place(c) EXCEPT !.data_pointer = d]
      BY <1>5, <1>8, <1>11, OtherAhead
    <2> QED
      BY <1>5, <2>1
  <1>13. s \in PassState
    BY <1>12 DEF Ahead
  <1> HIDE DEF s, d
  <1>14. r0 = Labelled(t, s, l.label, d, Okay)
    OBVIOUS
  <1> HIDE DEF r0
  <1>15. IsTable(r0.labels) /\ Counted(r0.st, s)
    BY <1>1, <1>2, <1>8, <1>13, <1>14, LabelledTyped
  <1>16. r0.st \in PassState /\ Place(r0.st) = Place(s) /\ Ahead(r0.st, s)
    BY <1>13, <1>15, CountedAhead DEF Counted
  <1>17. r0.st.data_pointer = d /\ r0.st.defined = st.defined /\ r0.st.item = st.item
    BY <1>6, <1>7, <1>16, PlaceFields
  <1>18. r = IF e # Okay THEN Line(t, c, sizes, out, e) ELSE Line(r0.labels, a, sizes, out, r0.error)
    BY <1>10, <1>17
  <1>19. a.defined = st.defined /\ a.item = st.item
    BY <1>16, <1>17 DEF PassState
  <1> HIDE DEF d2
  <1>20. Ahead(a, r0.st) /\ Place(a) = [Place(r0.st) EXCEPT !.data_pointer = d2]
    BY <1>9, <1>11, <1>16, OtherAhead
  <1> HIDE DEF a
  <1>21. Place(a) = [p EXCEPT !.data_pointer = d2]
    <2> HIDE DEF p
    <2>1. Place(a) = [[p EXCEPT !.data_pointer = d] EXCEPT !.data_pointer = d2]
      BY <1>12, <1>16, <1>20
    <2> QED
      BY <2>1
  <1>22. Ahead(a, st) /\ Ahead(a, c)
    <2>1. a \in PassState
      BY <1>20 DEF Ahead
    <2>2. Ahead(r0.st, c)
      BY <1>5, <1>12, <1>13, <1>16, AheadTrans
    <2>3. Ahead(a, c)
      BY <1>5, <1>16, <1>20, <2>1, <2>2, AheadTrans
    <2> QED
      BY <1>1, <1>5, <2>1, <2>3, AheadTrans
  <1>23. l.op \notin Sized /\ l.op \in Unplaced /\ ~Plain(l)
    BY RecordSet DEF Sized, Unplaced, Plain, None, Aligns
  <1>24. CASE e # Okay
    <2>1. r.labels = t /\ r.st = c /\ r.sizes = sizes /\ r.out = out /\ r.error # Okay
      BY <1>18, <1>24 DEF Line
    <2>2. Frames(r, l)
      BY <1>1, <1>2, <1>5, <1>6, <1>23, <2>1 DEF Frames, Emits, Ahead
    <2> QED
      BY <2>1, <2>2 DEF CleanStep, LastStep
  <1>25. CASE e = Okay
    <2>1. r.labels = r0.labels /\ r.st = a /\ r.sizes = sizes /\ r.out = out /\ r.error = r0.error
      BY <1>18, <1>25 DEF Line
    <2>2. Frames(r, l)
      BY <1>1, <1>15, <1>19, <1>22, <1>23, <2>1 DEF Frames, Emits, Ahead
    <2>3. /\ Solved(V, p, l.e) <=> Solved(V, st, l.e)
          /\ Result(V, p, l.e) = Result(V, st, l.e) /\ p.data_pointer = st.data_pointer
      BY AtPlace
    <2>4. Solved(V, p, l.e) => n = Result(V, p, l.e)
      BY <1>4, <2>3 DEF n
    <2>5. Solved(V, p, l.e) => Place(a) = Moves(l, p, V, sizes)
      <3>1. Moves(l, p, V, sizes) =
              [p EXCEPT !.data_pointer =
                 RecordPast(l.op, RecordAt(l.op, @, Result(V, p, l.e)), Result(V, p, l.e))]
        BY RecordSet DEF Moves, Sized, None, Instr, Aligns
      <3>2. d2 = RecordPast(l.op, RecordAt(l.op, p.data_pointer, n), n)
        BY <1>6, <2>3 DEF d2, d
      <3> QED
        BY <1>21, <2>4, <3>1, <3>2
    <2>6. /\ Solved(V, p, l.e) => LabelOf(l, p, V) = d
          /\ Named(l, p) <=> l.label # None
      <3>1. LabelOf(l, p, V) = RecordAt(l.op, p.data_pointer, Result(V, p, l.e))
        BY RecordSet DEF LabelOf
      <3>2. d = RecordAt(l.op, p.data_pointer, n)
        BY <1>6, <2>3 DEF d
      <3> QED
        BY <2>4, <3>1, <3>2, RecordSet DEF Named
    <2>7. CleanStep(r, l)
      <3> SUFFICES ASSUME ~last_pass, Quiet(st), Quiet(r.st), r.error = Okay,
                          FirstPass => NoLabels(labels), ~FirstPass => st.defined
                   PROVE  Repeatable(r, l)
        BY DEF CleanStep
      <3>1. r0.st.defined_count = 0 /\ r0.st.redefined_count = 0
        <4>1. a.defined_count = 0 /\ a.redefined_count = 0
          BY <2>1 DEF Quiet
        <4> QED
          BY <1>16, <1>20, <4>1, PassNumbers DEF Ahead
      <3>2. r0.error # "inconsistent"
        BY <2>1 DEF Okay
      <3>3. /\ View(r0.labels) = View(t)
            /\ l.label # None => l.label \in DOMAIN View(t) /\ View(t)[l.label] = d
        BY <1>1, <1>2, <1>8, <1>13, <1>14, <3>1, <3>2, LabelledQuiet
      <3>4. Solved(V, p, l.e) => Labels(l, p, V)
        BY <1>2, <2>6, <3>3 DEF Labels
      <3>5. Repeats(l, p, Place(r.st), V, r.sizes, pass_count)
        BY <1>23, <2>1, <2>5, <3>4 DEF Repeats
      <3> QED
        BY <1>2, <1>19, <2>1, <3>3, <3>5 DEF Repeatable
    <2>8. LastStep(r, l)
      <3> SUFFICES ASSUME NEW q, last_pass, r.error = Okay, st.defined,
                          Repeats(l, p, q, V, sizes, pass_count)
                   PROVE  /\ View(r.labels) = V /\ SameValues(r.labels, labels) /\ r.sizes = sizes
                          /\ r.st.defined /\ Place(r.st) = q
        BY DEF LastStep
      <3>0. v.error = Okay
        BY <1>1, <1>25, LastForgivesNothing
      <3>1. Solved(V, p, l.e) /\ Labels(l, p, V) /\ q = Moves(l, p, V, sizes)
        BY <1>4, <2>3, <3>0 DEF Repeats
      <3>2. l.label # None => l.label \in DOMAIN View(t) /\ View(t)[l.label] = d
        BY <1>2, <2>6, <3>1 DEF Labels
      <3>4. View(r0.labels) = View(t) /\ SameValues(r0.labels, t)
        BY <1>1, <1>2, <1>8, <1>13, <1>14, <3>2, LabelledKnown
      <3>5. SameValues(r0.labels, labels)
        BY <1>2, <3>4 DEF SameValues
      <3> QED
        BY <1>2, <1>19, <2>1, <2>5, <3>1, <3>4, <3>5
    <2> QED
      BY <2>2, <2>7, <2>8
  <1> QED
    BY <1>24, <1>25

-----------------------------------------------------------------------------
(* The lines in front of a line are counted one by one.                      *)
LEMMA ItemNoNext ==
  ASSUME NEW src \in Seq(SourceLine), NEW j \in 1 .. Len(src)
  PROVE  /\ ItemNo(src, j) \in Nat /\ ItemNo(src, j) >= 1
         /\ ItemNo(src, j + 1) = IF src[j].op \in Sized THEN ItemNo(src, j) + 1 ELSE ItemNo(src, j)
         /\ src[j].op \in Sized => ItemNo(src, j) + 1 <= ItemNo(src, Len(src) + 1)
  <1> DEFINE S(k) == {i \in 1 .. k - 1 : src[i].op \in Sized}
             m == Len(src) + 1
  <1>1. m \in Nat /\ j \in Nat /\ j + 1 <= m /\ j + 1 \in Nat
    OBVIOUS
  <1>2. \A k \in Nat : IsFiniteSet(S(k)) /\ Cardinality(S(k)) \in Nat
    <2> TAKE k \in Nat
    <2>1. IsFiniteSet(1 .. k - 1)
      BY FS_Interval
    <2>2. S(k) \subseteq 1 .. k - 1
      OBVIOUS
    <2>3. IsFiniteSet(S(k))
      BY <2>1, <2>2, FS_Subset
    <2> QED
      BY <2>3, FS_CardinalityType
  <1>3. \A k : ItemNo(src, k) = Cardinality(S(k)) + 1
    BY DEF ItemNo
  <1>4. S(j + 1) = IF src[j].op \in Sized THEN S(j) \cup {j} ELSE S(j)
    <2>1. \A i : i \in 1 .. (j + 1) - 1 <=> (i \in 1 .. j - 1 \/ i = j)
      BY <1>1
    <2> QED
      BY <2>1
  <1>5. j \notin S(j)
    OBVIOUS
  <1>6. S(j + 1) \subseteq S(m)
    BY <1>1
  <1> HIDE DEF S, m
  <1>7. Cardinality(S(j) \cup {j}) = Cardinality(S(j)) + 1
    BY <1>1, <1>2, <1>5, FS_AddElement
  <1>8. Cardinality(S(j + 1)) <= Cardinality(S(m))
    BY <1>1, <1>2, <1>6, FS_Subset
  <1>9. Cardinality(S(j)) \in Nat /\ Cardinality(S(m)) \in Nat
    BY <1>1, <1>2
  <1>10. src[j].op \in Sized => Cardinality(S(j + 1)) = Cardinality(S(j)) + 1
    BY <1>4, <1>7
  <1>11. src[j].op \notin Sized => S(j + 1) = S(j)
    BY <1>4
  <1>12. ItemNo(src, m) = Cardinality(S(m)) + 1 /\ ItemNo(src, Len(src) + 1) = ItemNo(src, m)
    BY <1>3 DEF m
  <1>13. ItemNo(src, j + 1) = Cardinality(S(j + 1)) + 1 /\ ItemNo(src, j) = Cardinality(S(j)) + 1
    BY <1>3
  <1> QED
    BY <1>8, <1>9, <1>10, <1>11, <1>12, <1>13

(* No item stands in front of the first line.                                *)
LEMMA ItemNoFirst ==
  ASSUME NEW src
  PROVE  ItemNo(src, 1) = 1
  <1>1. {i \in 1 .. 1 - 1 : src[i].op \in Sized} = {}
    OBVIOUS
  <1> QED
    BY <1>1, FS_EmptySet DEF ItemNo

(* What print_error counts.                                                  *)
LEMMA ErrorCounted ==
  ASSUME NEW s \in PassState, NEW n \in Nat
  PROVE  LET u == [s EXCEPT !.errors = n]
         IN  /\ u \in PassState /\ Place(u) = Place(s) /\ u.span = s.span /\ u.errors = n
             /\ u.defined_count = s.defined_count /\ u.redefined_count = s.redefined_count
             /\ u.undefined_count = s.undefined_count
  <1> DEFINE u == [s EXCEPT !.errors = n]
  <1>1. u \in PassState
    BY DEF PassState
  <1>2. /\ u.errors = n /\ u.span = s.span
        /\ u.defined_count = s.defined_count /\ u.redefined_count = s.redefined_count
        /\ u.undefined_count = s.undefined_count
    BY DEF PassState
  <1>3. Place(u) = Place(s)
    BY DEF PassState, Place
  <1> QED
    BY <1>1, <1>2, <1>3

(* A line that repeats does so whatever becomes of the other sizes.          *)
LEMMA RepeatsOther ==
  ASSUME NEW l, NEW p, NEW q, NEW V, NEW z, NEW z2, NEW pc,
         l.op \in Ops, Repeats(l, p, q, V, z, pc),
         l.op \in Sized /\ p.item \in DOMAIN z => p.item \in DOMAIN z2 /\ z2[p.item] = z[p.item]
  PROVE  Repeats(l, p, q, V, z2, pc)
  <1>1. CASE l.op \in Sized
    <2>1. z2[p.item] = z[p.item] => Moves(l, p, V, z2) = Moves(l, p, V, z)
      BY <1>1 DEF Moves
    <2> QED
      BY <1>1, <2>1 DEF Repeats, Settled
  <1>2. CASE l.op \notin Sized
    <2>1. Moves(l, p, V, z2) = Moves(l, p, V, z)
      <3>1. CASE l.op \in Instr
        BY <3>1, RecordSet DEF Moves, Sized, None, Instr, Aligns
      <3>2. CASE l.op = "DEFW"
        BY <3>2, RecordSet DEF Moves, Sized, None, Instr, Aligns
      <3>3. CASE l.op = "MEM"
        BY <3>3, RecordSet DEF Moves, Sized, None, Instr, Aligns
      <3>4. CASE l.op = "DEFS"
        BY <3>4, RecordSet DEF Moves, Sized, None, Instr, Aligns
      <3>5. CASE l.op \in Aligns
        BY <3>5, RecordSet DEF Moves, Sized, None, Instr, Aligns
      <3>6. CASE l.op = "IF"
        BY <3>6, RecordSet DEF Moves, Sized, None, Instr, Aligns
      <3>7. CASE l.op = "ELSE"
        BY <3>7, RecordSet DEF Moves, Sized, None, Instr, Aligns
      <3>8. CASE l.op = "FI"
        BY <3>8, RecordSet DEF Moves, Sized, None, Instr, Aligns
      <3>9. CASE l.op = "ORG"
        BY <3>9, RecordSet DEF Moves, Sized, None, Instr, Aligns
      <3>10. CASE l.op \in Records
        BY <3>10, RecordSet DEF Moves, Sized, None, Instr, Aligns
      <3>12. CASE l.op = None
        BY <3>12, RecordSet DEF Moves, Sized, None, Instr, Aligns
      <3>13. CASE l.op = "EQU"
        BY <3>13, RecordSet DEF Moves, Sized, None, Instr, Aligns
      <3> QED
        BY <1>2, <3>1, <3>2, <3>3, <3>4, <3>5, <3>6, <3>7, <3>8, <3>9, <3>10, <3>12, <3>13 DEF Ops, Unplaced
    <2> QED
      BY <1>2, <2>1 DEF Repeats
  <1> QED
    BY <1>1, <1>2

(* A later pass asks for less.                                               *)
LEMMA RepeatsLater ==
  ASSUME NEW l, NEW p, NEW q, NEW V, NEW z, NEW pc \in Nat, Repeats(l, p, q, V, z, pc)
  PROVE  Repeats(l, p, q, V, z, pc + 1)
  <1>1. ShrinkStop \in Nat
    BY PassAssumption
  <1>2. pc + 1 < ShrinkStop => pc < ShrinkStop
    BY <1>1
  <1> QED
    BY <1>2 DEF Repeats, Settled

(* The start of a pass.                                                      *)
LEMMA StartTyped == PassStart \in PassState /\ Place(PassStart) \in Places
  <1>1. 0 \in Word /\ <<>> \in Seq(Word)
    BY PassAssumption DEF Word
  <1>2. PassStart \in PassState
    BY <1>1 DEF PassStart, PassState
  <1>3. Place(PassStart) \in Places
    BY <1>1 DEF PassStart, Place, Places
  <1> QED
    BY <1>2, <1>3

(* A place is a place.                                                       *)
LEMMA PlaceTyped ==
  ASSUME NEW s \in PassState
  PROVE  Place(s) \in Places
  BY DEF PassState, Place, Places

-----------------------------------------------------------------------------
(* Any line finds what it needs.                                             *)
LEMMA LineReady ==
  ASSUME AInv, ReadLine
  PROVE  line \in 1 .. Len(source) /\ source[line] \in SourceLine /\ Ready(source[line])
  <1>1. source \in Seq(SourceLine) /\ line \in 1 .. Len(source)
    BY DEF AInv, Typed, ReadLine
  <1>2. source[line] \in SourceLine
    BY <1>1
  <1>3. Context(source[line], st, labels)
    BY <1>2 DEF AInv, Typed, Phases, FirstPass, Context
  <1>4. source[line].op \in Sized => InList(st.item)
    <2>1. /\ ItemNo(source, line) \in Nat
          /\ source[line].op \in Sized => ItemNo(source, line) + 1 <= ItemNo(source, Len(source) + 1)
      BY <1>1, ItemNoNext
    <2>2. st.item \in Nat /\ st.item >= 1 /\ st.item <= ItemNo(source, line) /\ Len(sizes) \in Nat
      BY DEF AInv, Typed, Items, PassState
    <2>3. CASE FirstPass
      BY <2>3 DEF AInv, Items, InList
    <2>4. CASE ~FirstPass
      <3>1. Len(sizes) + 1 = ItemNo(source, Len(source) + 1)
        BY <2>4 DEF AInv, Items
      <3> QED
        BY <2>1, <2>2, <2>4, <3>1 DEF InList
    <2> QED
      BY <2>3, <2>4
  <1> QED
    BY <1>1, <1>2, <1>3, <1>4 DEF Ready

(* The state of the pass behind a line.                                      *)
LEMMA LineCounted ==
  ASSUME NEW l, NEW r, Frames(r, l), Apply(r)
  PROVE  /\ st' \in PassState /\ Place(st') = Place(r.st) /\ st'.span = r.st.span
         /\ st'.assembly_pointer = r.st.assembly_pointer /\ st'.defined = r.st.defined
         /\ st'.item = r.st.item
         /\ st'.defined_count = r.st.defined_count /\ st'.redefined_count = r.st.redefined_count
         /\ st'.undefined_count = r.st.undefined_count
         /\ st'.errors = 0 <=> (st.errors = 0 /\ r.error = Okay)
  <1>1. r.st \in PassState /\ r.st.errors = st.errors
    BY DEF Frames
  <1> DEFINE n == IF r.error = Okay THEN r.st.errors ELSE r.st.errors + 1
  <1>2. st' = [r.st EXCEPT !.errors = n]
    <2>1. st' = [r.st EXCEPT !.errors = IF r.error = Okay THEN @ ELSE @ + 1]
      BY DEF Apply
    <2>2. "errors" \in DOMAIN r.st
      BY <1>1 DEF PassState
    <2> QED
      BY <2>1, <2>2
  <1>3. r.st.errors \in Nat /\ n \in Nat /\ (n = 0 <=> (st.errors = 0 /\ r.error = Okay))
    <2>1. r.st.errors \in Nat
      BY <1>1, PassNumbers
    <2> QED
      BY <1>1, <2>1
  <1> HIDE DEF n
  <1>4. /\ st' \in PassState /\ Place(st') = Place(r.st) /\ st'.span = r.st.span /\ st'.errors = n
        /\ st'.defined_count = r.st.defined_count /\ st'.redefined_count = r.st.redefined_count
        /\ st'.undefined_count = r.st.undefined_count
    BY <1>1, <1>2, <1>3, ErrorCounted
  <1>5. /\ st'.assembly_pointer = r.st.assembly_pointer /\ st'.defined = r.st.defined
        /\ st'.item = r.st.item
    BY <1>4, PlaceFields
  <1> QED
    BY <1>3, <1>4, <1>5

(* A line keeps the types.                                                   *)
LEMMA LineTyped ==
  ASSUME AInv, ReadLine, NEW r, Frames(r, source[line]), Apply(r)
  PROVE  Typed' /\ Phases'
  <1>1. st' \in PassState
    BY LineCounted
  <1>2. out' \in Seq(Code) /\ (~last_pass => out' = out)
    <2>1. out \in Seq(Code) /\ out' = r.out
      BY DEF AInv, Typed, Apply
    <2>2. CASE r.out = out
      BY <2>1, <2>2
    <2>3. CASE r.out # out
      <3>1. PICK o \in Code : last_pass /\ r.out = Append(out, o)
        BY <2>3 DEF Frames, Emits
      <3> QED
        BY <2>1, <3>1
    <2> QED
      BY <2>2, <2>3
  <1>3. line' \in 1 .. Len(source) + 1
    <2>1. line \in 1 .. Len(source) /\ Len(source) \in Nat /\ line' = line + 1
      BY LineReady DEF AInv, Typed, Apply
    <2> QED
      BY <2>1
  <1>4. IsTable(labels') /\ sizes' \in Seq({4, 8})
    BY DEF Frames, Apply, IsTable
  <1>5. /\ source' = source /\ pass_count' = pass_count /\ last_pass' = last_pass
        /\ dump_code' = dump_code /\ finished' = finished
    BY DEF Apply
  <1>6. Typed'
    BY <1>1, <1>2, <1>3, <1>4, <1>5 DEF AInv, Typed, IsTable
  <1>7. Phases'
    BY <1>2, <1>5 DEF AInv, Phases
  <1> QED
    BY <1>6, <1>7

(* A line keeps the item numbers.                                            *)
LEMMA LineItems ==
  ASSUME AInv, ReadLine, NEW r, Frames(r, source[line]), Apply(r)
  PROVE  Items'
  <1> DEFINE l == source[line]
  <1>1. line \in 1 .. Len(source) /\ source \in Seq(SourceLine)
    BY LineReady DEF AInv, Typed
  <1>2. /\ ItemNo(source, line) \in Nat
        /\ ItemNo(source, line + 1) = IF l.op \in Sized THEN ItemNo(source, line) + 1 ELSE ItemNo(source, line)
    BY <1>1, ItemNoNext
  <1>3. /\ st'.item = r.st.item /\ (st'.errors = 0 <=> (st.errors = 0 /\ r.error = Okay))
    BY LineCounted
  <1>4. /\ st.item \in Nat /\ st.item >= 1 /\ st.item <= ItemNo(source, line)
        /\ st.errors = 0 => st.item = ItemNo(source, line)
        /\ FirstPass => st.item = Len(sizes) + 1
        /\ ~FirstPass => Len(sizes) + 1 = ItemNo(source, Len(source) + 1)
    BY DEF AInv, Typed, Items, PassState
  <1>5. \/ r.sizes = sizes /\ r.st.item = st.item /\ (l.op \in Sized => r.error # Okay)
        \/ /\ l.op \in Sized /\ r.st.item = st.item + 1
           /\ Len(r.sizes) = IF FirstPass THEN Len(sizes) + 1 ELSE Len(sizes)
    BY DEF Frames
  <1>6. source' = source /\ line' = line + 1 /\ sizes' = r.sizes /\ (FirstPass' <=> FirstPass)
    BY DEF Apply, FirstPass
  <1>7. Len(sizes) \in Nat
    BY DEF AInv, Typed
  <1> HIDE DEF l
  <1>8. st'.item >= 1 /\ st'.item <= ItemNo(source, line + 1)
    BY <1>2, <1>3, <1>4, <1>5
  <1>9. st'.errors = 0 => st'.item = ItemNo(source, line + 1)
    BY <1>2, <1>3, <1>4, <1>5
  <1>10. FirstPass => st'.item = Len(r.sizes) + 1
    BY <1>3, <1>4, <1>5, <1>7
  <1>11. ~FirstPass => Len(r.sizes) + 1 = ItemNo(source, Len(source) + 1)
    BY <1>4, <1>5
  <1> QED
    BY <1>6, <1>8, <1>9, <1>10, <1>11 DEF Items

(* A line keeps the code in order.                                           *)
LEMMA LineExtent ==
  ASSUME AInv, ReadLine, NEW r, Frames(r, source[line]), Apply(r)
  PROVE  Extent'
  <1>1. line \in 1 .. Len(source) /\ source \in Seq(SourceLine) /\ source' = source /\ out' = r.out
    BY LineReady DEF AInv, Typed, Apply
  <1>2. st'.span = r.st.span /\ st'.assembly_pointer = r.st.assembly_pointer
    BY LineCounted
  <1> SUFFICES ASSUME \A i \in DOMAIN source : source[i].op # "ORG"
               PROVE  /\ r.st.assembly_pointer = r.st.span % Mod
                      /\ r.st.span <= Mod => InOrder(r.out, r.st.span)
    BY <1>1, <1>2 DEF Extent, InOrder
  <1>3. Ahead(r.st, st)
    BY <1>1 DEF Frames
  <1>4. /\ st.assembly_pointer = st.span % Mod
        /\ st.span <= Mod => InOrder(out, st.span)
    BY DEF AInv, Extent
  <1>5. st.span \in Nat /\ r.st.span \in Nat /\ st.span <= r.st.span /\ Mod \in Nat /\ Mod > 4
    BY PassAssumption DEF AInv, Typed, Frames, PassState
  <1>6. r.st.assembly_pointer = r.st.span % Mod
    BY <1>3, <1>4 DEF Ahead
  <1>7. ASSUME r.st.span <= Mod
        PROVE  InOrder(r.out, r.st.span)
    <2>1. InOrder(out, st.span)
      BY <1>4, <1>5, <1>7
    <2>2. \A i \in DOMAIN out : out[i] \in Code
      BY DEF AInv, Typed
    <2>3. \A i \in DOMAIN out : out[i].addr + out[i].size \in Nat
      <3> TAKE i \in DOMAIN out
      <3>1. out[i].addr \in Word /\ out[i].size \in Nat \ {0}
        BY <2>2 DEF Code
      <3>2. out[i].addr \in Nat
        BY <3>1, WordNat
      <3> QED
        BY <3>1, <3>2
    <2>4. \A i \in DOMAIN out : out[i].addr + out[i].size <= r.st.span
      BY <1>5, <2>1, <2>3 DEF InOrder
    <2>5. CASE r.out = out
      BY <2>1, <2>4, <2>5 DEF InOrder
    <2>6. CASE r.out # out
      <3>1. PICK o \in Code : /\ r.out = Append(out, o) /\ o.addr = st.assembly_pointer
                              /\ st.span + o.size <= r.st.span
        BY <2>6 DEF Frames, Emits
      <3>2. o.size \in Nat \ {0}
        BY DEF Code
      <3>3. st.span < Mod
        BY <1>5, <1>7, <3>1, <3>2
      <3>4. st.span % Mod = st.span
        BY <1>5, <3>3
      <3>5. o.addr = st.span /\ o.addr + o.size <= r.st.span
        BY <1>4, <3>1, <3>4
      <3>6. /\ DOMAIN r.out = DOMAIN out \cup {Len(out) + 1} /\ r.out[Len(out) + 1] = o
            /\ DOMAIN out = 1 .. Len(out) /\ Len(out) \in Nat
            /\ \A i \in DOMAIN out : r.out[i] = out[i]
        BY <3>1 DEF AInv, Typed
      <3>7. \A i \in DOMAIN r.out : r.out[i].addr + r.out[i].size <= r.st.span
        BY <2>4, <3>5, <3>6
      <3>8. \A i \in DOMAIN r.out, j \in DOMAIN r.out : i < j => r.out[i].addr + r.out[i].size <= r.out[j].addr
        <4> TAKE i \in DOMAIN r.out, j \in DOMAIN r.out
        <4> HAVE i < j
        <4>1. CASE j \in DOMAIN out
          <5>1. i \in DOMAIN out
            BY <3>6, <4>1
          <5> QED
            BY <2>1, <3>6, <4>1, <5>1 DEF InOrder
        <4>2. CASE j = Len(out) + 1
          <5>1. i \in DOMAIN out
            BY <3>6, <4>2
          <5> QED
            BY <2>1, <3>5, <3>6, <4>2, <5>1 DEF InOrder
        <4> QED
          BY <3>6, <4>1, <4>2
      <3> QED
        BY <3>7, <3>8 DEF InOrder
    <2> QED
      BY <2>5, <2>6
  <1> QED
    BY <1>6, <1>7

(* A record grows by a line.                                                 *)
LEMMA TraceGrows ==
  ASSUME NEW tr, NEW n, NEW src, NEW s, NEW s2, NEW V, NEW z, NEW z2, NEW pc,
         src \in Seq(SourceLine), n \in 1 .. Len(src), s2 \in PassState, s.item \in Nat,
         Passed(tr, n, src, s, V, z, pc),
         Repeats(src[n], Place(s), Place(s2), V, z2, pc),
         \A j \in DOMAIN z : j # s.item => j \in DOMAIN z2 /\ z2[j] = z[j],
         s.item <= s2.item, src[n].op \in Sized => s.item < s2.item
  PROVE  \E tr2 : Passed(tr2, n + 1, src, s2, V, z2, pc)
  <1> DEFINE q == Place(s2)
             tr2 == [j \in 1 .. n + 1 |-> IF j <= n THEN tr[j] ELSE q]
  <1>1. /\ tr \in [1 .. n -> Places] /\ tr[1] = Place(PassStart) /\ tr[n] = Place(s)
        /\ \A j \in 1 .. n - 1 : Repeats(src[j], tr[j], tr[j + 1], V, z, pc)
        /\ \A j \in 1 .. n - 1 : src[j].op \in Sized => tr[j].item < s.item
    BY DEF Passed, Trace
  <1>2. n \in Nat /\ n >= 1 /\ q \in Places /\ s2.item \in Nat
    BY PlaceTyped DEF PassState
  <1>3. /\ \A j \in 1 .. n : tr2[j] = tr[j]
        /\ tr2[n + 1] = q
    BY <1>2
  <1>4. tr2 \in [1 .. n + 1 -> Places]
    <2> SUFFICES ASSUME NEW j \in 1 .. n + 1 PROVE (IF j <= n THEN tr[j] ELSE q) \in Places
      OBVIOUS
    <2>1. CASE j <= n
      <3>1. j \in 1 .. n
        BY <1>2, <2>1
      <3> QED
        BY <1>1, <2>1, <3>1
    <2>2. CASE ~(j <= n)
      BY <1>2, <2>2
    <2> QED
      BY <2>1, <2>2
  <1> HIDE DEF q, tr2
  <1>5. tr2[1] = Place(PassStart)
    BY <1>1, <1>2, <1>3
  <1>6. \A i \in 1 .. Len(src) : src[i].op \in Ops
    <2> TAKE i \in 1 .. Len(src)
    <2>1. src[i] \in SourceLine
      OBVIOUS
    <2> QED
      BY <2>1 DEF SourceLine
  <1>7. \A i \in 1 .. n : tr[i].item \in Nat
    <2> TAKE i \in 1 .. n
    <2>1. tr[i] \in Places
      BY <1>1
    <2> QED
      BY <2>1 DEF Places
  <1>8. ASSUME NEW j \in 1 .. (n + 1) - 1
        PROVE  Repeats(src[j], tr2[j], tr2[j + 1], V, z2, pc)
    <2>1. CASE j = n
      BY <1>1, <1>2, <1>3, <2>1 DEF q
    <2>2. CASE j # n
      <3>1. j \in 1 .. n - 1 /\ j + 1 \in 1 .. n /\ j \in 1 .. n /\ j \in 1 .. Len(src)
        BY <1>2, <2>2
      <3>2. Repeats(src[j], tr[j], tr[j + 1], V, z, pc)
        BY <1>1, <3>1
      <3>3. src[j].op \in Sized => tr[j].item # s.item
        BY <1>1, <1>7, <3>1
      <3>4. src[j].op \in Sized /\ tr[j].item \in DOMAIN z => tr[j].item \in DOMAIN z2 /\ z2[tr[j].item] = z[tr[j].item]
        BY <3>3
      <3>5. src[j].op \in Ops
        BY <1>6, <3>1
      <3>6. Repeats(src[j], tr[j], tr[j + 1], V, z2, pc)
        BY <3>2, <3>4, <3>5, RepeatsOther
      <3> QED
        BY <1>3, <3>1, <3>6
    <2> QED
      BY <2>1, <2>2
  <1>9. ASSUME NEW j \in 1 .. (n + 1) - 1, src[j].op \in Sized
        PROVE  tr2[j].item < s2.item
    <2>1. CASE j = n
      <3>1. tr2[j].item = s.item
        BY <1>1, <1>2, <1>3, <2>1 DEF Place
      <3> QED
        BY <1>9, <2>1, <3>1
    <2>2. CASE j # n
      <3>1. j \in 1 .. n - 1 /\ j \in 1 .. n
        BY <1>2, <2>2
      <3>2. tr2[j].item < s.item /\ tr2[j].item \in Nat
        BY <1>1, <1>3, <1>7, <1>9, <3>1
      <3> QED
        BY <1>2, <3>2
    <2> QED
      BY <2>1, <2>2
  <1>10. Trace(tr2, n + 1, src, V, z2, pc)
    BY <1>4, <1>5, <1>8 DEF Trace
  <1>11. Passed(tr2, n + 1, src, s2, V, z2, pc)
    BY <1>3, <1>9, <1>10 DEF Passed, q
  <1> QED
    BY <1>11

(* A line of a clean pass extends the record.                                *)
LEMMA LineClean ==
  ASSUME AInv, ReadLine, NEW r, Frames(r, source[line]), CleanStep(r, source[line]), Apply(r)
  PROVE  CleanSoFar'
  <1> DEFINE l == source[line]
  <1>1. /\ source' = source /\ line' = line + 1 /\ sizes' = r.sizes /\ labels' = r.labels
        /\ pass_count' = pass_count /\ last_pass' = last_pass /\ finished' = finished
    BY DEF Apply
  <1>2. /\ line \in 1 .. Len(source) /\ source \in Seq(SourceLine) /\ st \in PassState /\ st.item \in Nat
    BY LineReady DEF AInv, Typed, PassState
  <1>3. /\ st' \in PassState /\ Place(st') = Place(r.st) /\ st'.defined = r.st.defined
        /\ st'.item = r.st.item
        /\ st'.defined_count = r.st.defined_count /\ st'.redefined_count = r.st.redefined_count
        /\ st'.undefined_count = r.st.undefined_count
        /\ st'.errors = 0 <=> (st.errors = 0 /\ r.error = Okay)
    BY LineCounted
  <1> SUFFICES ASSUME ~last_pass, ~finished, Quiet(st')
               PROVE  /\ FirstPass => NoLabels(r.labels)
                      /\ ~FirstPass => st'.defined
                      /\ \E tr : Passed(tr, line + 1, source, st', View(r.labels), r.sizes, pass_count)
    BY <1>1 DEF CleanSoFar, Quiet, FirstPass, NoLabels, View
  <1>4. r.error = Okay /\ st.errors = 0 /\ r.st.errors = 0 /\ Quiet(r.st)
    BY <1>3 DEF Quiet, Frames
  <1>5. Quiet(st)
    BY <1>2, <1>4 DEF Quiet, Frames, PassState
  <1>6. /\ FirstPass => NoLabels(labels)
        /\ ~FirstPass => st.defined
        /\ \E tr : Passed(tr, line, source, st, View(labels), sizes, pass_count)
    BY <1>5 DEF AInv, CleanSoFar
  <1>7. Repeatable(r, l)
    BY <1>4, <1>5, <1>6 DEF CleanStep
  <1>8. /\ View(r.labels) = View(labels) /\ (~FirstPass => r.st.defined)
        /\ Repeats(l, Place(st), Place(r.st), View(labels), r.sizes, pass_count)
        /\ \A j \in DOMAIN sizes : j # st.item => j \in DOMAIN r.sizes /\ r.sizes[j] = sizes[j]
    BY <1>7 DEF Repeatable
  <1>9. st.item <= st'.item /\ (l.op \in Sized => st.item < st'.item)
    BY <1>2, <1>3, <1>4 DEF Frames
  <1>10. PICK tr : Passed(tr, line, source, st, View(labels), sizes, pass_count)
    BY <1>6
  <1>11. Repeats(l, Place(st), Place(st'), View(labels), r.sizes, pass_count)
    BY <1>3, <1>8
  <1>12. \E tr2 : Passed(tr2, line + 1, source, st', View(labels), r.sizes, pass_count)
    <2>1. source \in Seq(SourceLine) /\ line \in 1 .. Len(source) /\ st' \in PassState /\ st.item \in Nat
      BY <1>2, <1>3
    <2>2. \A j \in DOMAIN sizes : j # st.item => j \in DOMAIN r.sizes /\ r.sizes[j] = sizes[j]
      BY <1>8
    <2> QED
      BY <1>9, <1>10, <1>11, <2>1, <2>2, TraceGrows
  <1> QED
    BY <1>3, <1>6, <1>8, <1>12 DEF NoLabels

(* A line of the last pass goes where the record says, and leaves the labels *)
(* and the sizes as they are.                                                *)
LEMMA LineFollows ==
  ASSUME AInv, ReadLine, NEW r, Frames(r, source[line]), LastStep(r, source[line]), Apply(r)
  PROVE  /\ Follows' /\ Emitted'
         /\ last_pass /\ st'.errors = 0 =>
              sizes' = sizes /\ \A n \in DOMAIN labels : labels'[n].value = labels[n].value
  <1> DEFINE l == source[line]
             V == View(labels)
  <1>1. /\ source' = source /\ line' = line + 1 /\ sizes' = r.sizes /\ labels' = r.labels /\ out' = r.out
        /\ pass_count' = pass_count /\ last_pass' = last_pass /\ finished' = finished
    BY DEF Apply
  <1>2. /\ line \in 1 .. Len(source) /\ Len(source) \in Nat /\ out \in Seq(Code)
    BY LineReady DEF AInv, Typed
  <1>3. /\ Place(st') = Place(r.st) /\ st'.defined = r.st.defined
        /\ st'.errors = 0 <=> (st.errors = 0 /\ r.error = Okay)
    BY LineCounted
  <1>4. CASE ~(last_pass /\ st'.errors = 0)
    BY <1>1, <1>4 DEF Follows, Emitted
  <1>5. CASE last_pass /\ st'.errors = 0
    <2>1. st.errors = 0 /\ r.error = Okay /\ ~finished
      BY <1>3, <1>5 DEF ReadLine
    <2>2. PICK tr : Trace(tr, Len(source) + 1, source, V, sizes, pass_count) /\ tr[line] = Place(st)
      BY <1>5, <2>1 DEF AInv, Follows
    <2>3. st.defined
      BY <1>5, <2>1 DEF AInv, Follows
    <2>4. line \in 1 .. (Len(source) + 1) - 1
      BY <1>2
    <2>5. Repeats(l, Place(st), tr[line + 1], V, sizes, pass_count)
      BY <2>2, <2>4 DEF Trace
    <2>6. /\ View(r.labels) = V /\ SameValues(r.labels, labels) /\ r.sizes = sizes
          /\ r.st.defined /\ Place(r.st) = tr[line + 1]
      BY <1>5, <2>1, <2>3, <2>5 DEF LastStep
    <2>7. View(labels') = V /\ View(labels)' = V
      BY <1>1, <2>6 DEF View
    <2>8. Follows'
      <3>1. Trace(tr, Len(source) + 1, source, V, sizes, pass_count) /\ tr[line + 1] = Place(st')
        BY <1>3, <2>2, <2>6
      <3>2. Follows' <=> ((last_pass' /\ ~finished' /\ st'.errors = 0) =>
                /\ st'.defined
                /\ \E x : /\ Trace(x, Len(source') + 1, source', View(labels'), sizes', pass_count')
                          /\ x[line'] = Place(st'))
        BY DEF Follows, Place
      <3> HIDE DEF V
      <3> QED
        BY <1>1, <1>3, <2>6, <2>7, <3>1, <3>2
    <2>9. Emitted'
      <3>1. \A i \in DOMAIN out : Right(out[i], V)
        BY <1>5, <2>1 DEF AInv, Emitted
      <3>2. \A i \in DOMAIN r.out : Right(r.out[i], V)
        <4>1. CASE r.out = out
          BY <3>1, <4>1
        <4>2. CASE r.out # out
          <5>1. PICK o \in Code : r.out = Append(out, o) /\ Right(o, View(r.labels))
            BY <2>1, <4>2 DEF Frames, Emits
          <5>2. /\ DOMAIN r.out = DOMAIN out \cup {Len(out) + 1} /\ r.out[Len(out) + 1] = o
                /\ \A i \in DOMAIN out : r.out[i] = out[i]
            BY <1>2, <5>1
          <5> QED
            BY <2>6, <3>1, <5>1, <5>2
        <4> QED
          BY <4>1, <4>2
      <3>3. Emitted' <=> ((last_pass' /\ st'.errors = 0) => \A i \in DOMAIN out' : Right(out'[i], View(labels')))
        BY DEF Emitted, Right, View
      <3> QED
        BY <1>1, <2>7, <3>2, <3>3
    <2>10. sizes' = sizes /\ \A n \in DOMAIN labels : labels'[n].value = labels[n].value
      BY <1>1, <2>6 DEF SameValues
    <2> QED
      BY <2>8, <2>9, <2>10
  <1> QED
    BY <1>4, <1>5

-----------------------------------------------------------------------------
(* What LastPassStable asks of a step.                                       *)
StableStep ==
  last_pass /\ st'.errors = 0 =>
    sizes' = sizes /\ \A n \in DOMAIN labels : labels'[n].value = labels[n].value

(* Every line keeps the invariant, and the last pass moves nothing.          *)
LEMMA LineStep ==
  ASSUME AInv, ParsePlaced \/ ParseEqu \/ ParseOrg \/ ParseAlign \/ ParseRecord
  PROVE  AInv' /\ StableStep
  <1> DEFINE l == source[line]
  <1>1. ReadLine
    BY DEF ParsePlaced, ParseEqu, ParseOrg, ParseAlign, ParseRecord
  <1>2. Ready(l)
    BY <1>1, LineReady
  <1>3. \E r : Frames(r, l) /\ CleanStep(r, l) /\ LastStep(r, l) /\ Apply(r)
    <2>1. CASE ParsePlaced
      <3>1. l.op \notin Unplaced /\ Apply(Placed(l))
        BY <2>1 DEF ParsePlaced
      <3> HIDE DEF l
      <3>2. Frames(Placed(l), l) /\ CleanStep(Placed(l), l) /\ LastStep(Placed(l), l)
        BY <1>2, <3>1, PlacedSteps
      <3> QED
        BY <3>1, <3>2
    <2>2. CASE ParseEqu
      <3>1. l.op = "EQU" /\ Apply(Equ(l, st, Known(l)))
        BY <2>2 DEF ParseEqu
      <3> HIDE DEF l
      <3> DEFINE r == Equ(l, st, Known(l))
      <3>2. Frames(r, l) /\ CleanStep(r, l) /\ LastStep(r, l)
        BY <1>2, <3>1, EquSteps
      <3> QED
        BY <3>1, <3>2
    <2>3. CASE ParseOrg
      <3>1. l.op = "ORG" /\ Apply(Org(l, st, Known(l)))
        BY <2>3 DEF ParseOrg
      <3> HIDE DEF l
      <3> DEFINE r == Org(l, st, Known(l))
      <3>2. Frames(r, l) /\ CleanStep(r, l) /\ LastStep(r, l)
        BY <1>2, <3>1, OrgSteps
      <3> QED
        BY <3>1, <3>2
    <2>4. CASE ParseAlign
      <3>1. l.op \in Aligns /\ Apply(Align(l, st, Known(l)))
        BY <2>4 DEF ParseAlign
      <3> HIDE DEF l
      <3> DEFINE r == Align(l, st, Known(l))
      <3>2. Frames(r, l) /\ CleanStep(r, l) /\ LastStep(r, l)
        BY <1>2, <3>1, AlignSteps
      <3> QED
        BY <3>1, <3>2
    <2>5. CASE ParseRecord
      <3>1. l.op \in Records /\ Apply(Record(l, st, Known(l)))
        BY <2>5 DEF ParseRecord
      <3> HIDE DEF l
      <3> DEFINE r == Record(l, st, Known(l))
      <3>2. Frames(r, l) /\ CleanStep(r, l) /\ LastStep(r, l)
        BY <1>2, <3>1, RecordSteps
      <3> QED
        BY <3>1, <3>2
    <2> QED
      BY <2>1, <2>2, <2>3, <2>4, <2>5
  <1>4. PICK r : Frames(r, l) /\ CleanStep(r, l) /\ LastStep(r, l) /\ Apply(r)
    BY <1>3
  <1>5. Typed' /\ Phases'
    BY <1>1, <1>4, LineTyped
  <1>6. Items'
    BY <1>1, <1>4, LineItems
  <1>7. Extent'
    BY <1>1, <1>4, LineExtent
  <1>8. CleanSoFar'
    BY <1>1, <1>4, LineClean
  <1>9. Follows' /\ Emitted' /\ StableStep
    BY <1>1, <1>4, LineFollows DEF StableStep
  <1> QED
    BY <1>5, <1>6, <1>7, <1>8, <1>9 DEF AInv

(* The end of a pass keeps the invariant: a clean pass is the record that    *)
(* the last pass follows.                                                    *)
LEMMA EndStep ==
  ASSUME AInv, EndOfPass
  PROVE  AInv' /\ StableStep
  <1> DEFINE stop == st.errors # 0 \/ last_pass \/ pass_count > MaxPasses
  <1>1. /\ ~finished /\ line > Len(source)
        /\ finished' = (stop \/ st.if_stack # <<>>)
        /\ last_pass' = (last_pass \/ (~stop /\ Clean))
        /\ dump_code' = (dump_code \/ (~stop /\ Clean))
        /\ pass_count' = IF stop THEN pass_count ELSE pass_count + 1
        /\ line' = IF finished' THEN line ELSE 1
        /\ st' = IF finished' THEN st ELSE PassStart
        /\ source' = source /\ labels' = labels /\ sizes' = sizes /\ out' = out
    BY DEF EndOfPass
  <1>2. /\ source \in Seq(SourceLine) /\ line \in 1 .. Len(source) + 1 /\ Len(source) \in Nat
        /\ IsTable(labels) /\ sizes \in Seq({4, 8}) /\ st \in PassState /\ out \in Seq(Code)
        /\ pass_count \in Nat /\ last_pass \in BOOLEAN /\ dump_code \in BOOLEAN /\ finished \in BOOLEAN
    BY DEF AInv, Typed
  <1>3. line = Len(source) + 1
    BY <1>1, <1>2
  <1>4. stop \in BOOLEAN /\ (~stop => st.errors = 0 /\ ~last_pass)
    BY <1>2
  <1>5. Clean \in BOOLEAN
    BY DEF Clean
  <1>6. (dump_code <=> last_pass) /\ (~last_pass => out = <<>>) /\ (last_pass => pass_count # 0)
    BY DEF AInv, Phases
  <1>7. last_pass => stop
    OBVIOUS
  <1> HIDE DEF stop
  <1>8. pass_count' \in Nat /\ last_pass' \in BOOLEAN /\ dump_code' \in BOOLEAN /\ finished' \in BOOLEAN
    BY <1>1, <1>2, <1>4, <1>5
  <1>9. Typed'
    <2>1. st' \in PassState
      BY <1>1, <1>2, StartTyped
    <2>2. line' \in 1 .. Len(source) + 1
      BY <1>1, <1>2
    <2> QED
      BY <1>1, <1>2, <1>8, <2>1, <2>2 DEF Typed, IsTable
  <1>10. Phases'
    <2>1. dump_code' <=> last_pass'
      BY <1>1, <1>6
    <2>2. ~last_pass' => out' = <<>>
      BY <1>1, <1>6
    <2>3. last_pass' => pass_count' # 0
      BY <1>1, <1>2, <1>6, <1>7
    <2> QED
      BY <2>1, <2>2, <2>3 DEF Phases
  <1>11. ~stop => Len(sizes) + 1 = ItemNo(source, Len(source) + 1)
    BY <1>3, <1>4 DEF AInv, Items
  <1>12. Items'
    <2>1. FirstPass' => FirstPass /\ stop
      BY <1>1, <1>2 DEF FirstPass
    <2>2. CASE finished'
      <3>1. st' = st /\ line' = line
        BY <1>1, <2>2
      <3>2. ~FirstPass' => Len(sizes) + 1 = ItemNo(source, Len(source) + 1)
        BY <1>1, <1>11 DEF AInv, Items, FirstPass
      <3> QED
        BY <1>1, <2>1, <3>1, <3>2 DEF AInv, Items
    <2>3. CASE ~finished'
      <3>1. st' = PassStart /\ line' = 1 /\ ~stop
        BY <1>1, <2>3
      <3>2. st'.item = 1 /\ st'.errors = 0
        BY <3>1 DEF PassStart
      <3>3. ItemNo(source', line') = 1
        BY <1>1, <3>1, ItemNoFirst
      <3> QED
        BY <1>1, <1>11, <2>1, <3>1, <3>2, <3>3 DEF Items
    <2> QED
      BY <2>2, <2>3
  <1>13. Extent'
    <2>2. CASE finished'
      <3>1. st' = st /\ source' = source /\ out' = out
        BY <1>1, <2>2
      <3> QED
        BY <3>1 DEF AInv, Extent, InOrder
    <2>3. CASE ~finished'
      <3>1. st' = PassStart /\ ~stop
        BY <1>1, <2>3
      <3>2. st'.assembly_pointer = 0 /\ st'.span = 0
        BY <3>1 DEF PassStart
      <3>3. 0 % Mod = 0
        BY PassAssumption
      <3>4. out' = <<>>
        BY <1>1, <1>4, <1>6, <3>1
      <3> QED
        BY <3>2, <3>3, <3>4 DEF Extent, InOrder
    <2> QED
      BY <2>2, <2>3
  <1>14. CleanSoFar'
    <2>1. CASE finished'
      BY <2>1 DEF CleanSoFar
    <2>2. CASE ~finished'
      <3>1. st' = PassStart /\ line' = 1 /\ pass_count' = pass_count + 1
        BY <1>1, <2>2
      <3> DEFINE tr == [j \in 1 .. 1 |-> Place(PassStart)]
      <3>2. tr \in [1 .. 1 -> Places] /\ tr[1] = Place(PassStart)
        BY StartTyped
      <3> HIDE DEF tr
      <3>3. \A V, z, pc : Passed(tr, 1, source, PassStart, V, z, pc)
        BY <3>2 DEF Passed, Trace
      <3>4. ~FirstPass' /\ st'.defined
        BY <1>2, <3>1 DEF FirstPass, PassStart
      <3>5. CleanSoFar' <=>
              ((~last_pass' /\ ~finished' /\ Quiet(st')) =>
                 /\ FirstPass' => NoLabels(labels')
                 /\ ~FirstPass' => st'.defined
                 /\ \E x : Passed(x, line', source', st', View(labels'), sizes', pass_count'))
        BY DEF CleanSoFar, Quiet, NoLabels, View
      <3> QED
        BY <1>1, <3>1, <3>3, <3>4, <3>5
    <2> QED
      BY <2>1, <2>2
  <1>15. Follows'
    <2>1. CASE finished' \/ ~last_pass'
      BY <2>1 DEF Follows
    <2>2. CASE ~finished' /\ last_pass'
      <3>1. st' = PassStart /\ line' = 1 /\ pass_count' = pass_count + 1 /\ ~stop /\ Clean
        BY <1>1, <1>7, <2>2
      <3>2. Quiet(st)
        BY <1>4, <3>1 DEF Quiet, Clean
      <3>3. PICK tr : Passed(tr, line, source, st, View(labels), sizes, pass_count)
        BY <1>1, <1>4, <3>1, <3>2 DEF AInv, CleanSoFar
      <3>4. /\ tr \in [1 .. Len(source) + 1 -> Places] /\ tr[1] = Place(PassStart)
            /\ \A j \in 1 .. (Len(source) + 1) - 1 :
                 Repeats(source[j], tr[j], tr[j + 1], View(labels), sizes, pass_count)
        BY <1>3, <3>3 DEF Passed, Trace
      <3>5. \A j \in 1 .. (Len(source) + 1) - 1 :
              Repeats(source[j], tr[j], tr[j + 1], View(labels), sizes, pass_count + 1)
        BY <1>2, <3>4, RepeatsLater
      <3>6. Trace(tr, Len(source) + 1, source, View(labels), sizes, pass_count + 1)
        BY <3>4, <3>5 DEF Trace
      <3>7. st'.defined
        BY <3>1 DEF PassStart
      <3>8. Follows' <=> ((last_pass' /\ ~finished' /\ st'.errors = 0) =>
                /\ st'.defined
                /\ \E x : /\ Trace(x, Len(source') + 1, source', View(labels'), sizes', pass_count')
                          /\ x[line'] = Place(st'))
        BY DEF Follows, Place
      <3> QED
        BY <1>1, <3>1, <3>4, <3>6, <3>7, <3>8
    <2> QED
      BY <2>1, <2>2
  <1>16. Emitted'
    <2>1. CASE out = <<>>
      <3>1. DOMAIN out' = {}
        BY <1>1, <2>1
      <3> QED
        BY <3>1 DEF Emitted
    <2>2. CASE out # <<>>
      <3>1. last_pass /\ st' = st /\ out' = out /\ labels' = labels
        BY <1>1, <1>6, <1>7, <2>2
      <3>2. Emitted' <=> ((last_pass' /\ st'.errors = 0) => \A i \in DOMAIN out' : Right(out'[i], View(labels')))
        BY DEF Emitted, Right, View
      <3> QED
        BY <3>1, <3>2 DEF AInv, Emitted
    <2> QED
      BY <2>1, <2>2
  <1>17. StableStep
    BY <1>1 DEF StableStep
  <1> QED
    BY <1>9, <1>10, <1>12, <1>13, <1>14, <1>15, <1>16, <1>17 DEF AInv

(* Stuttering.                                                               *)
LEMMA StutterStep ==
  ASSUME AInv, UNCHANGED avars
  PROVE  AInv'
  <1>1. /\ source' = source /\ line' = line /\ labels' = labels /\ sizes' = sizes /\ st' = st
        /\ pass_count' = pass_count /\ last_pass' = last_pass /\ dump_code' = dump_code
        /\ finished' = finished /\ out' = out
    BY DEF avars
  <1>2. Typed' /\ Phases'
    BY <1>1 DEF AInv, Typed, Phases, IsTable
  <1>3. Items'
    BY <1>1 DEF AInv, Items, FirstPass
  <1>4. Extent'
    BY <1>1 DEF AInv, Extent, InOrder
  <1>5. CleanSoFar'
    <2>1. CleanSoFar' <=>
              ((~last_pass' /\ ~finished' /\ Quiet(st')) =>
                 /\ FirstPass' => NoLabels(labels')
                 /\ ~FirstPass' => st'.defined
                 /\ \E x : Passed(x, line', source', st', View(labels'), sizes', pass_count'))
      BY DEF CleanSoFar, Quiet, NoLabels, View
    <2>2. FirstPass' <=> FirstPass
      BY <1>1 DEF FirstPass
    <2> QED
      BY <1>1, <2>1, <2>2 DEF AInv, CleanSoFar
  <1>6. Follows'
    <2>1. Follows' <=> ((last_pass' /\ ~finished' /\ st'.errors = 0) =>
                /\ st'.defined
                /\ \E x : /\ Trace(x, Len(source') + 1, source', View(labels'), sizes', pass_count')
                          /\ x[line'] = Place(st'))
      BY DEF Follows, Place
    <2> QED
      BY <1>1, <2>1 DEF AInv, Follows
  <1>7. Emitted'
    <2>1. Emitted' <=> ((last_pass' /\ st'.errors = 0) => \A i \in DOMAIN out' : Right(out'[i], View(labels')))
      BY DEF Emitted, Right, View
    <2> QED
      BY <1>1, <2>1 DEF AInv, Emitted
  <1> QED
    BY <1>2, <1>3, <1>4, <1>5, <1>6, <1>7 DEF AInv

(* The invariant holds when assembly starts.                                 *)
LEMMA AsmStarts == AsmInit => AInv
  <1> SUFFICES ASSUME AsmInit PROVE AInv
    OBVIOUS
  <1>1. /\ source \in Sources /\ line = 1 /\ sizes = <<>> /\ out = <<>> /\ st = PassStart
        /\ labels = [n \in {} |-> 0]
        /\ pass_count = 0 /\ last_pass = FALSE /\ dump_code = FALSE /\ finished = FALSE
    BY DEF AsmInit
  <1>2. source \in Seq(SourceLine) /\ Len(source) \in Nat
    BY <1>1, SourceAssumption
  <1>3. DOMAIN labels = {} /\ IsTable(labels)
    BY <1>1 DEF IsTable
  <1>4. Typed
    <2>1. <<>> \in Seq({4, 8}) /\ <<>> \in Seq(Code)
      OBVIOUS
    <2>2. line \in 1 .. Len(source) + 1
      BY <1>1, <1>2
    <2>3. pass_count \in Nat
      BY <1>1
    <2>4. st \in PassState
      BY <1>1, StartTyped
    <2> QED
      BY <1>1, <1>2, <1>3, <2>1, <2>2, <2>3, <2>4 DEF Typed
  <1>5. Phases /\ Follows /\ Emitted
    BY <1>1 DEF Phases, Follows, Emitted
  <1>6. Items
    <2>1. st.item = 1 /\ FirstPass /\ Len(sizes) = 0
      BY <1>1 DEF PassStart, FirstPass
    <2>2. ItemNo(source, line) = 1
      BY <1>1, ItemNoFirst
    <2> QED
      BY <2>1, <2>2 DEF Items
  <1>7. Extent
    <2>1. st.assembly_pointer = 0 /\ st.span = 0
      BY <1>1 DEF PassStart
    <2>2. 0 % Mod = 0
      BY PassAssumption
    <2> QED
      BY <1>1, <2>1, <2>2 DEF Extent, InOrder
  <1>8. CleanSoFar
    <2> DEFINE tr == [j \in 1 .. 1 |-> Place(PassStart)]
    <2>1. tr \in [1 .. 1 -> Places] /\ tr[1] = Place(PassStart)
      BY StartTyped
    <2> HIDE DEF tr
    <2>2. \A V, z, pc : Passed(tr, 1, source, PassStart, V, z, pc)
      BY <2>1 DEF Passed, Trace
    <2>3. NoLabels(labels)
      BY <1>3 DEF NoLabels, View
    <2>4. FirstPass
      BY <1>1 DEF FirstPass
    <2> QED
      BY <1>1, <2>2, <2>3, <2>4 DEF CleanSoFar
  <1> QED
    BY <1>4, <1>5, <1>6, <1>7, <1>8 DEF AInv

(* A step keeps the invariant and is stable in the last pass.                *)
LEMMA AsmStep ==
  ASSUME AInv, [AsmNext]_avars
  PROVE  AInv' /\ [StableStep]_avars
  <1>1. CASE ParsePlaced \/ ParseEqu \/ ParseOrg \/ ParseAlign \/ ParseRecord
    BY <1>1, LineStep
  <1>2. CASE EndOfPass
    BY <1>2, EndStep
  <1>3. CASE UNCHANGED avars
    BY <1>3, StutterStep
  <1> QED
    BY <1>1, <1>2, <1>3 DEF AsmNext

(* The invariant holds in every run of the assembler, for every source: its  *)
(* tables and counters are well-formed, size_record_list has an entry for    *)
(* every item, and a pass in which nothing was defined, moved or read while  *)
(* undefined is repeated by the pass after it.                               *)
THEOREM AsmInvariance == AsmSpec => []AInv
  <1>1. AInv /\ [AsmNext]_avars => AInv'
    BY AsmStep
  <1> QED
    BY <1>1, AsmStarts, PTL DEF AsmSpec

(* The last pass moves no label and changes no size, as long as it reports   *)
(* no error: the code emitted early in it can rely on what comes later.      *)
THEOREM LastPassAlwaysStable == AsmSpec => LastPassStable
  <1>1. AInv /\ [AsmNext]_avars => [StableStep]_avars
    BY AsmStep
  <1>2. AsmSpec => [][StableStep]_avars
    BY <1>1, AsmInvariance, PTL DEF AsmSpec
  <1>3. [StableStep]_avars => [last_pass /\ st'.errors = 0 =>
          sizes' = sizes /\ \A n \in DOMAIN labels : labels'[n].value = labels[n].value]_avars
    BY DEF StableStep
  <1> QED
    BY <1>2, <1>3, PTL DEF LastPassStable

(* The emitted code has the values that the operands have in the end.        *)
THEOREM EmittedAlwaysRight == AsmSpec => []EmittedRight
  <1>1. AInv => EmittedRight
    <2> SUFFICES ASSUME AInv, Assembled, NEW i \in DOMAIN out, "." \notin {out[i].e.plus, out[i].e.minus}
                 PROVE  out[i].ok <=> out[i].value = Evaluate(labels, st, out[i].e).value
      BY DEF EmittedRight
    <2> DEFINE o == out[i]
               V == View(labels)
    <2>1. /\ IsTable(labels) /\ st.assembly_pointer \in Word /\ st.defined \in BOOLEAN /\ o.e \in Expr
      <3>1. st \in PassState /\ IsTable(labels) /\ o \in Code
        BY DEF AInv, Typed
      <3> QED
        BY <3>1 DEF PassState, Code
    <2>2. Right(o, V)
      BY DEF AInv, Emitted, Assembled
    <2> HIDE DEF o
    <2>3. "." \notin {o.e.plus, o.e.minus}
      BY DEF o
    <2>4. Solved(V, PassStart, o.e) /\ (o.ok <=> o.value = Result(V, PassStart, o.e))
      BY <2>2, <2>3 DEF Right
    <2>5. Solved(V, st, o.e) /\ Result(V, st, o.e) = Result(V, PassStart, o.e)
      BY <2>3, <2>4, NoDot
    <2>6. Evaluate(labels, st, o.e).value = Result(V, st, o.e)
      BY <2>1, <2>5, EvaluateView
    <2> QED
      BY <2>4, <2>5, <2>6 DEF o
  <1> QED
    BY <1>1, AsmInvariance, PTL

(* Without ORG, and below 2^32 bytes, no two items of code overlap.          *)
THEOREM NeverOverlaps == AsmSpec => []NoOverlap
  <1>1. AInv => NoOverlap
    BY DEF AInv, Extent, InOrder, NoOverlap
  <1> QED
    BY <1>1, AsmInvariance, PTL
=============================================================================
