------------------------------ MODULE MCFsOpen ------------------------------
(* A root directory of two clusters (2, 4), a subdirectory of one (3) and    *)
(* three files (5, 6, 7); two sectors of one entry per cluster.  The sectors *)
(* of cluster 0 lie in front of the data area.  Names have at most 2 + 1     *)
(* characters.                                                               *)
EXTENDS FsOpen

File(n, c) == [kind |-> "file", name |-> n, cluster |-> c, size |-> 10 * c]
Dir(n, c)  == [kind |-> "dir", name |-> n, cluster |-> c, size |-> 0]
Gone(e)    == [e EXCEPT !.kind = "deleted"]
Long(e)    == [e EXCEPT !.kind = "lfn"]
EndMark    == [NoEntry EXCEPT !.kind = "end"]

F == << <<"A">>, <<"B">> >>          \* A.B
D == << <<"A", "A">>, <<>> >>        \* AA

InRoot == {EndMark, Gone(File(F, 5)), Long(File(D, 0)), File(F, 5), Dir(D, 3)}
InSub  == {<<EndMark, File(F, 6)>>, <<File(F, 6), EndMark>>, <<File(D, 7), File(F, 6)>>,
           <<File(F, 6), File(D, 7)>>}

(* What a file's sectors look like when they are read as entries.            *)
InFile(l) == IF l = 16 THEN File(F, 6) ELSE EndMark

Layouts ==
  {[fat |-> [c \in {0} \cup (2 .. 7) |-> IF c = 2 THEN 4 ELSE IF c = 4 THEN z ELSE 9],
    chain |-> [c \in {0} \cup (2 .. 7) |-> IF c = 2 THEN <<2, 4>> ELSE <<c>>],
    entries |-> [l \in (6 .. 7) \cup (10 .. 21) |->
                   <<CASE l = 10 -> a [] l = 11 -> b [] l = 14 -> x [] l = 15 -> y
                       [] l = 12 -> s[1] [] l = 13 -> s[2] [] OTHER -> InFile(l)>>]]
   : a, b \in InRoot, x \in InRoot \ {Long(File(D, 0))}, y \in {EndMark, File(F, 5)},
     s \in InSub, z \in {0, 9}}

PathsTried ==
  {[absolute |-> TRUE, parts |-> p] : p \in
     {<<>>, << <<"a", ".", "b">> >>, << <<"a", "A", "b">>, <<"A", ".", "b", "a">> >>,
      << <<"a", "a">>, <<>> >>, << <<"*", "a">> >>,
      << <<"a", ".", "b">>, <<"b">> >>}}
  \cup {[absolute |-> FALSE, parts |-> << <<"a", ".", "b">> >>]}

HomeOf(p) == 3
=============================================================================
