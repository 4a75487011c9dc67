----------------------------- MODULE MCElfLoad ------------------------------
(* Sectors of 8 bytes, two per cluster; headers of 3 and 2 bytes.            *)
EXTENDS ElfLoad

Load(exec, offset, filesz, memsz) ==
  [type |-> "LOAD", offset |-> offset, filesz |-> filesz, memsz |-> memsz,
   exec |-> exec, vaddr |-> IF exec THEN 0 ELSE 40]
Note == [NoPhdr EXCEPT !.type = "NOTE"]

Image(ch, size, phoff, phnum, phdrs) ==
  [chain |-> ch, size |-> size, phoff |-> phoff, phnum |-> phnum, phdrs |-> phdrs, entry |-> 7]

(* Headers in front (a linker's layout), across a sector border, and behind  *)
(* the payload in another cluster (rva's layout).                            *)
Segments == {Note} \cup {Load(x, o, n[1], n[2]) : x \in BOOLEAN, o \in {3, 9, 17}, n \in {<<0, 3>>, <<2, 2>>, <<11, 13>>, <<7, 5>>}}

Images ==
  {Image(ch, 34, phoff, phnum, <<a, b>>) :
     ch \in {<<5, 3, 4>>, <<5, 3>>}, phoff \in {3, 5, 19, 28}, phnum \in {0, 2},
     a \in Segments, b \in {Note, Load(TRUE, 9, 11, 13), Load(FALSE, 17, 2, 2)}}
  \cup {Image(<<4>>, 5, 9, 3, <<>>),      \* e_phoff behind the end
        Image(<<4>>, 14, 8, 2, <<>>)}     \* no ELF file

(* A linker's program: the table in front, then a text and a data segment.   *)
Linked == {Image(<<5, 3, 4>>, 34, 3, 2, <<Load(TRUE, 9, 11, 13), Load(FALSE, 20, 4, 6)>>)}

Noise == {Note, Load(TRUE, 4, 3, 2), Load(FALSE, 0, 9, 9)}
=============================================================================
