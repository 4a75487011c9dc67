------------------------------ MODULE MCFsFile ------------------------------
(* Sectors of 4 bytes, 2 per cluster: files of one cluster and of three, one *)
(* of which fills its clusters, and one shorter on the card than its entry.  *)
EXTENDS FsFile

OpenFiles == {[chain |-> <<3>>, size |-> 6], [chain |-> <<5, 3, 4>>, size |-> 21],
              [chain |-> <<4, 3>>, size |-> 16], [chain |-> <<4>>, size |-> 12]}
SeekOffsets == {-17, -1, 0, 3, 8, 17}
=============================================================================
