------------------------------ MODULE MCUMem ------------------------------
(* 8 blocks of 4 bytes at address 32; a register has 8 bits.  What ualloc    *)
(* and ufree do to each other is checked here alone.                         *)
EXTENDS UMem, Rounding
=============================================================================
