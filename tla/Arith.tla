------------------------------- MODULE Arith -------------------------------
(* Registers as the arithmetic of kernel/memory/umem.s sees them.            *)
EXTENDS Integers

CONSTANTS Mod,         \* the values of a register (2^32)
          MinBlock     \* bytes per bit of the user-memory bitmap (64)

ASSUME ArithAssumption ==
  Mod \in Nat \ {0} /\ MinBlock \in Nat \ {0}

Register == 0 .. Mod - 1

(* A register read as a signed number, and the div instruction, which       *)
(* truncates towards zero.                                                  *)
Signed(v) == IF v < Mod \div 2 THEN v ELSE v - Mod

Div(v, d) == (IF Signed(v) >= 0 THEN Signed(v) \div d ELSE -((-Signed(v)) \div d)) % Mod
=============================================================================
