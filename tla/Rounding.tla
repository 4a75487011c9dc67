------------------------------ MODULE Rounding ------------------------------
(* The bit trick of kernel/memory/umem.s.                                    *)
EXTENDS Arith, Bitwise

(* v |= v >> 1, v >> 2, v >> 4, ...: every bit below the highest one is set.*)
Smear(v) ==
  LET a == v | (v \div 2)
      b == a | (a \div 4)
      c == b | (b \div 16)
      d == c | (c \div 256)
  IN  d | (d \div 65536)

(* round_next_power_of_two: v--, smear, v++.                                *)
RoundNextPowerOfTwo(v) == (Smear((v - 1) % Mod) + 1) % Mod
=============================================================================
