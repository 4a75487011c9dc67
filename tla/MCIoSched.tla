----------------------------- MODULE MCIoSched -----------------------------
EXTENDS IoSched, TLC
CONSTANTS r1, r2, r3, c1, c2
MCReqs == {r1, r2, r3}
MCCtxs == {c1}
Sym == Permutations(MCReqs)
=============================================================================
