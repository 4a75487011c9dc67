----------------------------- MODULE IoService -----------------------------
(* What the block-read service promises its clients (the file-system state  *)
(* machines): every request that was submitted is completed once, in the    *)
(* order of submission, by one callback that finds the block it asked for   *)
(* in the SPI receive buffer.                                               *)
EXTENDS Naturals, Sequences

CONSTANTS Reqs,   \* request objects
          LBAs,   \* block addresses
          Ctxs,   \* client contexts
          Null    \* no callback was made yet

VARIABLES pending, \* outstanding requests, oldest first
          lba,     \* the block each request asks for
          ctx,     \* the context each request is for
          last     \* the latest callback: its context and the data it found

vars == <<pending, lba, ctx, last>>

Init ==
  /\ pending = <<>>
  /\ lba \in [Reqs -> LBAs]
  /\ ctx \in [Reqs -> Ctxs]
  /\ last = Null

Submit(r, l, c) ==
  /\ \A i \in 1..Len(pending) : pending[i] # r
  /\ pending' = Append(pending, r)
  /\ lba' = [lba EXCEPT ![r] = l]
  /\ ctx' = [ctx EXCEPT ![r] = c]
  /\ UNCHANGED last

Complete ==
  /\ pending # <<>>
  /\ pending' = Tail(pending)
  /\ last' = [ctx |-> ctx[Head(pending)], data |-> lba[Head(pending)]]
  /\ UNCHANGED <<lba, ctx>>

Next ==
  \/ \E r \in Reqs, l \in LBAs, c \in Ctxs : Submit(r, l, c)
  \/ Complete

Spec == Init /\ [][Next]_vars
=============================================================================
