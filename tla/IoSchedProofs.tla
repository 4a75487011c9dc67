--------------------------- MODULE IoSchedProofs ---------------------------
(* The safety properties of the block-read scheduler, and that it implements *)
(* IoService, for any set of requests, blocks and contexts, any width of the *)
(* ring counters and any of the ways in which a read may fail to start.      *)
EXTENDS IoSched, TLAPS

(* io_sched_pump's local is set only from the pop to the end of an iteration. *)
ReqOnlyInCallback == cpu # "callback" => req = Null

(* The inductive invariant: no part is inductive without the others.         *)
IInv ==
  /\ TypeOK
  /\ NoNullCallback
  /\ QueueIsFifo
  /\ NoDanglingRequest
  /\ OneTransfer
  /\ WorkConserving
  /\ ReqOnlyInCallback

(* Ring counters stay in range.                                              *)
LEMMA IncType ==
  ASSUME NEW n \in 0..CounterMod-1
  PROVE  Inc(n) \in 0..CounterMod-1
BY CounterAssumption DEF Inc

(* Removing the oldest request shifts the others down by one.                *)
LEMMA TailShifts ==
  ASSUME NEW S, NEW q \in Seq(S), q # <<>>
  PROVE  /\ Tail(q) \in Seq(S)
         /\ Len(q) \in Nat \ {0}
         /\ Len(Tail(q)) = Len(q) - 1
         /\ \A i \in 1..Len(q)-1 : Tail(q)[i] = q[i+1]
OBVIOUS

(* At boot the scheduler is idle with nothing queued.                        *)
LEMMA InitIInv == Init => IInv
<1> SUFFICES ASSUME Init PROVE IInv
  OBVIOUS
<1> USE NullAssumption, CounterAssumption DEF Init
<1>1. TypeOK
  <2>1. fifo \in Seq(Reqs)
    OBVIOUS
  <2>2. next \in [Reqs -> Pointers]
    BY DEF Pointers
  <2>3. irq \in BOOLEAN
    OBVIOUS
  <2> QED
    BY <2>1, <2>2, <2>3 DEF TypeOK, Pointers, Blocks
<1>2. NoNullCallback /\ WorkConserving /\ ReqOnlyInCallback
  BY DEF NoNullCallback, WorkConserving, ReqOnlyInCallback
<1>3. QueueIsFifo /\ NoDanglingRequest /\ OneTransfer
  BY DEF QueueIsFifo, NoDanglingRequest, OneTransfer, Issued
<1> QED
  BY <1>1, <1>2, <1>3 DEF IInv

(* Outside a transfer an idle scheduler has no interrupt and no completion.  *)
LEMMA IdleIsQuiet ==
  ASSUME IInv, state = "SCHED_IDLE"
  PROVE  xfer = Null /\ ~irq /\ head = tail /\ in_flight = Null
BY DEF IInv, TypeOK, OneTransfer, QueueIsFifo

(* Every step of a client, the card, an interrupt or the pump keeps it.      *)
LEMMA StepIInv == IInv /\ [Next]_vars => IInv'
<1> SUFFICES ASSUME IInv, [Next]_vars PROVE IInv'
  OBVIOUS
<1> USE NullAssumption DEF IInv
<1>1. ASSUME NEW r \in Reqs, NEW l \in LBAs, NEW c \in Ctxs, Submit(r, l, c)
      PROVE  IInv'
  <2>1. TypeOK'
    <3>1. next' \in [Reqs -> Pointers] /\ fifo' \in Seq(Reqs) /\ live' \in SUBSET Reqs
      BY <1>1 DEF Submit, LinkAtTail, TypeOK, Pointers
    <3>2. lba' \in [Reqs -> LBAs] /\ ctx' \in [Reqs -> Ctxs]
      BY <1>1 DEF Submit, TypeOK
    <3>3. CASE state = "SCHED_IDLE"
      <4> DEFINE h == IF queue_tail = Null THEN r ELSE queue_head
      <4>1. h \in Reqs
        BY <3>3 DEF QueueIsFifo, Issued, TypeOK, Pointers
      <4>2. /\ queue_head' = next'[h] /\ queue_tail' \in {Null, r} /\ in_flight' = h
            /\ state' = "SCHED_BUSY" /\ SdStartRead(lba'[h])
        BY <1>1, <3>3 DEF Submit, IssueNext
      <4>3. SD_STATE' \in {"idle", "wait_read"} /\ xfer' \in Blocks /\ irq' = irq /\ rx' = rx
        BY <4>1, <4>2, <3>2 DEF SdStartRead, TypeOK, Blocks, sdVars
      <4> QED
        BY <1>1, <3>1, <3>2, <4>1, <4>2, <4>3 DEF TypeOK, Pointers, Submit
    <3>4. CASE state = "SCHED_BUSY"
      BY <1>1, <3>1, <3>2, <3>4 DEF Submit, TypeOK, Pointers, sdVars
    <3> QED BY <3>3, <3>4 DEF TypeOK
  <2>2. (NoNullCallback /\ ReqOnlyInCallback)'
    BY <1>1 DEF Submit, NoNullCallback, ReqOnlyInCallback
  <2>3. QueueIsFifo'
    <3> DEFINE n == Len(fifo)
    <3>1. n \in Nat /\ Issued \in {0, 1} /\ Issued <= n
      BY DEF Issued, QueueIsFifo, TypeOK
    <3>2. /\ Len(fifo') = n + 1 /\ fifo' # <<>>
          /\ fifo'[n + 1] = r /\ \A i \in 1..n : fifo'[i] = fifo[i]
      BY <1>1 DEF Submit, TypeOK
    <3>3. \A i \in 1..n : fifo[i] \in Reqs /\ fifo[i] # r
      BY <1>1 DEF Submit, NoDanglingRequest, TypeOK
    <3>4. CASE n = Issued
      <4>1. next' = [next EXCEPT ![r] = Null]
        BY <1>1, <3>4 DEF Submit, LinkAtTail, QueueIsFifo
      <4>2. CASE state = "SCHED_IDLE"
        BY <1>1, <3>1, <3>2, <3>4, <4>1, <4>2 DEF Submit, IssueNext, QueueIsFifo, Issued, TypeOK
      <4>3. CASE state = "SCHED_BUSY"
        BY <1>1, <3>1, <3>2, <3>4, <4>1, <4>3 DEF Submit, QueueIsFifo, Issued, TypeOK
      <4> QED BY <4>2, <4>3 DEF TypeOK
    <3>5. CASE n > Issued
      <4>1. queue_head = fifo[Issued + 1] /\ queue_tail = fifo[n] /\ queue_tail # Null /\ queue_head # Null
        BY <3>1, <3>3, <3>5 DEF QueueIsFifo
      <4>2. next' = [next EXCEPT ![r] = Null, ![fifo[n]] = r]
        BY <1>1, <4>1 DEF Submit, LinkAtTail
      <4>3. \A i \in Issued+1..n-1 : next'[fifo[i]] = fifo[i+1]
        BY <3>1, <3>3, <4>2 DEF QueueIsFifo, NoDanglingRequest, TypeOK
      <4>4. next'[fifo[n]] = r /\ next'[r] = Null
        BY <3>1, <3>3, <3>5, <4>2 DEF TypeOK
      <4>5. CASE state = "SCHED_IDLE"
        <5>1. /\ in_flight' = fifo[1] /\ queue_head' = next'[fifo[1]] /\ state' = "SCHED_BUSY"
              /\ queue_tail' = IF next'[fifo[1]] = Null THEN Null ELSE r
          BY <1>1, <4>1, <4>5 DEF Submit, IssueNext, Issued
        <5>2. Issued = 0 /\ Issued' = 1
          BY <4>5, <5>1 DEF Issued
        <5>3. CASE n = 1
          BY <3>2, <4>4, <5>1, <5>2, <5>3, NullAssumption DEF QueueIsFifo
        <5>4. CASE n > 1
          <6>1. next'[fifo[1]] = fifo[2] /\ fifo[2] # Null
            BY <3>1, <3>3, <4>3, <5>2, <5>4
          <6>2. \A i \in 2..n : next'[fifo'[i]] = fifo'[i+1]
            BY <3>1, <3>2, <4>3, <4>4, <5>2, <5>4
          <6> QED
            BY <3>1, <3>2, <4>4, <5>1, <5>2, <5>4, <6>1, <6>2 DEF QueueIsFifo
        <5> QED
          BY <3>1, <3>5, <5>2, <5>3, <5>4
      <4>6. CASE state = "SCHED_BUSY"
        <5>1. queue_head' = fifo[2] /\ queue_tail' = r /\ UNCHANGED <<in_flight, state>>
          BY <1>1, <4>1, <4>6 DEF Submit, Issued
        <5>2. Issued = 1 /\ Issued' = 1 /\ in_flight = fifo[1]
          BY <4>6, <5>1 DEF Issued, QueueIsFifo
        <5>3. \A i \in 2..n : next'[fifo'[i]] = fifo'[i+1]
          BY <3>1, <3>2, <4>3, <4>4, <5>2
        <5> QED
          BY <3>1, <3>2, <3>5, <4>4, <4>6, <5>1, <5>2, <5>3 DEF QueueIsFifo
      <4> QED BY <4>5, <4>6 DEF TypeOK
    <3> QED BY <3>1, <3>4, <3>5
  <2>4. NoDanglingRequest'
    BY <1>1 DEF Submit, NoDanglingRequest, TypeOK, ReqOnlyInCallback
  <2>5. OneTransfer'
    <3>1. CASE state = "SCHED_IDLE"
      BY <1>1, <3>1, IdleIsQuiet DEF Submit, OneTransfer, IssueNext, SdStartRead, sdVars, TypeOK
    <3>2. CASE state = "SCHED_BUSY"
      BY <1>1, <3>2 DEF Submit, OneTransfer, QueueIsFifo, NoDanglingRequest, sdVars, TypeOK
    <3> QED BY <3>1, <3>2 DEF TypeOK
  <2>6. WorkConserving'
    BY <1>1 DEF Submit, WorkConserving, IssueNext, TypeOK
  <2> QED BY <2>1, <2>2, <2>3, <2>4, <2>5, <2>6
<1>2. CASE CardDone
  <2>1. TypeOK'
    BY <1>2 DEF CardDone, TypeOK, Pointers, Blocks, schedVars, reqVars
  <2>2. OneTransfer'
    BY <1>2 DEF CardDone, OneTransfer, schedVars, reqVars
  <2> QED
    BY <1>2, <2>1, <2>2 DEF CardDone, NoNullCallback, QueueIsFifo, NoDanglingRequest, Issued,
       WorkConserving, ReqOnlyInCallback, schedVars, reqVars
<1>3. CASE Irq
  <2>1. TypeOK'
    BY <1>3, IncType DEF Irq, SdIrsqHandler, TypeOK, schedVars, reqVars
  <2>2. OneTransfer'
    BY <1>3 DEF Irq, SdIrsqHandler, OneTransfer, schedVars, reqVars
  <2> QED
    BY <1>3, <2>1, <2>2 DEF Irq, SdIrsqHandler, NoNullCallback, QueueIsFifo, NoDanglingRequest,
       Issued, WorkConserving, ReqOnlyInCallback, schedVars, reqVars
<1>4. CASE Tick \/ PumpExit
  BY <1>4 DEF Tick, PumpExit, TypeOK, NoNullCallback, QueueIsFifo, NoDanglingRequest, Issued,
     OneTransfer, WorkConserving, ReqOnlyInCallback, schedVars, reqVars, sdVars
<1>5. CASE PumpPop
  <2>1. state = "SCHED_BUSY" /\ in_flight = fifo[1] /\ fifo # <<>> /\ in_flight \in Reqs
    BY <1>5 DEF PumpPop, OneTransfer, QueueIsFifo, TypeOK
  <2>2. head = Inc(tail) /\ xfer = Null /\ ~irq
    BY <1>5 DEF PumpPop, OneTransfer, TypeOK
  <2>a. cpu' = "callback" /\ fifo' = Tail(fifo) /\ req' = fifo[1]
    BY <1>5, <2>1 DEF PumpPop
  <2>b. /\ fifo' \in Seq(Reqs) /\ Len(fifo) \in Nat \ {0} /\ Len(fifo') = Len(fifo) - 1
        /\ \A i \in 1..Len(fifo)-1 : fifo'[i] = fifo[i+1]
    BY <2>1, <2>a, TailShifts DEF TypeOK
  <2>3. TypeOK'
    BY <1>5, <2>1, <2>a, <2>b, IncType DEF PumpPop, TypeOK, Pointers, reqVars, sdVars
  <2>4. QueueIsFifo'
    <3>1. state' = "SCHED_IDLE" /\ Issued' = 0 /\ Issued = 1 /\ in_flight' = Null
      BY <1>5, <2>1 DEF PumpPop, Issued
    <3>2. UNCHANGED <<queue_head, queue_tail, next>>
      BY <1>5 DEF PumpPop, reqVars
    <3> QED
      BY <2>1, <2>b, <3>1, <3>2 DEF QueueIsFifo
  <2>5. NoDanglingRequest'
    <3>1. UNCHANGED live
      BY <1>5 DEF PumpPop
    <3> QED
      BY <2>1, <2>a, <2>b, <3>1 DEF NoDanglingRequest
  <2>6. OneTransfer'
    BY <1>5, <2>2 DEF PumpPop, OneTransfer, sdVars
  <2> QED
    BY <1>5, <2>1, <2>3, <2>4, <2>5, <2>6 DEF PumpPop, NoNullCallback, WorkConserving, ReqOnlyInCallback
<1>6. CASE PumpDone
  <2>1. TypeOK'
    BY <1>6 DEF PumpDone, TypeOK, Pointers, Blocks, IssueNext, SdStartRead, schedVars, reqVars, sdVars
  <2>2. (NoNullCallback /\ ReqOnlyInCallback)'
    BY <1>6 DEF PumpDone, NoNullCallback, ReqOnlyInCallback
  <2>3. QueueIsFifo'
    BY <1>6 DEF PumpDone, QueueIsFifo, NoDanglingRequest, Issued, IssueNext, TypeOK, Pointers, schedVars, reqVars
  <2>4. NoDanglingRequest'
    BY <1>6 DEF PumpDone, NoDanglingRequest, TypeOK
  <2>5. OneTransfer'
    BY <1>6, IdleIsQuiet DEF PumpDone, OneTransfer, IssueNext, SdStartRead, schedVars, reqVars, sdVars, TypeOK
  <2>6. WorkConserving'
    BY <1>6 DEF PumpDone, WorkConserving, QueueIsFifo, Issued, IssueNext, TypeOK, schedVars
  <2> QED BY <2>1, <2>2, <2>3, <2>4, <2>5, <2>6
<1>7. CASE UNCHANGED vars
  BY <1>7 DEF vars, TypeOK, NoNullCallback, QueueIsFifo, NoDanglingRequest, Issued,
     OneTransfer, WorkConserving, ReqOnlyInCallback, schedVars, reqVars, sdVars
<1> QED
  BY <1>1, <1>2, <1>3, <1>4, <1>5, <1>6, <1>7 DEF Next

(* Every reachable state satisfies the inductive invariant.                  *)
THEOREM Invariance == Spec => []IInv
BY InitIInv, StepIInv, PTL DEF Spec

(* The globals, the ring and the SD driver keep their types.                 *)
THEOREM TypeCorrect == Spec => []TypeOK
BY Invariance, PTL DEF IInv

(* No append, issue or submit from a callback loses or reorders a request.   *)
THEOREM QueueCorrect == Spec => []QueueIsFifo
BY Invariance, PTL DEF IInv

(* Requests in the list or in flight are never freed memory.                 *)
THEOREM NoDangling == Spec => []NoDanglingRequest
BY Invariance, PTL DEF IInv

(* At most one block is being read, and the receive buffer is its request's. *)
THEOREM TransfersNeverOverlap == Spec => []OneTransfer
BY Invariance, PTL DEF IInv

(* The card is not left idle while requests wait.                            *)
THEOREM CardNeverIdle == Spec => []WorkConserving
BY Invariance, PTL DEF IInv

(* The scheduler implements the service its clients rely on.                 *)
THEOREM ImplementsService == Spec => Refinement
<1>1. Init => Service!Init
  BY DEF Init, Service!Init
<1>2. IInv /\ [Next]_vars => [Service!Next]_Service!vars
  <2> SUFFICES ASSUME IInv, [Next]_vars PROVE [Service!Next]_Service!vars
    OBVIOUS
  <2> USE DEF Service!vars
  <2>1. ASSUME NEW r \in Reqs, NEW l \in LBAs, NEW c \in Ctxs, Submit(r, l, c)
        PROVE  Service!Next
    <3>1. Service!Submit(r, l, c)
      BY <2>1 DEF Submit, Service!Submit, IInv, NoDanglingRequest
    <3> QED BY <3>1 DEF Service!Next
  <2>2. CASE PumpPop
    <3>1. in_flight = fifo[1] /\ in_flight # Null /\ rx = lba[in_flight] /\ fifo # <<>>
      BY <2>2, NullAssumption DEF PumpPop, IInv, OneTransfer, QueueIsFifo, TypeOK
    <3>2. Service!Complete
      BY <2>2, <3>1 DEF PumpPop, Service!Complete, IInv, TypeOK, reqVars
    <3> QED BY <3>2 DEF Service!Next
  <2>3. CASE CardDone \/ Irq \/ Tick \/ PumpDone \/ PumpExit \/ UNCHANGED vars
    BY <2>3 DEF CardDone, Irq, SdIrsqHandler, Tick, PumpDone, PumpExit, vars, reqVars
  <2> QED
    BY <2>1, <2>2, <2>3 DEF Next
<1> QED
  BY <1>1, <1>2, Invariance, PTL DEF Spec, Refinement, Service!Spec
=============================================================================
