------------------------------ MODULE IoSched ------------------------------
(* The block-read scheduler (kernel/io/io_scheduler.c), the SD interrupt     *)
(* handler (drivers/spi/sd_irsq.c) and the part of the SD driver they call.  *)
(* Kernel code runs with interrupts off: `cpu` says which trap is running,   *)
(* and only the card (CardDone) works in parallel with it.                   *)
EXTENDS Integers, Sequences

CONSTANTS Reqs,        \* heap addresses of io_sched_req_t objects
          LBAs,        \* block addresses
          Ctxs,        \* client contexts (fs_open, fs_read, ... contexts)
          Null,        \* the NULL pointer
          CounterMod,  \* ring counters are taken modulo this (256: uint8_t)
          Faults       \* ways sd_start_read may fail to start a transfer

ASSUME NullAssumption == Null \notin Reqs \cup LBAs
ASSUME CounterAssumption == CounterMod \in Nat /\ CounterMod >= 2
ASSUME FaultsAssumption == Faults \subseteq {"no_response", "no_token"}

VARIABLES
  queue_head, queue_tail, in_flight, state,  \* g_io_sched
  next, lba, ctx,   \* the fields of the request objects
  live,             \* the requests that are allocated
  SD_STATE,         \* SD_INFO.SD_STATE: "idle" or "wait_read"
  xfer,             \* block being transferred by the SPI engine, or Null
  irq,              \* the SPI block interrupt is raised
  rx,               \* block held by SPI_RX_RAM, or Null
  head, tail,       \* g_sd_irq_ring
  cpu,              \* "run", "pump", "callback" or "fault"
  req,              \* io_sched_pump's local: the request being completed
  last,             \* what the latest callback was given
  fifo              \* history: outstanding requests in submission order

schedVars == <<queue_head, queue_tail, in_flight, state>>
reqVars   == <<next, lba, ctx>>
sdVars    == <<SD_STATE, xfer, irq, rx>>
vars == <<schedVars, reqVars, live, sdVars, head, tail, cpu, req, last, fifo>>

Inc(n) == (n + 1) % CounterMod

-----------------------------------------------------------------------------
(* Boot: everything in .bss is zero and the card was left idle by sd_init.  *)
Init ==
  /\ queue_head = Null /\ queue_tail = Null /\ in_flight = Null
  /\ state = "SCHED_IDLE"
  /\ next \in [Reqs -> {Null}]
  /\ lba \in [Reqs -> LBAs] /\ ctx \in [Reqs -> Ctxs]
  /\ live = {}
  /\ SD_STATE = "idle" /\ xfer = Null /\ irq = FALSE /\ rx = Null
  /\ head = 0 /\ tail = 0
  /\ cpu = "run" /\ req = Null /\ last = Null /\ fifo = <<>>

-----------------------------------------------------------------------------
(* sd_start_read(l).  It polls until CMD17 was answered and the start token *)
(* came.  No answer: chip select is dropped and SD_STATE is left as it was. *)
(* Answer but no token: SD_STATE is set and no transfer is started.         *)
SdStartRead(l) ==
  \/ SD_STATE' = "wait_read" /\ xfer' = l /\ UNCHANGED <<irq, rx>>
  \/ "no_token" \in Faults /\ SD_STATE' = "wait_read" /\ UNCHANGED <<xfer, irq, rx>>
  \/ "no_response" \in Faults /\ UNCHANGED sdVars

(* io_sched_issue_next with queue h..t linked by nx and block addresses b.  *)
(* Its caller has checked that h is not NULL.                               *)
IssueNext(h, t, nx, b) ==
  /\ queue_head' = nx[h]
  /\ queue_tail' = IF nx[h] = Null THEN Null ELSE t
  /\ in_flight' = h
  /\ state' = "SCHED_BUSY"
  /\ SdStartRead(b[h])

(* Mutant: io_sched_submit without req->next = NULL.                        *)
LinkKeepsStaleNext(r) ==
  IF queue_tail = Null THEN next ELSE [next EXCEPT ![queue_tail] = r]

(* The links after req->next = NULL and the append at the tail.             *)
LinkAtTail(r) ==
  LET cleared == [next EXCEPT ![r] = Null] IN
  IF queue_tail = Null THEN cleared ELSE [cleared EXCEPT ![queue_tail] = r]

(* Mutant: io_sched_submit issues without asking whether the card is idle.  *)
SubmitIssuesAlways(r, l, c) ==
  LET nx == LinkAtTail(r)
      h  == IF queue_tail = Null THEN r ELSE queue_head
      b  == [lba EXCEPT ![r] = l]
  IN  /\ cpu \in {"run", "callback"} /\ r \notin live
      /\ live' = live \cup {r} /\ lba' = b /\ ctx' = [ctx EXCEPT ![r] = c]
      /\ next' = nx /\ IssueNext(h, r, nx, b) /\ fifo' = Append(fifo, r)
      /\ UNCHANGED <<head, tail, cpu, req, last>>

(* io_sched_submit by a client that just allocated and filled r, either in  *)
(* a system call or from inside a completion callback.                      *)
Submit(r, l, c) ==
  LET nx == LinkAtTail(r)
      h  == IF queue_tail = Null THEN r ELSE queue_head
      b  == [lba EXCEPT ![r] = l]
  IN  /\ cpu \in {"run", "callback"}
      /\ r \notin live
      /\ live' = live \cup {r}
      /\ lba' = b
      /\ ctx' = [ctx EXCEPT ![r] = c]
      /\ next' = nx
      /\ IF state = "SCHED_IDLE"
         THEN IssueNext(h, r, nx, b)
         ELSE /\ queue_head' = h /\ queue_tail' = r
              /\ UNCHANGED <<in_flight, state, sdVars>>
      /\ fifo' = Append(fifo, r)
      /\ UNCHANGED <<head, tail, cpu, req, last>>

(* The SPI engine finishes the block: data in SPI_RX_RAM, interrupt raised. *)
CardDone ==
  /\ xfer # Null
  /\ rx' = xfer
  /\ xfer' = Null
  /\ irq' = TRUE
  /\ UNCHANGED <<schedVars, reqVars, live, SD_STATE, head, tail, cpu, req, last, fifo>>

(* sd_irsq_handler: sd_tail_read (its SPI transfers clear the interrupt and *)
(* it sets SD_STATE idle), then a completion is pushed on the ring.         *)
SdIrsqHandler ==
  /\ SD_STATE' = "idle"
  /\ head' = Inc(head)
  /\ irq' = FALSE
  /\ UNCHANGED <<schedVars, reqVars, live, xfer, rx, tail, cpu, req, last, fifo>>

Irq == cpu = "run" /\ irq /\ SdIrsqHandler

(* Mutant: the pump is left out while the driver waits for no block.        *)
TickWhenWaiting ==
  /\ cpu = "run"
  /\ cpu' = IF SD_STATE = "wait_read" THEN "pump" ELSE "run"
  /\ UNCHANGED <<schedVars, reqVars, live, sdVars, head, tail, req, last, fifo>>

(* timer_interrupt calls io_sched_pump.                                     *)
Tick ==
  /\ cpu = "run"
  /\ cpu' = "pump"
  /\ UNCHANGED <<schedVars, reqVars, live, sdVars, head, tail, req, last, fifo>>

(* Mutant: the request is freed before its callback is called.              *)
PumpPopFreesFirst ==
  /\ cpu = "pump" /\ head # tail /\ in_flight # Null
  /\ tail' = Inc(tail) /\ req' = in_flight
  /\ in_flight' = Null /\ state' = "SCHED_IDLE" /\ cpu' = "callback"
  /\ last' = [ctx |-> ctx[in_flight], data |-> rx] /\ fifo' = Tail(fifo)
  /\ live' = live \ {in_flight}
  /\ UNCHANGED <<queue_head, queue_tail, reqVars, sdVars, head>>

(* One turn of the pump's loop up to the callback: the completion is taken  *)
(* off the ring and the scheduler is made idle.  Calling through a NULL     *)
(* request is a fault.                                                      *)
PumpPop ==
  /\ cpu = "pump" /\ head # tail
  /\ tail' = Inc(tail)
  /\ req' = in_flight
  /\ in_flight' = Null
  /\ state' = "SCHED_IDLE"
  /\ IF in_flight = Null
     THEN cpu' = "fault" /\ UNCHANGED <<last, fifo>>
     ELSE /\ cpu' = "callback"
          /\ last' = [ctx |-> ctx[in_flight], data |-> rx]
          /\ fifo' = Tail(fifo)
  /\ UNCHANGED <<queue_head, queue_tail, reqVars, live, sdVars, head>>

(* Mutant: the pump does not ask whether the callback made the card busy.   *)
PumpDoneIssuesAlways ==
  /\ cpu = "callback" /\ cpu' = "pump" /\ live' = live \ {req} /\ req' = Null
  /\ IF queue_head # Null THEN IssueNext(queue_head, queue_tail, next, lba)
                          ELSE UNCHANGED <<schedVars, sdVars>>
  /\ UNCHANGED <<reqVars, head, tail, last, fifo>>

(* The callback returns: kfree(req), then the next queued request is issued *)
(* unless a request submitted by the callback already made the card busy.   *)
PumpDone ==
  /\ cpu = "callback"
  /\ cpu' = "pump"
  /\ live' = live \ {req}
  /\ req' = Null
  /\ IF state = "SCHED_IDLE" /\ queue_head # Null
     THEN IssueNext(queue_head, queue_tail, next, lba)
     ELSE UNCHANGED <<schedVars, sdVars>>
  /\ UNCHANGED <<reqVars, head, tail, last, fifo>>

PumpExit ==
  /\ cpu = "pump" /\ head = tail
  /\ cpu' = "run"
  /\ UNCHANGED <<schedVars, reqVars, live, sdVars, head, tail, req, last, fifo>>

Next ==
  \/ \E r \in Reqs, l \in LBAs, c \in Ctxs : Submit(r, l, c)
  \/ CardDone
  \/ Irq
  \/ Tick
  \/ PumpPop
  \/ PumpDone
  \/ PumpExit

Spec == Init /\ [][Next]_vars

(* The engine finishes what it started; a raised interrupt is taken at one  *)
(* of the returns to user code; the timer keeps firing; kernel code runs on.*)
Fairness ==
  /\ WF_vars(CardDone) /\ SF_vars(Irq) /\ WF_vars(Tick)
  /\ WF_vars(PumpPop) /\ WF_vars(PumpDone) /\ WF_vars(PumpExit)

FairSpec == Spec /\ Fairness

-----------------------------------------------------------------------------
Pointers == Reqs \cup {Null}
Blocks   == LBAs \cup {Null}

(* The values the scheduler's globals, the ring and the SD driver can have. *)
TypeOK ==
  /\ queue_head \in Pointers /\ queue_tail \in Pointers /\ in_flight \in Pointers
  /\ state \in {"SCHED_IDLE", "SCHED_BUSY"}
  /\ next \in [Reqs -> Pointers] /\ lba \in [Reqs -> LBAs] /\ ctx \in [Reqs -> Ctxs]
  /\ live \in SUBSET Reqs
  /\ SD_STATE \in {"idle", "wait_read"}
  /\ xfer \in Blocks /\ irq \in BOOLEAN /\ rx \in Blocks
  /\ head \in 0..CounterMod-1 /\ tail \in 0..CounterMod-1
  /\ cpu \in {"run", "pump", "callback", "fault"}
  /\ req \in Pointers
  /\ fifo \in Seq(Reqs)

(* A completion is in the ring only while a request is in flight, so the    *)
(* pump finds one to call back.  This is for the interrupts of transfers    *)
(* that the scheduler has started, which are the only ones of the model.    *)
NoNullCallback == cpu # "fault"

(* The number of outstanding requests that were issued to the card.         *)
Issued == IF state = "SCHED_BUSY" THEN 1 ELSE 0

(* The linked list from queue_head to queue_tail is exactly the outstanding *)
(* requests that are not in flight, in submission order: no request is lost *)
(* by an append, an issue or a submit from inside a callback.               *)
QueueIsFifo ==
  /\ state = "SCHED_BUSY" => fifo # <<>> /\ in_flight = fifo[1]
  /\ state = "SCHED_IDLE" => in_flight = Null
  /\ Len(fifo) = Issued => queue_head = Null /\ queue_tail = Null
  /\ Len(fifo) > Issued => /\ queue_head = fifo[Issued + 1]
                           /\ queue_tail = fifo[Len(fifo)]
                           /\ next[fifo[Len(fifo)]] = Null
  /\ \A i \in Issued+1 .. Len(fifo)-1 : next[fifo[i]] = fifo[i+1]

(* A request object is freed only after its callback, and the outstanding   *)
(* ones are distinct allocated objects: nothing in the list or in flight is *)
(* freed memory, and the object being completed is not in the list.         *)
NoDanglingRequest ==
  /\ \A i \in 1..Len(fifo) : fifo[i] \in live \ {req}
  /\ \A i, j \in 1..Len(fifo) : fifo[i] = fifo[j] => i = j
  /\ cpu = "callback" => req \in live

(* The phase of the block being read is in exactly one place: transferring, *)
(* interrupt raised, or completion in the ring; the receive buffer belongs  *)
(* to the in-flight request from the interrupt to the callback.             *)
OneTransfer ==
  /\ xfer # Null => /\ state = "SCHED_BUSY" /\ xfer = lba[in_flight]
                    /\ SD_STATE = "wait_read" /\ ~irq /\ head = tail
  /\ irq => /\ state = "SCHED_BUSY" /\ rx = lba[in_flight]
            /\ SD_STATE = "wait_read" /\ head = tail
  /\ head # tail => /\ state = "SCHED_BUSY" /\ rx = lba[in_flight]
                    /\ head = Inc(tail)

(* Outside a callback the card is never left idle while requests wait.      *)
WorkConserving == cpu # "callback" /\ fifo # <<>> => state = "SCHED_BUSY"

(* Every request that was submitted is called back.                         *)
EveryRequestCompletes ==
  \A r \in Reqs : (\E i \in 1..Len(fifo) : fifo[i] = r)
                    ~> ~(\E i \in 1..Len(fifo) : fifo[i] = r)

(* A transfer is awaited that was never started.                            *)
StartFailed ==
  cpu = "run" /\ state = "SCHED_BUSY" /\ xfer = Null /\ ~irq /\ head = tail

(* As long as the card answers every read command, every request is called  *)
(* back, however submissions, interrupts and ticks interleave.              *)
CompletesUnlessStuck == []~StartFailed => EveryRequestCompletes

Service == INSTANCE IoService WITH pending <- fifo

(* The scheduler implements the service: callbacks in submission order,     *)
(* exactly one per request, each finding its own block in SPI_RX_RAM.       *)
Refinement == Service!Spec
=============================================================================
