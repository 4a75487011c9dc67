CONSTANTS r1 = r1 r2 = r2 r3 = r3 c1 = c1 c2 = c2
 Reqs <- MCReqs
 Ctxs <- MCCtxs
 LBAs = {1, 2}
 Null = Null
 CounterMod = 4
 Faults = {"no_response", "no_token"}
SPECIFICATION FairSpec
INVARIANTS QueueIsFifo NoDanglingRequest OneTransfer
PROPERTIES Refinement CompletesUnlessStuck
