CONSTANTS
 p1 = p1
 p2 = p2
 Ring <- TwoProcs
 Steps = 2
 SliceMax = 2
 Clobbers = TRUE
 Callbacks = 1
 Kernel = Kernel
SPECIFICATION FairSpec
INVARIANTS RegistersIntact Isolation ExactThroughIdle
PROPERTIES ReadyRuns
