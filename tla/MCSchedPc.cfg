CONSTANTS
 p1 = p1
 p2 = p2
 Ring <- TwoProcs
 Steps = 3
 SliceMax = 2
 Clobbers = FALSE
 Callbacks = 0
 Kernel = Kernel
SPECIFICATION Spec
INVARIANTS PcIntact
