CONSTANTS
 Sources <- Programs
 MaxPasses = 7
 ShrinkStop = 3
 IfStackSize = 1
 Mod = 64
 ImmRange = 8
 JalRange = 16
 Lines <- AllLines
 Symbols <- Values
 Unknown = {"u"}
 MathStackSize = 11
 Width = 22
SPECIFICATION MCSpec
INVARIANTS EvalExact DecodeExact RangeExact EmittedRight NoOverlap SizesSettle
PROPERTIES LastPassStable
CHECK_DEADLOCK FALSE
