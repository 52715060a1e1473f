CONSTANTS
    MainThread = MainThread
    InInterrupt = InInterrupt
    ItemA = ItemA
    ItemB = ItemB
    Callers <- BothCallers
    Masked <- InterruptOnly
    MaxSize = 2
    Items <- TwoItems
    NoItem = NoItem
    Requests <- RequestsOf
    MaxCount = 2
    Wrap = 4
SPECIFICATION Spec
INVARIANTS MutualExclusion
