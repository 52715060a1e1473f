CONSTANTS
    FileA = FileA
    FileB = FileB
    Dot = Dot
    DotDot = DotDot
    Empty = Empty
    FileC = FileC
    Names <- ThreeNames
    Existing <- TwoFiles
    Lengths = {1, 2, 3}
    Last = 7
    TableLast = 9
    SectorBytes = 8
    Slots = 6
    MaxWrites = 3
    MaxCrashes = 0
SPECIFICATION Spec
INVARIANTS EarlierFilesListed
CHECK_DEADLOCK FALSE
