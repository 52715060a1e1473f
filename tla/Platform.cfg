SPECIFICATION PlatformSpec
CONSTANTS
    MemoryPages = 9
    KernelSegments <- MCSegments
    MapSlack = 1
    MaxFirmware = 4
    ModeLists <- MCModeLists
    PreferredMode <- MCPreferredMode
    PowerOnTimes <- MCPowerOnTimes
    Frequencies = {20, 1000}
    MaxTime = 370000000
    Keys = {"LeftShift", "Ctrl", "RightCtrl", "PrintScreen", "2"}
    KeyBuffer = 6
    Width = 3
    Moves <- MCMoves
    Overflow = Overflow
    MouseBuffer = 7
    MaxPackets = 4
    Writers = {main, other, irq}
    Irq = irq
    ConsoleWidth = 2
    ConsoleHeight = 2
    Numbers = {0, 5}
    MaxChars = 6
    Sectors = 3
    SectorCounts = {1, 2, 130}
    Data = {"x", "y"}
    Junk = "junk"
    MaxTransfers = 3
INVARIANTS
    HandoffSound
    ClockAgrees
    ModifiersMatch
    PacketsAligned
    GlyphInside
    SectorsMoved
\* The calls, characters and packets are bounded.
CHECK_DEADLOCK FALSE
