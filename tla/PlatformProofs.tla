--------------------------- MODULE PlatformProofs ---------------------------
(***************************************************************************)
(* Proofs about the parts of Platform, each for every value of its         *)
(* constants: disk, console, mouse, boot loader, clock and keyboard.  A    *)
(* theorem is about the specification of its part; the first one carries   *)
(* them all over to Platform.                                              *)
(***************************************************************************)
EXTENDS Platform, SequenceTheorems, FiniteSetTheorems, WellFoundedInduction, TLAPS

\* A behaviour of Platform is one of every part: a step of one part changes no
\* variable of another.
THEOREM PlatformParts ==
    PlatformSpec => BootSpec /\ ClockSpec /\ KeyboardSpec /\ MouseSpec /\ ConsoleSpec /\ AtaSpec
<1>1. PlatformInit => BootInit /\ ClockInit /\ KeyboardInit /\ MouseInit /\ ConsoleInit /\ AtaInit
  BY DEF PlatformInit
<1>2. [PlatformNext]_platformVars =>
        /\ [BootNext]_bootVars /\ [ClockNext]_clockVars /\ [KeyboardNext]_keyboardVars
        /\ [MouseNext]_mouseVars /\ [ConsoleNext]_consoleVars /\ [AtaNext]_ataVars
  BY DEF PlatformNext, platformVars, BootStep, ClockStep, KeyboardStep, MouseStep, ConsoleStep, AtaStep
<1> QED
  BY <1>1, <1>2, PTL DEF PlatformSpec, BootSpec, ClockSpec, KeyboardSpec, MouseSpec, ConsoleSpec, AtaSpec

-----------------------------------------------------------------------------
(* The disk. *)

\* The disk once the drive has stored the sector it has taken.
Pending == IF taken = None THEN store ELSE [store EXCEPT ![lbaNext - 1] = taken]

AtaTypes ==
    /\ store \in [Lbas -> Data] /\ written \in [Lbas -> Data]
    /\ buffer \in [Lbas -> Data \cup {Junk}]
    /\ drive \in {"idle", "starting", "busy", "ready"}
    /\ ataPc \in {"idle", "wait", "bsy", "rdy", "data"}
    /\ lbaNext \in Nat /\ left \in Nat /\ taken \in Data \cup {None}
    /\ lba \in Nat /\ sector_count \in 0 .. 255 /\ j \in Nat

\* A drive at rest has stored what it took; one that is ready has sectors left.
DrivePhase ==
    /\ drive \in {"idle", "ready"} => taken = None
    /\ drive = "idle" => left = 0
    /\ drive = "ready" => left > 0
    /\ taken # None => lbaNext - 1 \in Lbas

\* Between calls the drive has nothing to transfer.  In the loop it is at the
\* sector that the code is at, and ready when the waits are over.
InStep ==
    /\ ataPc \in {"idle", "wait"} => left = 0
    /\ ataPc \in {"bsy", "rdy", "data"} => lbaNext = lba + j /\ left = sector_count - j
    /\ ataPc \in {"rdy", "data"} => drive = "ready" /\ j < Signed(sector_count)

\* The arguments of the call in progress, and how far it is.
Called ==
    ataPc # "idle" =>
        /\ op \in {"read", "write"}
        /\ sector_count > 127 \/ lba + sector_count <= Sectors
        /\ j \in 0 .. sector_count
        /\ ataPc = "wait" => j = 0

\* What was asked for is on its way: on the disk, in the drive, or still to be
\* written by the call in progress; what was read so far is right.
OnItsWay ==
    /\ ataPc = "idle" =>
         /\ Pending = written
         /\ op = "read" => \A s \in lba .. (lba + sector_count - 1) : buffer[s] = written[s]
    /\ ataPc # "idle" /\ op = "write" =>
         /\ buffer \in [Lbas -> Data]
         /\ \A s \in Lbas :
              written[s] = IF s \in (lba + j) .. (lba + sector_count - 1)
                           THEN buffer[s] ELSE Pending[s]
    /\ ataPc # "idle" /\ op = "read" =>
         /\ Pending = written
         /\ \A s \in lba .. (lba + j - 1) : buffer[s] = written[s]

\* All of it as long as nothing has gone wrong that the code does not notice.
AtaInv == spoiled = {} => AtaTypes /\ DrivePhase /\ InStep /\ Called /\ OnItsWay

LEMMA AtaStart == AtaInit => AtaInv
<1> SUFFICES ASSUME AtaInit PROVE AtaInv
  OBVIOUS
<1>1. (CHOOSE d \in Data : TRUE) \in Data
  BY AtaAssumption
<1>2. AtaTypes
  BY <1>1 DEF AtaInit, AtaTypes
<1>3. Pending = written
  BY DEF AtaInit, Pending
<1> QED
  BY <1>2, <1>3 DEF AtaInit, AtaInv, DrivePhase, InStep, Called, OnItsWay, None

LEMMA AtaKeeps == AtaInv /\ [AtaNext]_ataVars => AtaInv'
<1> SUFFICES ASSUME AtaInv, [AtaNext]_ataVars, spoiled' = {}
             PROVE  AtaTypes' /\ DrivePhase' /\ InStep' /\ Called' /\ OnItsWay'
  BY DEF AtaInv
<1>0. spoiled = {}
  BY DEF AtaNext, DriveBusy, DriveProceeds, DriveFails, AtaCall, AtaCommand, SendCommand,
         AtaWaits, atapio_drq_wait, AtaData, AtaReturn, ataVars
<1>a. AtaTypes /\ DrivePhase /\ InStep /\ Called /\ OnItsWay
  BY <1>0 DEF AtaInv
<1> USE DEF driveVars, callVars
<1>1. CASE DriveBusy
  <2>1. Pending' = Pending
    BY <1>1 DEF DriveBusy, Pending
  <2> QED
    BY <1>1, <1>a, <2>1 DEF DriveBusy, AtaTypes, DrivePhase, InStep, Called, OnItsWay
<1>2. CASE DriveProceeds
  <2>1. store' = Pending /\ taken' = None /\ Pending' = Pending /\ Pending \in [Lbas -> Data]
    BY <1>2, <1>a DEF DriveProceeds, Pending, AtaTypes
  <2>2. ataPc \notin {"rdy", "data"}
    BY <1>2, <1>a DEF DriveProceeds, InStep
  <2>3. AtaTypes'
    BY <1>2, <1>a, <2>1 DEF DriveProceeds, AtaTypes
  <2>4. DrivePhase'
    BY <1>2, <1>a, <2>1 DEF DriveProceeds, DrivePhase, AtaTypes
  <2> QED
    BY <1>2, <1>a, <2>1, <2>2, <2>3, <2>4 DEF DriveProceeds, InStep, Called, OnItsWay
<1>3. CASE DriveFails
  BY <1>3 DEF DriveFails
<1>4. ASSUME NEW o \in {"read", "write"}, NEW a \in Lbas, NEW n \in SectorCounts, NEW d \in Data,
             AtaCall(o, a, n, d)
      PROVE  AtaTypes' /\ DrivePhase' /\ InStep' /\ Called' /\ OnItsWay'
  <2>1. /\ a \in Nat /\ n \in 0 .. 255 /\ n >= 1
        /\ n > 127 \/ a + n <= Sectors
    BY <1>4, AtaAssumption DEF AtaCall, Lbas
  <2>2. /\ ataPc = "idle" /\ ataPc' = "wait" /\ op' = o /\ lba' = a /\ sector_count' = n /\ j' = 0
        /\ buffer' = [s \in Lbas |-> IF o = "write" THEN d ELSE Junk]
        /\ written' = [s \in Lbas |-> IF o = "write" /\ s \in a .. (a + n - 1) THEN d ELSE written[s]]
        /\ UNCHANGED <<store, drive, lbaNext, left, taken>>
    BY <1>4 DEF AtaCall
  <2>3. Pending' = Pending /\ Pending = written
    BY <1>a, <2>2 DEF Pending, OnItsWay
  <2>4. AtaTypes'
    BY <1>a, <2>1, <2>2 DEF AtaTypes
  <2>5. DrivePhase' /\ InStep'
    BY <1>a, <2>2 DEF DrivePhase, InStep
  <2>6. Called'
    BY <2>1, <2>2 DEF Called
  <2>7. CASE o = "write"
    <3>1. \A s \in Lbas : written'[s] = IF s \in a .. (a + n - 1) THEN buffer'[s] ELSE Pending'[s]
      BY <2>2, <2>3, <2>7
    <3>2. buffer' \in [Lbas -> Data]
      BY <2>2, <2>7
    <3>3. a + 0 = a
      BY <2>1
    <3> QED
      BY <2>2, <2>4, <2>5, <2>6, <2>7, <3>1, <3>2, <3>3 DEF OnItsWay
  <2>8. CASE o = "read"
    <3>1. written' = written
      BY <1>a, <2>2, <2>8 DEF AtaTypes
    <3>2. \A s \in a .. (a + 0 - 1) : FALSE
      BY <2>1
    <3> QED
      BY <2>2, <2>3, <2>4, <2>5, <2>6, <2>8, <3>1, <3>2 DEF OnItsWay
  <2> QED
    BY <2>7, <2>8
<1>5. CASE AtaCommand
  <2>0. drive # "busy" /\ drive # "starting" /\ ataPc = "wait" /\ taken' = None
    BY <1>5 DEF AtaCommand, SendCommand, BSY
  <2>1. drive = "idle" /\ taken = None /\ taken' = None
    BY <1>a, <2>0 DEF AtaTypes, DrivePhase, InStep
  <2>2. Pending' = Pending
    BY <1>5, <2>1 DEF AtaCommand, SendCommand, Pending
  <2>3. j = 0 /\ op \in {"read", "write"} /\ ataPc = "wait"
    BY <1>5, <1>a DEF AtaCommand, SendCommand, Called
  <2> QED
    BY <1>5, <1>a, <2>1, <2>2, <2>3
       DEF AtaCommand, SendCommand, AtaTypes, DrivePhase, InStep, Called, OnItsWay
<1>6. CASE AtaWaits
  <2>1. ataPc = "bsy" /\ drive # "busy" /\ drive # "starting" /\ j < Signed(sector_count)
    BY <1>6, <1>0 DEF AtaWaits, atapio_bsy_wait, BSY
  <2>2. j < sector_count
    BY <1>a, <2>1 DEF AtaTypes, Signed
  <2>3. drive = "ready"
    BY <1>a, <2>1, <2>2 DEF AtaTypes, DrivePhase, InStep
  <2>4. Pending' = Pending
    BY <1>6 DEF AtaWaits, Pending
  <2> QED
    BY <1>6, <1>a, <2>1, <2>3, <2>4 DEF AtaWaits, AtaTypes, DrivePhase, InStep, Called, OnItsWay
<1>7. CASE atapio_drq_wait
  <2>1. Pending' = Pending
    BY <1>7 DEF atapio_drq_wait, Pending
  <2> QED
    BY <1>7, <1>a, <2>1 DEF atapio_drq_wait, AtaTypes, DrivePhase, InStep, Called, OnItsWay
<1>8. CASE AtaData
  <2> DEFINE k == lba + j
  <2>1. /\ ataPc = "data" /\ drive = "ready" /\ j < Signed(sector_count)
        /\ lbaNext = k /\ left = sector_count - j /\ taken = None
    BY <1>8, <1>a DEF AtaData, InStep, DrivePhase
  <2>2. /\ lba \in Nat /\ j \in Nat /\ sector_count \in Nat /\ j < sector_count
        /\ lba + sector_count <= Sectors
    BY <1>a, <2>1 DEF AtaTypes, Signed, Called
  <2>3. k \in Lbas /\ k \in Nat
    BY <2>2, AtaAssumption DEF Lbas
  <2>4. Pending = store /\ op \in {"read", "write"}
    BY <1>a, <2>1 DEF Pending, Called
  <2>5. /\ j' = j + 1 /\ ataPc' = "bsy" /\ UNCHANGED <<store, op, lba, sector_count, written>>
        /\ lbaNext' = k + 1 /\ left' = left - 1
    BY <1>8, <2>1 DEF AtaData
  <2>6. left \in Nat /\ left > 0 /\ left' \in Nat /\ left' = sector_count - (j + 1) /\ k + 1 = lba + (j + 1)
    BY <2>1, <2>2, <2>5
  <2>7. InStep' /\ Called'
    BY <2>2, <2>4, <2>5, <2>6 DEF InStep, Called
  <2>8. CASE op = "read"
    <3>1. /\ buffer' = [buffer EXCEPT ![k] = store[k]] /\ taken' = None
          /\ drive' \in (IF left = 1 THEN {"idle"} ELSE {"starting", "busy"})
      BY <1>8, <2>1, <2>8 DEF AtaData
    <3>2. Pending' = Pending
      BY <2>4, <2>5, <3>1 DEF Pending
    <3>3. AtaTypes'
      BY <1>a, <2>2, <2>3, <2>5, <2>6, <3>1 DEF AtaTypes
    <3>4. DrivePhase'
      BY <2>5, <2>6, <3>1 DEF DrivePhase
    <3>5. Pending = written /\ \A s \in lba .. (lba + j - 1) : buffer[s] = written[s]
      BY <1>a, <2>1, <2>8 DEF OnItsWay
    <3>6. \A s \in lba .. (lba + (j + 1) - 1) : buffer'[s] = written[s]
      <4> TAKE s \in lba .. (lba + (j + 1) - 1)
      <4>1. CASE s = k
        BY <1>a, <2>3, <2>4, <3>1, <3>5, <4>1 DEF AtaTypes
      <4>2. CASE s # k
        <5>1. s \in lba .. (lba + j - 1)
          BY <2>2, <4>2
        <5>2. s \in Lbas
          BY <2>2, <5>1, AtaAssumption DEF Lbas
        <5> QED
          BY <1>a, <3>1, <3>5, <4>2, <5>1, <5>2 DEF AtaTypes
      <4> QED
        BY <4>1, <4>2
    <3> QED
      BY <2>5, <2>7, <2>8, <3>2, <3>3, <3>4, <3>5, <3>6 DEF OnItsWay
  <2>9. CASE op = "write"
    <3>1. taken' = buffer[k] /\ buffer' = buffer /\ drive' \in {"starting", "busy"}
      BY <1>8, <2>1, <2>9 DEF AtaData
    <3>2. /\ buffer \in [Lbas -> Data]
          /\ \A s \in Lbas : written[s] = IF s \in (lba + j) .. (lba + sector_count - 1)
                                          THEN buffer[s] ELSE store[s]
      BY <1>a, <2>1, <2>4, <2>9 DEF OnItsWay
    <3>3. taken' \in Data /\ taken' # None
      BY <2>3, <3>1, <3>2, AtaAssumption
    <3>4. AtaTypes'
      BY <1>a, <2>2, <2>3, <2>5, <2>6, <3>1, <3>3 DEF AtaTypes
    <3>5. lbaNext' - 1 = k
      BY <2>3, <2>5
    <3>6. DrivePhase'
      BY <2>3, <3>1, <3>5 DEF DrivePhase
    <3>7. Pending' = [store EXCEPT ![k] = buffer[k]]
      BY <2>5, <3>1, <3>3, <3>5 DEF Pending
    <3>8. \A s \in Lbas : written[s] = IF s \in (lba + (j + 1)) .. (lba + sector_count - 1)
                                       THEN buffer[s] ELSE Pending'[s]
      <4> TAKE s \in Lbas
      <4>0. s \in Int /\ store \in [Lbas -> Data]
        BY <1>a, AtaAssumption DEF Lbas, AtaTypes
      <4>1. CASE s = k
        <5>1. k \in (lba + j) .. (lba + sector_count - 1) /\ k \notin (lba + (j + 1)) .. (lba + sector_count - 1)
          BY <2>2
        <5> QED
          BY <3>2, <3>7, <4>0, <4>1, <5>1
      <4>2. CASE s # k
        <5>1. s \in (lba + (j + 1)) .. (lba + sector_count - 1) <=> s \in (lba + j) .. (lba + sector_count - 1)
          BY <2>2, <4>0, <4>2
        <5> QED
          BY <3>2, <3>7, <4>0, <4>2, <5>1
      <4> QED
        BY <4>1, <4>2
    <3> QED
      BY <2>5, <2>7, <2>9, <3>1, <3>2, <3>4, <3>6, <3>8 DEF OnItsWay
  <2> QED
    BY <2>4, <2>8, <2>9
<1>9. CASE AtaReturn
  <2>1. ataPc = "bsy" /\ j >= Signed(sector_count) /\ ~(sector_count > 127)
    BY <1>9, <1>0 DEF AtaReturn
  <2>2. j = sector_count /\ sector_count \in Nat /\ lba \in Nat
    BY <1>a, <2>1 DEF AtaTypes, Called, Signed
  <2>3. left = 0
    BY <1>a, <2>1, <2>2 DEF InStep
  <2>4. Pending' = Pending
    BY <1>9 DEF AtaReturn, Pending
  <2>5. CASE op = "read"
    BY <1>9, <1>a, <2>1, <2>2, <2>3, <2>4, <2>5
       DEF AtaReturn, AtaTypes, DrivePhase, InStep, Called, OnItsWay
  <2>6. CASE op = "write"
    <3>1. \A s \in Lbas : written[s] = Pending[s]
      BY <1>a, <2>1, <2>2, <2>6 DEF OnItsWay
    <3>2. Pending \in [Lbas -> Data] /\ written \in [Lbas -> Data]
      BY <1>a DEF AtaTypes, Pending
    <3>3. Pending = written
      BY <3>1, <3>2
    <3> QED
      BY <1>9, <1>a, <2>1, <2>2, <2>3, <2>4, <2>6, <3>3
         DEF AtaReturn, AtaTypes, DrivePhase, InStep, Called, OnItsWay
  <2> QED
    BY <1>a, <2>1, <2>5, <2>6 DEF Called
<1>10. CASE UNCHANGED ataVars
  <2>1. Pending' = Pending
    BY <1>10 DEF ataVars, Pending
  <2> QED
    BY <1>10, <1>a, <2>1 DEF ataVars, AtaTypes, DrivePhase, InStep, Called, OnItsWay
<1> QED
  BY <1>1, <1>2, <1>3, <1>4, <1>5, <1>6, <1>7, <1>8, <1>9, <1>10 DEF AtaNext

\* A read returns what the writes before it asked for, although a write returns
\* before the drive has stored its last sector, and a drive at rest has stored
\* everything: the next command waits for the drive.
THEOREM MovedSectors == AtaSpec => []SectorsMoved
<1>1. AtaSpec => []AtaInv
  BY AtaStart, AtaKeeps, PTL DEF AtaSpec
<1>2. AtaInv => SectorsMoved
  <2> SUFFICES ASSUME AtaInv, ataPc = "idle", spoiled = {}
               PROVE  /\ op = "read" => \A s \in lba .. (lba + sector_count - 1) : buffer[s] = written[s]
                      /\ drive = "idle" => store = written
    BY DEF SectorsMoved
  <2> QED
    BY DEF AtaInv, OnItsWay, DrivePhase, Pending
<1> QED
  BY <1>1, <1>2, PTL

-----------------------------------------------------------------------------
(* The console. *)

Threads == Writers \ {Irq}
LetterPcs == {"idle", "clamp", "save", "right", "wrap", "render"}

\* The interrupt prints letters only.
ConsoleTypes ==
    /\ cursor_x \in Nat /\ cursor_y \in Nat
    /\ esc_x \in Nat /\ esc_y \in Nat /\ saved_x \in Nat /\ saved_y \in Nat
    /\ print_x \in [Writers -> Nat] /\ print_y \in [Writers -> Nat] /\ loaded \in [Writers -> Nat]
    /\ consolePc \in [Writers -> LetterPcs \cup {"return", "down", "test", "up", "tab"}]
    /\ consolePc[Irq] \in LetterPcs

\* One thread at a time is in printchar.
OneThread == \A v, w \in Threads : ~Idle(v) /\ ~Idle(w) => v = w

\* The cursor is behind the line only between a thread's step to the right and its
\* wrap.  The interrupt may print just there, and then wraps.
ColumnInside ==
    /\ consolePc[Irq] # "wrap" => cursor_x <= ConsoleWidth
    /\ consolePc[Irq] \in {"idle", "render"} =>
         cursor_x < ConsoleWidth \/ \E w \in Threads : consolePc[w] = "wrap"
    /\ \A w \in Threads : consolePc[w] = "right" => loaded[w] < ConsoleWidth

\* A row below the last is clamped before a letter is drawn; between the clamp
\* and the use an interrupt may go one row down, no more, for it clamps first.
RowInside ==
    /\ \A w \in Threads : consolePc[w] = "save" => cursor_y <= ConsoleHeight
    /\ consolePc[Irq] \in {"save", "right", "wrap"} => cursor_y <= ConsoleHeight - 1

CellsInside ==
    /\ \A w \in Writers : consolePc[w] \in {"right", "wrap", "render"} =>
           print_x[w] <= ConsoleWidth /\ print_y[w] <= ConsoleHeight
    /\ glyph[1] <= ConsoleWidth /\ glyph[2] <= ConsoleHeight

ConsoleGood == ConsoleTypes /\ OneThread /\ ColumnInside /\ RowInside /\ CellsInside

ConsoleInv == ~strayed /\ ~overlapped => ConsoleGood

LEMMA ConsoleStart == ConsoleInit => ConsoleInv
<1> SUFFICES ASSUME ConsoleInit PROVE ConsoleGood
  BY DEF ConsoleInv
<1>1. \A w \in Writers : consolePc[w] = "idle"
  BY DEF ConsoleInit
<1>2. ConsoleTypes
  BY ConsoleAssumption DEF ConsoleInit, ConsoleTypes, LetterPcs
<1>3. OneThread
  BY <1>1 DEF OneThread, Idle, Threads
<1>4. ColumnInside /\ RowInside /\ CellsInside
  BY <1>1, ConsoleAssumption DEF ConsoleInit, ColumnInside, RowInside, CellsInside, Threads
<1> QED
  BY <1>2, <1>3, <1>4 DEF ConsoleGood

\* A step in printchar moves one writer, and only the interrupt while it runs.
LEMMA ConsoleMoves ==
    ASSUME ConsoleTypes, NEW w \in Writers, NEW l, Goto(w, l)
    PROVE  consolePc'[w] = l /\ \A v \in Writers \ {w} : consolePc'[v] = consolePc[v]
BY DEF ConsoleTypes, Goto

\* A writer that goes from one step of printchar to another, or out of it, leaves
\* one thread in it.
LEMMA OneThreadKept ==
    ASSUME ConsoleTypes, OneThread, NEW w \in Writers, ~Idle(w), NEW l, Goto(w, l)
    PROVE  OneThread'
BY ConsoleMoves DEF OneThread, Idle, Threads

LEMMA ConsolePrints ==
    ASSUME ConsoleGood, NEW w \in Writers, printchar(w), ~strayed'
    PROVE  ConsoleGood'
<1> USE ConsoleAssumption
<1>0. ConsoleTypes /\ OneThread /\ ColumnInside /\ RowInside /\ CellsInside
  BY DEF ConsoleGood
<1>a. /\ cursor_x \in Nat /\ cursor_y \in Nat /\ loaded[w] \in Nat
      /\ print_x[w] \in Nat /\ print_y[w] \in Nat
      /\ ConsoleWidth \in Nat /\ ConsoleHeight \in Nat /\ ConsoleWidth > 0 /\ ConsoleHeight > 0
  BY <1>0 DEF ConsoleTypes
<1>b. w # Irq => w \in Threads
  BY DEF Threads
<1>c. ASSUME w \in Threads, ~Idle(w)
      PROVE  \A v \in Threads \ {w} : consolePc[v] = "idle"
  BY <1>0, <1>c DEF OneThread, Idle
<1>d. w = Irq => consolePc[w] \in LetterPcs
  BY <1>0 DEF ConsoleTypes
<1>e. w # Irq /\ CanPrint(w) => consolePc[Irq] = "idle"
  BY DEF CanPrint, Idle
<1> USE DEF cursorVars, localVars, historyVars, escapeVars
<1>1. CASE NewlineReturn(w)
  <2>1. consolePc[w] = "return" /\ w \in Threads /\ ~Idle(w) /\ Goto(w, "down") /\ cursor_x' = 0
    BY <1>1, <1>b, <1>d DEF NewlineReturn, Step, LetterPcs, Idle
  <2>2. consolePc'[w] = "down" /\ \A v \in Writers \ {w} : consolePc'[v] = consolePc[v]
    BY <1>0, <2>1, ConsoleMoves
  <2>3. ConsoleTypes'
    BY <1>1, <1>0, <1>a, <2>1, <2>2 DEF NewlineReturn, Step, Goto, ConsoleTypes, Threads
  <2>4. OneThread'
    BY <1>0, <2>1, OneThreadKept
  <2>5. ColumnInside'
    BY <1>1, <1>0, <1>a, <1>c, <2>1, <2>2 DEF NewlineReturn, ColumnInside, ConsoleTypes, Threads
  <2>6. RowInside' /\ CellsInside'
    BY <1>1, <1>0, <2>1, <2>2 DEF NewlineReturn, RowInside, CellsInside, Threads
  <2> QED
    BY <2>3, <2>4, <2>5, <2>6 DEF ConsoleGood
<1>2. CASE NewlineDown(w)
  <2>1. consolePc[w] = "down" /\ w \in Threads /\ ~Idle(w) /\ Goto(w, "test")
    BY <1>2, <1>b, <1>d DEF NewlineDown, Step, LetterPcs, Idle
  <2>2. consolePc'[w] = "test" /\ \A v \in Writers \ {w} : consolePc'[v] = consolePc[v]
    BY <1>0, <2>1, ConsoleMoves
  <2>3. ConsoleTypes'
    BY <1>2, <1>0, <1>a, <2>1, <2>2 DEF NewlineDown, Step, Goto, ConsoleTypes, Threads, LetterPcs
  <2>4. OneThread'
    BY <1>0, <2>1, OneThreadKept
  <2>5. ColumnInside'
    BY <1>2, <1>0, <1>a, <1>c, <2>1, <2>2 DEF NewlineDown, ColumnInside, ConsoleTypes, Threads
  <2>6. RowInside' /\ CellsInside'
    BY <1>2, <1>0, <1>a, <1>c, <1>e, <2>1, <2>2 DEF NewlineDown, Step, RowInside, CellsInside, Threads
  <2> QED
    BY <2>3, <2>4, <2>5, <2>6 DEF ConsoleGood
<1>3. CASE NewlineTest(w)
  <2>1. /\ consolePc[w] = "test" /\ w \in Threads /\ ~Idle(w)
        /\ Goto(w, IF cursor_y >= ConsoleHeight THEN "up" ELSE "idle")
    BY <1>3, <1>b, <1>d DEF NewlineTest, Step, LetterPcs, Idle
  <2>2. consolePc'[w] \in {"up", "idle"} /\ \A v \in Writers \ {w} : consolePc'[v] = consolePc[v]
    BY <1>0, <2>1, ConsoleMoves
  <2>3. ConsoleTypes'
    BY <1>3, <1>0, <1>a, <2>1, <2>2 DEF NewlineTest, Step, Goto, ConsoleTypes, Threads, LetterPcs
  <2>4. OneThread'
    BY <1>0, <2>1, OneThreadKept
  <2>5. ColumnInside'
    BY <1>3, <1>0, <1>a, <1>c, <2>1, <2>2 DEF NewlineTest, ColumnInside, ConsoleTypes, Threads
  <2>6. RowInside' /\ CellsInside'
    BY <1>3, <1>0, <1>a, <1>c, <1>e, <2>1, <2>2 DEF NewlineTest, Step, RowInside, CellsInside, Threads
  <2> QED
    BY <2>3, <2>4, <2>5, <2>6 DEF ConsoleGood
<1>4. CASE NewlineUp(w)
  <2>1. consolePc[w] = "up" /\ w \in Threads /\ ~Idle(w) /\ Goto(w, "idle")
    BY <1>4, <1>b, <1>d DEF NewlineUp, Step, LetterPcs, Idle
  <2>2. consolePc'[w] = "idle" /\ \A v \in Writers \ {w} : consolePc'[v] = consolePc[v]
    BY <1>0, <2>1, ConsoleMoves
  <2>3. ConsoleTypes'
    BY <1>4, <1>0, <1>a, <2>1, <2>2 DEF NewlineUp, Step, Goto, ConsoleTypes, Threads, LetterPcs, Wrapped, Greatest
  <2>4. OneThread'
    BY <1>0, <2>1, OneThreadKept
  <2>5. ColumnInside'
    BY <1>4, <1>0, <1>a, <1>c, <2>1, <2>2 DEF NewlineUp, ColumnInside, ConsoleTypes, Threads, Wrapped, Greatest
  <2>6. RowInside' /\ CellsInside'
    BY <1>4, <1>0, <1>a, <1>c, <1>e, <2>1, <2>2 DEF NewlineUp, Step, RowInside, CellsInside, Threads, Wrapped, Greatest
  <2> QED
    BY <2>3, <2>4, <2>5, <2>6 DEF ConsoleGood
<1>5. CASE Tab(w)
  <2>1. consolePc[w] = "tab" /\ w \in Threads /\ ~Idle(w) /\ Goto(w, "idle")
    BY <1>5, <1>b, <1>d DEF Tab, Step, LetterPcs, Idle
  <2>2. consolePc'[w] = "idle" /\ \A v \in Writers \ {w} : consolePc'[v] = consolePc[v]
    BY <1>0, <2>1, ConsoleMoves
  <2>3. ConsoleTypes'
    BY <1>5, <1>0, <1>a, <2>1, <2>2 DEF Tab, Step, Goto, ConsoleTypes, Threads, LetterPcs, OnConsole
  <2>4. OneThread'
    BY <1>0, <2>1, OneThreadKept
  <2>5. ColumnInside'
    <3>1. cursor_x' < ConsoleWidth /\ cursor_x' \in Nat /\ loaded' = loaded
      BY <1>5, <2>3 DEF Tab, OnConsole, ConsoleTypes
    <3> QED
      BY <1>0, <1>a, <2>1, <2>2, <3>1 DEF ColumnInside, Threads
  <2>6. RowInside' /\ CellsInside'
    BY <1>5, <1>0, <1>a, <1>c, <1>e, <2>1, <2>2 DEF Tab, Step, RowInside, CellsInside, Threads, OnConsole
  <2> QED
    BY <2>3, <2>4, <2>5, <2>6 DEF ConsoleGood
<1>6. CASE Clamp_y(w)
  <2>1. consolePc[w] = "clamp" /\ ~Idle(w) /\ CanPrint(w) /\ Goto(w, "save")
    BY <1>6 DEF Clamp_y, Step, Idle
  <2>2. consolePc'[w] = "save" /\ \A v \in Writers \ {w} : consolePc'[v] = consolePc[v]
    BY <1>0, <2>1, ConsoleMoves
  <2>3. ConsoleTypes'
    BY <1>6, <1>0, <1>a, <2>1, <2>2 DEF Clamp_y, Step, Goto, ConsoleTypes, LetterPcs
  <2>4. OneThread'
    BY <1>0, <2>1, OneThreadKept
  <2>5. ColumnInside'
    <3>1. CASE w = Irq
      BY <1>6, <1>0, <1>a, <2>1, <2>2, <3>1 DEF Clamp_y, ColumnInside, ConsoleTypes, Threads
    <3>2. CASE w \in Threads
      BY <1>6, <1>0, <1>a, <1>c, <1>e, <2>1, <2>2, <3>2 DEF Clamp_y, ColumnInside, ConsoleTypes, Threads
    <3> QED
      BY <1>b, <3>1, <3>2
  <2>6. RowInside'
    <3>1. CASE w = Irq
      BY <1>6, <1>0, <1>a, <2>1, <2>2, <3>1 DEF Clamp_y, RowInside, Threads
    <3>2. CASE w \in Threads
      BY <1>6, <1>0, <1>a, <1>c, <1>e, <2>1, <2>2, <3>2 DEF Clamp_y, RowInside, Threads
    <3> QED
      BY <1>b, <3>1, <3>2
  <2>7. CellsInside'
    BY <1>6, <1>0, <1>a, <1>b, <1>c, <1>e, <2>1, <2>2
       DEF Clamp_y, CellsInside, ColumnInside, RowInside, ConsoleTypes, Threads
  <2> QED
    BY <2>3, <2>4, <2>5, <2>6, <2>7 DEF ConsoleGood
<1>7. CASE SavePosition(w)
  <2>1. consolePc[w] = "save" /\ ~Idle(w) /\ CanPrint(w) /\ Goto(w, "right")
    BY <1>7 DEF SavePosition, Step, Idle
  <2>2. consolePc'[w] = "right" /\ \A v \in Writers \ {w} : consolePc'[v] = consolePc[v]
    BY <1>0, <2>1, ConsoleMoves
  <2>3. ConsoleTypes'
    BY <1>7, <1>0, <1>a, <2>1, <2>2 DEF SavePosition, Step, Goto, ConsoleTypes, LetterPcs
  <2>4. OneThread'
    BY <1>0, <2>1, OneThreadKept
  <2>5. ColumnInside'
    <3>1. CASE w = Irq
      BY <1>7, <1>0, <1>a, <2>1, <2>2, <3>1 DEF SavePosition, ColumnInside, ConsoleTypes, Threads
    <3>2. CASE w \in Threads
      BY <1>7, <1>0, <1>a, <1>c, <1>e, <2>1, <2>2, <3>2 DEF SavePosition, ColumnInside, ConsoleTypes, Threads
    <3> QED
      BY <1>b, <3>1, <3>2
  <2>6. RowInside'
    <3>1. CASE w = Irq
      BY <1>7, <1>0, <1>a, <2>1, <2>2, <3>1 DEF SavePosition, RowInside, Threads
    <3>2. CASE w \in Threads
      BY <1>7, <1>0, <1>a, <1>c, <1>e, <2>1, <2>2, <3>2 DEF SavePosition, RowInside, Threads
    <3> QED
      BY <1>b, <3>1, <3>2
  <2>7. CellsInside'
    BY <1>7, <1>0, <1>a, <1>b, <1>c, <1>e, <2>1, <2>2
       DEF SavePosition, CellsInside, ColumnInside, RowInside, ConsoleTypes, Threads
  <2> QED
    BY <2>3, <2>4, <2>5, <2>6, <2>7 DEF ConsoleGood
<1>8. CASE Advance(w)
  <2>1. consolePc[w] = "right" /\ ~Idle(w) /\ CanPrint(w) /\ Goto(w, "wrap")
    BY <1>8 DEF Advance, Step, Idle
  <2>2. consolePc'[w] = "wrap" /\ \A v \in Writers \ {w} : consolePc'[v] = consolePc[v]
    BY <1>0, <2>1, ConsoleMoves
  <2>3. ConsoleTypes'
    BY <1>8, <1>0, <1>a, <2>1, <2>2 DEF Advance, Step, Goto, ConsoleTypes, LetterPcs
  <2>4. OneThread'
    BY <1>0, <2>1, OneThreadKept
  <2>5. ColumnInside'
    <3>1. CASE w = Irq
      BY <1>8, <1>0, <1>a, <2>1, <2>2, <3>1 DEF Advance, ColumnInside, ConsoleTypes, Threads
    <3>2. CASE w \in Threads
      BY <1>8, <1>0, <1>a, <1>c, <1>e, <2>1, <2>2, <3>2 DEF Advance, ColumnInside, ConsoleTypes, Threads
    <3> QED
      BY <1>b, <3>1, <3>2
  <2>6. RowInside'
    <3>1. CASE w = Irq
      BY <1>8, <1>0, <1>a, <2>1, <2>2, <3>1 DEF Advance, RowInside, Threads
    <3>2. CASE w \in Threads
      BY <1>8, <1>0, <1>a, <1>c, <1>e, <2>1, <2>2, <3>2 DEF Advance, RowInside, Threads
    <3> QED
      BY <1>b, <3>1, <3>2
  <2>7. CellsInside'
    BY <1>8, <1>0, <1>a, <1>b, <1>c, <1>e, <2>1, <2>2
       DEF Advance, CellsInside, ColumnInside, RowInside, ConsoleTypes, Threads
  <2> QED
    BY <2>3, <2>4, <2>5, <2>6, <2>7 DEF ConsoleGood
<1>9. CASE Wrap(w)
  <2>1. consolePc[w] = "wrap" /\ ~Idle(w) /\ CanPrint(w) /\ Goto(w, "render")
    BY <1>9 DEF Wrap, Step, Idle
  <2>2. consolePc'[w] = "render" /\ \A v \in Writers \ {w} : consolePc'[v] = consolePc[v]
    BY <1>0, <2>1, ConsoleMoves
  <2>3. ConsoleTypes'
    BY <1>9, <1>0, <1>a, <2>1, <2>2 DEF Wrap, Step, Goto, ConsoleTypes, LetterPcs
  <2>4. OneThread'
    BY <1>0, <2>1, OneThreadKept
  <2>5. ColumnInside'
    <3>1. CASE w = Irq
      BY <1>9, <1>0, <1>a, <2>1, <2>2, <3>1 DEF Wrap, ColumnInside, ConsoleTypes, Threads
    <3>2. CASE w \in Threads
      BY <1>9, <1>0, <1>a, <1>c, <1>e, <2>1, <2>2, <3>2 DEF Wrap, ColumnInside, ConsoleTypes, Threads
    <3> QED
      BY <1>b, <3>1, <3>2
  <2>6. RowInside'
    <3>1. CASE w = Irq
      BY <1>9, <1>0, <1>a, <2>1, <2>2, <3>1 DEF Wrap, RowInside, Threads
    <3>2. CASE w \in Threads
      BY <1>9, <1>0, <1>a, <1>c, <1>e, <2>1, <2>2, <3>2 DEF Wrap, RowInside, Threads
    <3> QED
      BY <1>b, <3>1, <3>2
  <2>7. CellsInside'
    BY <1>9, <1>0, <1>a, <1>b, <1>c, <1>e, <2>1, <2>2
       DEF Wrap, CellsInside, ColumnInside, RowInside, ConsoleTypes, Threads
  <2> QED
    BY <2>3, <2>4, <2>5, <2>6, <2>7 DEF ConsoleGood
<1>10. CASE render_char(w)
  <2>1. consolePc[w] = "render" /\ ~Idle(w) /\ CanPrint(w) /\ Goto(w, "idle")
    BY <1>10 DEF render_char, Step, Idle
  <2>2. consolePc'[w] = "idle" /\ \A v \in Writers \ {w} : consolePc'[v] = consolePc[v]
    BY <1>0, <2>1, ConsoleMoves
  <2>3. ConsoleTypes'
    BY <1>10, <1>0, <1>a, <2>1, <2>2 DEF render_char, Step, Goto, ConsoleTypes, LetterPcs
  <2>4. OneThread'
    BY <1>0, <2>1, OneThreadKept
  <2>5. ColumnInside'
    <3>1. CASE w = Irq
      BY <1>10, <1>0, <1>a, <2>1, <2>2, <3>1 DEF render_char, ColumnInside, ConsoleTypes, Threads
    <3>2. CASE w \in Threads
      BY <1>10, <1>0, <1>a, <1>c, <1>e, <2>1, <2>2, <3>2 DEF render_char, ColumnInside, ConsoleTypes, Threads
    <3> QED
      BY <1>b, <3>1, <3>2
  <2>6. RowInside'
    <3>1. CASE w = Irq
      BY <1>10, <1>0, <1>a, <2>1, <2>2, <3>1 DEF render_char, RowInside, Threads
    <3>2. CASE w \in Threads
      BY <1>10, <1>0, <1>a, <1>c, <1>e, <2>1, <2>2, <3>2 DEF render_char, RowInside, Threads
    <3> QED
      BY <1>b, <3>1, <3>2
  <2>7. CellsInside'
    BY <1>10, <1>0, <1>a, <1>b, <1>c, <1>e, <2>1, <2>2
       DEF render_char, CellsInside, ColumnInside, RowInside, ConsoleTypes, Threads
  <2> QED
    BY <2>3, <2>4, <2>5, <2>6, <2>7 DEF ConsoleGood
<1> QED
  BY <1>1, <1>2, <1>3, <1>4, <1>5, <1>6, <1>7, <1>8, <1>9, <1>10 DEF printchar

\* The parser: a sequence changes the cursor, at its end, to where it is on the
\* console; a call of printchar starts one thread, or the interrupt.
LEMMA ConsoleParses ==
    ASSUME ConsoleGood, NEW w \in Writers, ~strayed', ~overlapped',
           \/ \E c \in (IF w = Irq THEN {"letter"} ELSE Chars) : tty_write(w, c)
           \/ \E n \in Numbers : EscapeNumber(w, n)
    PROVE  ConsoleGood'
<1> USE ConsoleAssumption DEF cursorVars, localVars, historyVars, escapeVars
<1>0. ConsoleTypes /\ OneThread /\ ColumnInside /\ RowInside /\ CellsInside
  BY DEF ConsoleGood
<1>1. ASSUME NEW l \in {"clamp", "return", "tab"}, w = Irq => l = "clamp", PrintCalled(w, l)
      PROVE  ConsoleGood'
  <2>1. /\ consolePc[w] = "idle" /\ Goto(w, l)
        /\ w # Irq => \A v \in Writers : consolePc[v] = "idle"
        /\ UNCHANGED <<cursor_x, cursor_y, esc_x, esc_y, saved_x, saved_y, print_x, print_y, loaded, glyph>>
    BY <1>1 DEF PrintCalled, Takes, Idle
  <2>2. consolePc'[w] = l /\ \A v \in Writers \ {w} : consolePc'[v] = consolePc[v]
    BY <1>0, <2>1, ConsoleMoves
  <2>3. ConsoleTypes'
    BY <1>0, <1>1, <2>1, <2>2 DEF ConsoleTypes, Goto, LetterPcs
  <2>4. OneThread'
    BY <1>0, <2>1, <2>2 DEF OneThread, Idle, Threads
  <2>5. ColumnInside' /\ RowInside' /\ CellsInside'
    BY <1>0, <1>1, <2>1, <2>2 DEF ColumnInside, RowInside, CellsInside, Threads
  <2> QED
    BY <2>3, <2>4, <2>5 DEF ConsoleGood
<1>2. ASSUME UNCHANGED <<cursor_x, cursor_y, consolePc, print_x, print_y, loaded, glyph>>,
             esc_x' \in Nat, esc_y' \in Nat, UNCHANGED <<saved_x, saved_y>>
      PROVE  ConsoleGood'
  <2>1. OneThread'
    BY <1>0, <1>2 DEF OneThread, Idle
  <2> QED
    BY <1>0, <1>2, <2>1 DEF ConsoleGood, ConsoleTypes, ColumnInside, RowInside, CellsInside
<1>3. ASSUME NEW c \in Chars, EscapeEnds(w, c) PROVE ConsoleGood'
  <2>1. /\ cursor_x' = CursorAfter(c)[1] /\ cursor_y' = CursorAfter(c)[2]
        /\ cursor_x' < ConsoleWidth /\ cursor_y' < ConsoleHeight
        /\ saved_x' \in {cursor_x, saved_x} /\ saved_y' \in {cursor_y, saved_y}
        /\ UNCHANGED <<esc_x, esc_y, consolePc, print_x, print_y, loaded, glyph>>
        /\ consolePc[Irq] = "idle"
    BY <1>3 DEF EscapeEnds, OnConsole, InEscape, Takes, Idle, CanPrint
  <2>2. cursor_x' \in Nat /\ cursor_y' \in Nat
    <3>1. /\ cursor_x \in Nat /\ cursor_y \in Nat /\ esc_x \in Nat /\ esc_y \in Nat
          /\ saved_x \in Nat /\ saved_y \in Nat
      BY <1>0 DEF ConsoleTypes
    <3>2. CursorAfter(c) \in Nat \X Nat
      BY <3>1 DEF CursorAfter, Larger, Smaller
    <3> QED
      BY <2>1, <3>2
  <2>3. ConsoleTypes'
    BY <1>0, <2>1, <2>2 DEF ConsoleTypes
  <2>4. OneThread'
    BY <1>0, <2>1 DEF OneThread, Idle
  <2>5. ColumnInside' /\ RowInside' /\ CellsInside'
    BY <1>0, <2>1, <2>2 DEF ColumnInside, RowInside, CellsInside
  <2> QED
    BY <2>3, <2>4, <2>5 DEF ConsoleGood
<1>4. esc_x \in Nat /\ esc_y \in Nat
  BY <1>0 DEF ConsoleTypes
<1>5. ASSUME NEW n \in Numbers, EscapeNumber(w, n) PROVE ConsoleGood'
  BY <1>2, <1>4, <1>5 DEF EscapeNumber
<1>6. ASSUME NEW c \in Chars, tty_write(w, c), w = Irq => c = "letter" PROVE ConsoleGood'
  <2>1. CASE EscapeStarts(w)
    BY <1>2, <2>1 DEF EscapeStarts
  <2>2. CASE EscapeWaits(w, c)
    BY <1>2, <1>4, <2>2 DEF EscapeWaits
  <2>3. CASE EscapeSecond(w)
    BY <1>2, <1>4, <2>3 DEF EscapeSecond
  <2> QED
    BY <1>1, <1>3, <1>6, <2>1, <2>2, <2>3 DEF tty_write
<1>7. "letter" \in Chars
  BY DEF Chars
<1> QED
  BY <1>5, <1>6, <1>7

LEMMA ConsoleKeeps == ConsoleInv /\ [ConsoleNext]_consoleVars => ConsoleInv'
<1> SUFFICES ASSUME ConsoleInv, [ConsoleNext]_consoleVars, ~strayed', ~overlapped' PROVE ConsoleGood'
  BY DEF ConsoleInv
<1> USE DEF cursorVars, localVars, historyVars, escapeVars
<1>1. CASE UNCHANGED consoleVars
  <2>1. ConsoleGood
    BY <1>1 DEF consoleVars, ConsoleInv
  <2>2. OneThread'
    BY <1>1, <2>1 DEF consoleVars, ConsoleGood, OneThread, Idle
  <2> QED
    BY <1>1, <2>1, <2>2
       DEF consoleVars, ConsoleGood, ConsoleTypes, ColumnInside, RowInside, CellsInside
<1>2. ASSUME NEW w \in Writers, printchar(w) PROVE ConsoleGood'
  <2>1. ASSUME Tab(w) PROVE ~strayed /\ ~overlapped
    BY <2>1 DEF Tab
  <2>2. ASSUME ~Tab(w) PROVE ~strayed /\ ~overlapped
    <3>1. UNCHANGED <<strayed, overlapped>>
      BY <1>2, <2>2 DEF printchar, NewlineReturn, NewlineDown, NewlineTest, NewlineUp, Clamp_y,
                        SavePosition, Advance, Wrap, render_char
    <3> QED
      BY <3>1
  <2>3. ~strayed /\ ~overlapped
    BY <2>1, <2>2
  <2> QED
    BY <1>2, <2>3, ConsolePrints DEF ConsoleInv
<1>3. ASSUME NEW w \in Writers,
             \/ \E c \in (IF w = Irq THEN {"letter"} ELSE Chars) : tty_write(w, c)
             \/ \E n \in Numbers : EscapeNumber(w, n)
      PROVE  ConsoleGood'
  <2>1. ASSUME NEW l, PrintCalled(w, l) PROVE ~strayed /\ ~overlapped
    BY <2>1 DEF PrintCalled
  <2>2. ASSUME NEW c, EscapeEnds(w, c) PROVE ~strayed /\ ~overlapped
    BY <2>2 DEF EscapeEnds
  <2>3. ASSUME UNCHANGED <<strayed, overlapped>> PROVE ~strayed /\ ~overlapped
    BY <2>3
  <2>4. ~strayed /\ ~overlapped
    BY <1>3, <2>1, <2>2, <2>3
       DEF tty_write, EscapeStarts, EscapeWaits, EscapeSecond, EscapeNumber
  <2> QED
    BY <1>3, <2>4, ConsoleParses DEF ConsoleInv
<1> QED
  BY <1>1, <1>2, <1>3 DEF ConsoleNext

\* printchar draws inside the framebuffer, whatever the keyboard interrupt prints
\* between its steps: the cursor may be one cell behind the edge when a glyph is
\* placed, which render_char clips, and never further.
THEOREM InsideGlyphs == ConsoleSpec => []GlyphInside
<1>1. ConsoleSpec => []ConsoleInv
  BY ConsoleStart, ConsoleKeeps, PTL DEF ConsoleSpec
<1>2. ConsoleInv => GlyphInside
  BY DEF ConsoleInv, ConsoleGood, CellsInside, GlyphInside
<1> QED
  BY <1>1, <1>2, PTL

-----------------------------------------------------------------------------
(* The mouse. *)

Byte == [packet : Nat, part : 0 .. 3, move : Moves \cup {0}]

\* The bytes that the handler has and those that it will get, as one stream.
StreamLen == Len(fragments) + Len(mouseBytes)
StreamAt(i) == IF i <= Len(fragments) THEN fragments[i] ELSE mouseBytes[i - Len(fragments)]

\* The place in its packet that the handler gives the byte before the stream.
Base == IF skip = 1 THEN 0 ELSE 1

MouseTypes ==
    /\ mousePc \in {"F6", "read_F6", "F4", "read_F4", "on"}
    /\ answers \in 0 .. 2 /\ leftOver \in 0 .. 2 /\ skip \in {0, 1} /\ packets \in Nat
    /\ mouseBytes \in Seq(Byte) /\ fragments \in Seq(Byte)
    /\ Len(fragments) <= 2 /\ (skip = 1 => Len(fragments) = 0)
    /\ mouse_x \in Int /\ pointer \in Int

\* INIT_PS2_MOUSE: at most two answers are on their way, and nothing else is.
MouseStarting ==
    mousePc # "on" =>
        /\ skip = 1 /\ decoded = <<>> /\ mouse_x = 0 /\ pointer = 0
        /\ \A i \in 1 .. Len(mouseBytes) : mouseBytes[i] = Answer
        /\ mousePc = "F6" => answers + Len(mouseBytes) = 0
        /\ mousePc = "read_F6" => answers + Len(mouseBytes) = 1
        /\ mousePc = "F4" => answers + Len(mouseBytes) <= 1
        /\ mousePc = "read_F4" => answers + Len(mouseBytes) \in 1 .. 2

\* The answers left over come first, then whole packets: the part of a byte and
\* the place that the handler gives it differ by the answers left over.
StreamAligned ==
    \A i \in 1 .. StreamLen :
        /\ StreamAt(i).part = 0 => i + Base <= leftOver
        /\ StreamAt(i).part # 0 => (i + Base - leftOver - StreamAt(i).part) % 3 = 0
        /\ skip = 1 /\ i <= leftOver => StreamAt(i).part = 0
        /\ StreamAt(i).part \in {1, 2} /\ i < StreamLen =>
             StreamAt(i + 1) = [StreamAt(i) EXCEPT !.part = @ + 1]

StreamWhole ==
    /\ answers > 0 => StreamLen + Base + answers = leftOver
    /\ answers = 0 => (StreamLen + Base - leftOver) % 3 = 0
    /\ answers = 0 /\ skip = 1 => StreamLen >= leftOver

\* What the handler took for a packet.
DecodedAligned ==
    /\ leftOver = 1 /\ decoded # <<>> => \A i \in 1 .. 3 : decoded[i] = [decoded[1] EXCEPT !.part = i]
    /\ leftOver # 1 /\ decoded # <<>> => decoded[1].part # 1

\* The positions on the way from that of the pointer to that of the mouse, byte
\* by byte of the stream.
Positions(T) ==
    /\ T[0] = mouse_x /\ T[StreamLen] = pointer
    /\ \A i \in 1 .. StreamLen :
         T[i] = IF StreamAt(i).part = 3 THEN Moved(T[i - 1], StreamAt(i).move) ELSE T[i - 1]

MouseOnItsWay == leftOver = 1 /\ ~mouseLost => \E T \in [Nat -> Int] : Positions(T)

MouseInv ==
    /\ MouseTypes /\ MouseStarting
    /\ mousePc = "on" => StreamAligned /\ StreamWhole /\ DecodedAligned /\ MouseOnItsWay

LEMMA MouseStart == MouseInit => MouseInv
BY DEF MouseInit, MouseInv, MouseTypes, MouseStarting

LEMMA AnswerByte == Answer \in Byte /\ Answer.part = 0
BY DEF Answer, Byte

LEMMA MovedInt ==
    ASSUME NEW x \in Int, NEW move \in Moves \cup {0}
    PROVE  Moved(x, move) \in Int
BY MouseAssumption DEF Moved, Clamp

LEMMA SequenceTaken ==
    ASSUME NEW S, NEW s \in Seq(S), s # <<>>
    PROVE  /\ Len(s) \in Nat /\ Len(s) >= 1
           /\ Head(s) = s[1] /\ Head(s) \in S
           /\ Tail(s) \in Seq(S) /\ Len(Tail(s)) = Len(s) - 1
           /\ \A i \in 1 .. (Len(s) - 1) : Tail(s)[i] = s[i + 1]
<1>1. Len(s) \in Nat /\ Len(s) >= 1
  BY EmptySeq, LenProperties
<1>2. Head(s) = s[1]
  OBVIOUS
<1> QED
  BY <1>1, <1>2, HeadTailProperties

LEMMA StreamTypes ==
    ASSUME MouseTypes
    PROVE  StreamLen \in Nat /\ \A i \in 1 .. StreamLen : StreamAt(i) \in Byte
<1>1. /\ Len(fragments) \in Nat /\ Len(mouseBytes) \in Nat
      /\ \A i \in 1 .. Len(fragments) : fragments[i] \in Byte
      /\ \A i \in 1 .. Len(mouseBytes) : mouseBytes[i] \in Byte
  BY LenProperties, ElementOfSeq DEF MouseTypes
<1> QED
  BY <1>1 DEF StreamLen, StreamAt

\* The mouse sends a byte or three: the stream grows at its end.
LEMMA StreamGrows ==
    ASSUME MouseTypes, NEW more \in Seq(Byte), UNCHANGED fragments, mouseBytes' = mouseBytes \o more
    PROVE  /\ StreamLen' = StreamLen + Len(more)
           /\ \A i \in 1 .. StreamLen : StreamAt(i)' = StreamAt(i)
           /\ \A i \in (StreamLen + 1) .. (StreamLen + Len(more)) : StreamAt(i)' = more[i - StreamLen]
<1>1. /\ Len(fragments) \in Nat /\ Len(mouseBytes) \in Nat /\ Len(more) \in Nat
      /\ Len(mouseBytes') = Len(mouseBytes) + Len(more)
      /\ \A i \in 1 .. (Len(mouseBytes) + Len(more)) :
           mouseBytes'[i] = IF i <= Len(mouseBytes) THEN mouseBytes[i] ELSE more[i - Len(mouseBytes)]
  BY LenProperties, ConcatProperties DEF MouseTypes
<1>2. ASSUME NEW i \in 1 .. StreamLen PROVE StreamAt(i)' = StreamAt(i)
  BY <1>1 DEF StreamAt, StreamLen
<1>3. ASSUME NEW i \in (StreamLen + 1) .. (StreamLen + Len(more)) PROVE StreamAt(i)' = more[i - StreamLen]
  <2>1. /\ ~(i <= Len(fragments))
        /\ i - Len(fragments) \in 1 .. (Len(mouseBytes) + Len(more))
        /\ ~(i - Len(fragments) <= Len(mouseBytes))
        /\ (i - Len(fragments)) - Len(mouseBytes) = i - StreamLen
    BY <1>1 DEF StreamLen
  <2>2. StreamAt(i)' = mouseBytes'[i - Len(fragments)]
    BY <2>1 DEF StreamAt
  <2> QED
    BY <1>1, <2>1, <2>2
<1> QED
  BY <1>1, <1>2, <1>3 DEF StreamLen

\* The handler throws the first byte away.
LEMMA StreamSkips ==
    ASSUME MouseTypes, Len(fragments) = 0, UNCHANGED fragments, mouseBytes # <<>>,
           mouseBytes' = Tail(mouseBytes)
    PROVE  /\ StreamLen >= 1 /\ StreamLen' = StreamLen - 1
           /\ \A i \in 1 .. (StreamLen - 1) : StreamAt(i)' = StreamAt(i + 1)
<1>1. /\ Len(mouseBytes) \in Nat /\ Len(mouseBytes) >= 1 /\ Len(mouseBytes') = Len(mouseBytes) - 1
      /\ \A i \in 1 .. (Len(mouseBytes) - 1) : mouseBytes'[i] = mouseBytes[i + 1]
  BY SequenceTaken DEF MouseTypes
<1> QED
  BY <1>1 DEF StreamLen, StreamAt

\* The handler keeps the first byte: the stream is the same.
LEMMA StreamKeeps ==
    ASSUME MouseTypes, mouseBytes # <<>>, mouseBytes' = Tail(mouseBytes),
           fragments' = Append(fragments, Head(mouseBytes))
    PROVE  StreamLen' = StreamLen /\ \A i \in 1 .. StreamLen : StreamAt(i)' = StreamAt(i)
<1>1. /\ Len(mouseBytes) >= 1 /\ Len(mouseBytes') = Len(mouseBytes) - 1
      /\ \A i \in 1 .. (Len(mouseBytes) - 1) : mouseBytes'[i] = mouseBytes[i + 1]
      /\ Head(mouseBytes) = mouseBytes[1]
      /\ Len(mouseBytes) \in Nat /\ Len(fragments) \in Nat /\ Head(mouseBytes) \in Byte
  BY SequenceTaken, LenProperties DEF MouseTypes
<1>2. /\ Len(fragments') = Len(fragments) + 1
      /\ \A i \in 1 .. Len(fragments) : fragments'[i] = fragments[i]
      /\ fragments'[Len(fragments) + 1] = mouseBytes[1]
  <2>1. fragments \in Seq(Byte) /\ Head(mouseBytes) \in Byte
    BY <1>1 DEF MouseTypes
  <2> QED
    BY <1>1, <2>1, AppendProperties
<1>3. StreamLen' = StreamLen
  BY <1>1, <1>2 DEF StreamLen
<1>4. ASSUME NEW i \in 1 .. StreamLen PROVE StreamAt(i)' = StreamAt(i)
  <2>1. CASE i <= Len(fragments)
    BY <1>1, <1>2, <2>1 DEF StreamAt, StreamLen
  <2>2. CASE i = Len(fragments) + 1
    BY <1>1, <1>2, <2>2 DEF StreamAt, StreamLen
  <2>3. CASE i > Len(fragments) + 1
    <3>1. /\ i - (Len(fragments) + 1) \in 1 .. (Len(mouseBytes) - 1)
          /\ (i - (Len(fragments) + 1)) + 1 = i - Len(fragments)
      BY <1>1, <2>3 DEF StreamLen
    <3>2. StreamAt(i)' = mouseBytes'[i - (Len(fragments) + 1)]
      BY <1>1, <1>2, <2>3 DEF StreamAt, StreamLen
    <3> QED
      BY <1>1, <2>3, <3>1, <3>2 DEF StreamAt, StreamLen
  <2> QED
    BY <1>1, <2>1, <2>2, <2>3 DEF StreamLen
<1> QED
  BY <1>3, <1>4

\* all is q with h behind it.
Appended(q, h, all) ==
    /\ all \in Seq(Byte) /\ Len(all) = Len(q) + 1 /\ all[Len(q) + 1] = h
    /\ \A i \in 1 .. Len(q) : all[i] = q[i]

\* Append puts an element behind the others.
LEMMA AppendedIs ==
    ASSUME NEW q \in Seq(Byte), NEW h \in Byte
    PROVE  Appended(q, h, Append(q, h))
<1> HIDE DEF Byte
<1> QED
  BY AppendProperties DEF Appended

\* The handler takes the first three bytes for a packet.
LEMMA StreamPacket ==
    ASSUME MouseTypes, mouseBytes # <<>>, mouseBytes' = Tail(mouseBytes), Len(fragments) = 2,
           fragments' = <<>>, NEW all, all = Append(fragments, Head(mouseBytes))
    PROVE  /\ StreamLen >= 3 /\ StreamLen' = StreamLen - 3
           /\ all[1] = StreamAt(1) /\ all[2] = StreamAt(2) /\ all[3] = StreamAt(3) /\ all # <<>>
           /\ \A i \in 1 .. (StreamLen - 3) : StreamAt(i)' = StreamAt(i + 3)
<1>1. /\ Len(mouseBytes) >= 1 /\ Len(mouseBytes') = Len(mouseBytes) - 1
      /\ \A i \in 1 .. (Len(mouseBytes) - 1) : mouseBytes'[i] = mouseBytes[i + 1]
      /\ Head(mouseBytes) = mouseBytes[1]
      /\ Len(mouseBytes) \in Nat /\ Head(mouseBytes) \in Byte
  BY SequenceTaken DEF MouseTypes
<1>2. StreamAt(1) = fragments[1] /\ StreamAt(2) = fragments[2] /\ StreamAt(3) = mouseBytes[1]
  BY <1>1 DEF StreamAt
<1>3. all[1] = fragments[1] /\ all[2] = fragments[2] /\ all[3] = mouseBytes[1] /\ all # <<>>
  <2>1. fragments \in Seq(Byte) /\ Head(mouseBytes) \in Byte
    BY <1>1 DEF MouseTypes
  <2>2. /\ all \in Seq(Byte) /\ Len(all) = Len(fragments) + 1
        /\ \A i \in 1 .. Len(fragments) : all[i] = fragments[i]
        /\ all[Len(fragments) + 1] = mouseBytes[1]
    <3>1. Appended(fragments, Head(mouseBytes), all)
      BY <2>1, AppendedIs, Zenon
    <3> QED
      BY <1>1, <3>1, Zenon DEF Appended
  <2> QED
    BY <2>2
<1>4. Len(fragments') = 0
  OBVIOUS
<1>5. ASSUME NEW i \in 1 .. (StreamLen - 3) PROVE StreamAt(i)' = StreamAt(i + 3)
  <2>1. i \in 1 .. (Len(mouseBytes) - 1)
    BY <1>1 DEF StreamLen
  <2>2. StreamAt(i)' = mouseBytes'[i]
    BY <1>1, <1>4, <2>1 DEF StreamAt
  <2>3. StreamAt(i + 3) = mouseBytes[i + 1]
    <3>1. ~(i + 3 <= 2) /\ i + 3 - 2 = i + 1
      BY <2>1, <1>1
    <3> QED
      BY <3>1 DEF StreamAt
  <2> QED
    BY <1>1, <2>1, <2>2, <2>3
<1>6. StreamLen >= 3 /\ StreamLen' = StreamLen - 3
  BY <1>1, <1>4 DEF StreamLen
<1> QED
  BY <1>2, <1>3, <1>5, <1>6

\* INIT_PS2_MOUSE: a command.
LEMMA MouseInitWrite == MouseInv /\ InitWrite => MouseInv'
<1> SUFFICES ASSUME MouseInv, InitWrite PROVE MouseInv'
  OBVIOUS
<1>1. Len(mouseBytes) \in Nat /\ answers \in 0 .. 2
  BY LenProperties DEF MouseInv, MouseTypes
<1>2. mousePc \in {"F6", "F4"} /\ mousePc' = IF mousePc = "F6" THEN "read_F6" ELSE "read_F4"
  BY DEF InitWrite
<1>3. MouseStarting /\ MouseTypes
  BY DEF MouseInv
<1>4. answers + Len(mouseBytes) <= 1 /\ (mousePc = "F6" => answers + Len(mouseBytes) = 0)
  BY <1>1, <1>2, <1>3 DEF MouseStarting
<1>5. UNCHANGED <<mouseBytes, skip, fragments, mouse_x, decoded, packets, leftOver, pointer>> /\ answers' = answers + 1
  BY DEF InitWrite, handlerVars
<1>6. MouseTypes'
  BY <1>1, <1>2, <1>3, <1>4, <1>5 DEF MouseTypes
<1>7. MouseStarting'
  BY <1>1, <1>2, <1>3, <1>4, <1>5 DEF MouseStarting
<1> QED
  BY <1>2, <1>6, <1>7 DEF MouseInv

\* INIT_PS2_MOUSE: a read.  After the second the stream is what is left over.
LEMMA MouseInitRead == MouseInv /\ InitRead => MouseInv'
<1> SUFFICES ASSUME MouseInv, InitRead PROVE MouseInv'
  OBVIOUS
<1>0. MouseTypes /\ MouseStarting
  BY DEF MouseInv
<1>1. /\ mousePc \in {"read_F6", "read_F4"}
      /\ mousePc' = IF mousePc = "read_F6" THEN "F4" ELSE "on"
      /\ UNCHANGED <<answers, skip, fragments, mouse_x, decoded, packets, pointer, mouseLost>>
      /\ leftOver' = IF mousePc = "read_F4" THEN answers + Len(mouseBytes') ELSE leftOver
      /\ mouseBytes' = IF mouseBytes = <<>> THEN <<>> ELSE Tail(mouseBytes)
  BY DEF InitRead, handlerVars
<1>2. /\ Len(mouseBytes) \in Nat /\ answers \in Nat /\ skip = 1 /\ Len(fragments) = 0 /\ decoded = <<>>
      /\ mouse_x = 0 /\ pointer = 0
      /\ \A i \in 1 .. Len(mouseBytes) : mouseBytes[i] = Answer
      /\ answers + Len(mouseBytes) <= 2
      /\ mousePc = "read_F6" => answers + Len(mouseBytes) = 1
  BY <1>0, <1>1, LenProperties DEF MouseTypes, MouseStarting
<1>3. /\ mouseBytes' \in Seq(Byte) /\ Len(mouseBytes') \in Nat /\ Len(mouseBytes') <= Len(mouseBytes)
      /\ \A i \in 1 .. Len(mouseBytes') : mouseBytes'[i] = Answer
  <2>1. CASE mouseBytes = <<>>
    BY <1>1, <1>2, <2>1
  <2>2. CASE mouseBytes # <<>>
    <3>1. /\ mouseBytes' = Tail(mouseBytes) /\ Tail(mouseBytes) \in Seq(Byte)
          /\ Len(Tail(mouseBytes)) = Len(mouseBytes) - 1 /\ Len(mouseBytes) >= 1
          /\ \A i \in 1 .. (Len(mouseBytes) - 1) : Tail(mouseBytes)[i] = mouseBytes[i + 1]
      BY <1>0, <1>1, <2>2, SequenceTaken DEF MouseTypes
    <3> QED
      BY <1>2, <3>1
  <2> QED
    BY <2>1, <2>2
<1>4. answers + Len(mouseBytes') \in 0 .. 2 /\ (mousePc = "read_F6" => answers + Len(mouseBytes') <= 1)
  BY <1>2, <1>3
<1>5. MouseTypes'
  BY <1>0, <1>1, <1>3, <1>4 DEF MouseTypes
<1>6. MouseStarting'
  BY <1>1, <1>2, <1>3, <1>4 DEF MouseStarting
<1>7. ASSUME mousePc' = "on"
      PROVE  StreamAligned' /\ StreamWhole' /\ DecodedAligned' /\ MouseOnItsWay'
  <2>1. leftOver' = answers' + Len(mouseBytes') /\ skip' = 1 /\ Len(fragments') = 0
    BY <1>1, <1>2, <1>7
  <2>2. StreamLen' = Len(mouseBytes') /\ \A i \in 1 .. Len(mouseBytes') : StreamAt(i)' = Answer
    BY <1>3, <2>1 DEF StreamLen, StreamAt
  <2>3. Base' = 0
    BY <2>1 DEF Base
  <2>4. StreamAligned'
    <3>1. ASSUME NEW i \in 1 .. Len(mouseBytes')
          PROVE  /\ StreamAt(i)'.part = 0
                 /\ i + 0 <= leftOver'
      BY <1>1, <1>2, <1>3, <2>1, <2>2, AnswerByte
    <3> QED
      BY <2>2, <2>3, <3>1 DEF StreamAligned
  <2>5. StreamWhole'
    BY <1>1, <1>2, <1>3, <2>1, <2>2, <2>3 DEF StreamWhole
  <2>6. DecodedAligned'
    BY <1>1, <1>2 DEF DecodedAligned
  <2>7. MouseOnItsWay'
    <3> DEFINE T == [i \in Nat |-> 0]
    <3>1. T \in [Nat -> Int] /\ T[StreamLen'] = 0 /\ T[0] = 0
      BY <1>3, <2>2
    <3>2. \A i \in 1 .. StreamLen' : StreamAt(i)'.part # 3 /\ T[i] = 0 /\ T[i - 1] = 0
      BY <1>3, <2>2, AnswerByte
    <3>3. mouse_x' = 0 /\ pointer' = 0
      BY <1>1, <1>2
    <3> HIDE DEF T
    <3>4. Positions(T)'
      BY <3>1, <3>2, <3>3 DEF Positions
    <3> QED
      BY <3>1, <3>4 DEF MouseOnItsWay
  <2> QED
    BY <2>4, <2>5, <2>6, <2>7
<1> QED
  BY <1>5, <1>6, <1>7 DEF MouseInv

LEMMA MouseAnswer == MouseInv /\ MouseAnswers => MouseInv'
<1> SUFFICES ASSUME MouseInv, MouseAnswers PROVE MouseInv'
  OBVIOUS
<1>0. MouseTypes /\ MouseStarting
  BY DEF MouseInv
<1>1. /\ answers > 0 /\ answers' = answers - 1 /\ mouseBytes' = Append(mouseBytes, Answer)
      /\ UNCHANGED <<mousePc, skip, fragments, mouse_x, decoded, packets, leftOver, mouseLost, pointer>>
  BY DEF MouseAnswers, handlerVars
<1>2. /\ mouseBytes' \in Seq(Byte) /\ Len(mouseBytes') = Len(mouseBytes) + 1
      /\ \A i \in 1 .. Len(mouseBytes) : mouseBytes'[i] = mouseBytes[i]
      /\ mouseBytes'[Len(mouseBytes) + 1] = Answer
      /\ Len(mouseBytes) \in Nat /\ answers \in 0 .. 2
  <2>1. mouseBytes \in Seq(Byte) /\ answers \in 0 .. 2
    BY <1>0 DEF MouseTypes
  <2> QED
    BY <1>1, <2>1, AnswerByte, AppendProperties, LenProperties
<1>3. MouseTypes'
  BY <1>0, <1>1, <1>2 DEF MouseTypes
<1>4. MouseStarting'
  BY <1>0, <1>1, <1>2 DEF MouseStarting
<1>5. ASSUME mousePc = "on"
      PROVE  StreamAligned' /\ StreamWhole' /\ DecodedAligned' /\ MouseOnItsWay'
  <2>0. StreamAligned /\ StreamWhole /\ DecodedAligned /\ MouseOnItsWay
    BY <1>5 DEF MouseInv
  <2>1. StreamLen \in Nat /\ Base \in {0, 1} /\ Base' = Base /\ leftOver \in Nat
    BY <1>0, <1>1, StreamTypes DEF Base, MouseTypes
  <2>2. /\ StreamLen' = StreamLen + 1
        /\ \A i \in 1 .. StreamLen : StreamAt(i)' = StreamAt(i)
        /\ \A i \in 1 .. (StreamLen + 1) : i > StreamLen => StreamAt(i)' = Answer
    <3>1. Len(fragments) \in Nat
      BY <1>0, LenProperties DEF MouseTypes
    <3>2. StreamLen' = StreamLen + 1
      BY <1>1, <1>2, <3>1 DEF StreamLen
    <3>3. \A i \in 1 .. StreamLen : StreamAt(i)' = StreamAt(i)
      BY <1>1, <1>2, <3>1 DEF StreamLen, StreamAt
    <3>4. ASSUME NEW i \in 1 .. (StreamLen + 1), i > StreamLen PROVE StreamAt(i)' = Answer
      <4>1. ~(i <= Len(fragments)) /\ i - Len(fragments) = Len(mouseBytes) + 1
        BY <1>2, <3>1, <3>4 DEF StreamLen
      <4>2. StreamAt(i)' = mouseBytes'[i - Len(fragments)]
        BY <1>1, <4>1 DEF StreamAt
      <4> QED
        BY <1>2, <4>1, <4>2
    <3> QED
      BY <3>2, <3>3, <3>4
  <2>3. StreamLen + Base + answers = leftOver
    BY <1>1, <2>0 DEF StreamWhole
  <2>4. \A i \in 1 .. StreamLen : StreamAt(i).part = 0
    <3> TAKE i \in 1 .. StreamLen
    <3>1. CASE skip = 1
      <4>1. i <= leftOver
        BY <1>2, <2>1, <2>3
      <4> QED
        BY <2>0, <3>1, <4>1 DEF StreamAligned
    <3>2. CASE skip # 1
      <4>1. Base = 1 /\ leftOver <= 2
        BY <1>0, <3>2 DEF Base, MouseTypes
      <4> QED
        BY <1>1, <1>2, <2>1, <2>3, <4>1
    <3> QED
      BY <3>1, <3>2
  <2>5. \A i \in 1 .. StreamLen' : StreamAt(i)'.part = 0 /\ i + Base' <= leftOver'
    <3>1. ASSUME NEW i \in 1 .. StreamLen' PROVE StreamAt(i)'.part = 0 /\ i + Base' <= leftOver'
      <4>1. CASE i > StreamLen
        BY <1>1, <1>2, <2>1, <2>2, <2>3, <4>1, AnswerByte
      <4>2. CASE ~(i > StreamLen)
        BY <1>1, <1>2, <2>1, <2>2, <2>3, <2>4, <4>2
      <4> QED
        BY <4>1, <4>2
    <3> QED
      BY <3>1
  <2>6. StreamAligned'
    BY <2>5 DEF StreamAligned
  <2>7. StreamWhole'
    BY <1>1, <1>2, <2>1, <2>2, <2>3 DEF StreamWhole, Base
  <2>8. DecodedAligned'
    BY <1>1, <2>0 DEF DecodedAligned
  <2>9. MouseOnItsWay'
    <3> SUFFICES ASSUME leftOver = 1, ~mouseLost PROVE \E T \in [Nat -> Int] : Positions(T)'
      BY <1>1 DEF MouseOnItsWay
    <3>1. PICK T \in [Nat -> Int] : Positions(T)
      BY <2>0 DEF MouseOnItsWay
    <3>2. StreamLen = 0
      BY <1>1, <1>2, <2>1, <2>3
    <3> DEFINE U == [i \in Nat |-> T[0]]
    <3>3. T[0] = mouse_x /\ T[0] = pointer /\ mouse_x \in Int
      BY <1>0, <3>1, <3>2 DEF Positions, MouseTypes
    <3>4. U \in [Nat -> Int] /\ U[0] = T[0] /\ U[1] = T[0]
      OBVIOUS
    <3>5. StreamAt(1)'.part = 0 /\ StreamLen' = 1
      BY <2>2, <2>5, <3>2
    <3> HIDE DEF U
    <3>6. Positions(U)'
      BY <1>1, <3>3, <3>4, <3>5 DEF Positions
    <3> QED
      BY <3>4, <3>6
  <2> QED
    BY <2>6, <2>7, <2>8, <2>9
<1> QED
  BY <1>1, <1>3, <1>4, <1>5 DEF MouseInv

LEMMA PacketSeq ==
    ASSUME NEW n \in Nat, NEW move \in Moves
    PROVE  LET packet == [i \in 1 .. 3 |-> [packet |-> n + 1, part |-> i, move |-> move]]
           IN  /\ packet \in Seq(Byte) /\ Len(packet) = 3
               /\ \A i \in 1 .. 3 : packet[i] = [packet |-> n + 1, part |-> i, move |-> move]
<1> DEFINE packet == [i \in 1 .. 3 |-> [packet |-> n + 1, part |-> i, move |-> move]]
<1>1. \A i \in 1 .. 3 : packet[i] \in Byte
  BY DEF Byte
<1>2. packet \in Seq(Byte)
  BY <1>1
<1>3. Len(packet) = 3
  OBVIOUS
<1> QED
  BY <1>2, <1>3

LEMMA MouseMove == ASSUME NEW move \in Moves, MouseInv, MouseMoves(move) PROVE MouseInv'
<1> DEFINE packet == [i \in 1 .. 3 |-> [packet |-> packets + 1, part |-> i, move |-> move]]
<1>0. /\ MouseTypes /\ mousePc = "on" /\ StreamAligned /\ StreamWhole /\ DecodedAligned /\ MouseOnItsWay
      /\ answers = 0
  BY DEF MouseInv, MouseMoves
<1>1. /\ UNCHANGED <<mousePc, answers, skip, fragments, mouse_x, decoded, leftOver>>
      /\ packets' = packets + 1 /\ pointer' = Moved(pointer, move)
      /\ \/ mouseBytes' = mouseBytes \o packet /\ (mouseLost' <=> mouseLost)
         \/ mouseBytes' = mouseBytes /\ mouseLost'
  BY DEF MouseMoves, handlerVars
<1>2. /\ packet \in Seq(Byte) /\ Len(packet) = 3
      /\ \A i \in 1 .. 3 : packet[i] = [packet |-> packets + 1, part |-> i, move |-> move]
  <2>1. packets \in Nat
    BY <1>0 DEF MouseTypes
  <2> QED
    BY <2>1, PacketSeq
<1> HIDE DEF packet
<1>3. MouseTypes'
  <2>1. mouseBytes' \in Seq(Byte)
    BY <1>0, <1>1, <1>2, ConcatProperties DEF MouseTypes
  <2>2. pointer' \in Int
    BY <1>0, <1>1, MovedInt DEF MouseTypes
  <2> QED
    BY <1>0, <1>1, <2>1, <2>2 DEF MouseTypes
<1>4. MouseStarting'
  BY <1>0, <1>1 DEF MouseStarting
<1>5. DecodedAligned'
  BY <1>0, <1>1 DEF DecodedAligned
<1>6. /\ StreamLen \in Nat /\ Base \in {0, 1} /\ Base' = Base /\ leftOver \in Nat
      /\ leftOver' = leftOver /\ skip' = skip /\ answers' = 0 /\ mouse_x' = mouse_x
      /\ \A i \in 1 .. StreamLen : StreamAt(i) \in Byte
  BY <1>0, <1>1, StreamTypes DEF Base, MouseTypes
<1>7. (StreamLen + Base - leftOver) % 3 = 0 /\ (skip = 1 => StreamLen >= leftOver)
  BY <1>0 DEF StreamWhole
<1>8. CASE mouseBytes' = mouseBytes /\ mouseLost'
  <2>1. StreamLen' = StreamLen /\ \A i : StreamAt(i)' = StreamAt(i)
    BY <1>1, <1>8 DEF StreamLen, StreamAt
  <2>2. StreamAligned' /\ StreamWhole' /\ MouseOnItsWay'
    BY <1>0, <1>1, <1>6, <1>8, <2>1 DEF StreamAligned, StreamWhole, MouseOnItsWay
  <2> QED
    BY <1>3, <1>4, <1>5, <2>2 DEF MouseInv
<1>9. CASE mouseBytes' = mouseBytes \o packet /\ (mouseLost' <=> mouseLost)
  <2>1. /\ StreamLen' = StreamLen + 3
        /\ \A i \in 1 .. StreamLen : StreamAt(i)' = StreamAt(i)
        /\ \A i \in (StreamLen + 1) .. (StreamLen + 3) : StreamAt(i)' = packet[i - StreamLen]
    BY <1>0, <1>1, <1>2, <1>9, StreamGrows
  <2>2. \A i \in (StreamLen + 1) .. (StreamLen + 3) :
          StreamAt(i)' = [packet |-> packets + 1, part |-> i - StreamLen, move |-> move]
    BY <1>2, <1>6, <2>1
  <2>3. StreamWhole'
    BY <1>6, <1>7, <2>1 DEF StreamWhole
  <2>4. StreamAligned'
    <3> SUFFICES ASSUME NEW i \in 1 .. StreamLen'
                 PROVE  /\ StreamAt(i)'.part = 0 => i + Base <= leftOver
                        /\ StreamAt(i)'.part # 0 => (i + Base - leftOver - StreamAt(i)'.part) % 3 = 0
                        /\ skip = 1 /\ i <= leftOver => StreamAt(i)'.part = 0
                        /\ StreamAt(i)'.part \in {1, 2} /\ i < StreamLen' =>
                             StreamAt(i + 1)' = [StreamAt(i)' EXCEPT !.part = @ + 1]
      BY <1>6 DEF StreamAligned
    <3>1. CASE i > StreamLen
      <4>1. i \in (StreamLen + 1) .. (StreamLen + 3) /\ i - StreamLen \in 1 .. 3
        BY <1>6, <2>1, <3>1
      <4>2. StreamAt(i)'.part = i - StreamLen
        BY <2>2, <4>1
      <4>3. (i + Base - leftOver - (i - StreamLen)) % 3 = 0
        BY <1>6, <1>7, <4>1
      <4>4. ~(skip = 1 /\ i <= leftOver)
        BY <1>6, <1>7, <3>1
      <4>5. ASSUME i < StreamLen' PROVE StreamAt(i + 1)' = [StreamAt(i)' EXCEPT !.part = @ + 1]
        <5>1. i + 1 \in (StreamLen + 1) .. (StreamLen + 3) /\ (i + 1) - StreamLen = (i - StreamLen) + 1
          BY <1>6, <2>1, <4>1, <4>5
        <5>2. StreamAt(i + 1)' = [packet |-> packets + 1, part |-> (i - StreamLen) + 1, move |-> move]
          BY <2>2, <5>1
        <5>3. StreamAt(i)' = [packet |-> packets + 1, part |-> i - StreamLen, move |-> move]
          BY <2>2, <4>1
        <5> QED
          BY <5>2, <5>3
      <4> QED
        BY <1>6, <4>1, <4>2, <4>3, <4>4, <4>5
    <3>2. CASE i <= StreamLen
      <4>1. i \in 1 .. StreamLen /\ StreamAt(i)' = StreamAt(i) /\ StreamAt(i).part \in 0 .. 3
        BY <1>6, <2>1, <3>2 DEF Byte
      <4>2. CASE i < StreamLen
        <5>1. i + 1 \in 1 .. StreamLen
          BY <1>6, <4>1, <4>2
        <5>2. StreamAt(i + 1)' = StreamAt(i + 1)
          BY <2>1, <5>1
        <5> QED
          BY <1>0, <4>1, <4>2, <5>2 DEF StreamAligned
      <4>3. CASE i = StreamLen
        <5>1. StreamAt(i).part # 0 => (i + Base - leftOver - StreamAt(i).part) % 3 = 0
          BY <1>0, <4>1 DEF StreamAligned
        <5>2. StreamAt(i).part \notin {1, 2}
          BY <1>6, <1>7, <4>1, <4>3, <5>1
        <5> QED
          BY <1>0, <4>1, <5>2 DEF StreamAligned
      <4> QED
        BY <1>6, <3>2, <4>2, <4>3
    <3> QED
      BY <1>6, <3>1, <3>2
  <2>5. MouseOnItsWay'
    <3> SUFFICES ASSUME leftOver = 1, ~mouseLost PROVE \E T \in [Nat -> Int] : Positions(T)'
      BY <1>1, <1>9 DEF MouseOnItsWay
    <3>1. PICK T \in [Nat -> Int] : Positions(T)
      BY <1>0 DEF MouseOnItsWay
    <3>2. PICK n \in Nat : n = StreamLen
      BY <1>6
    <3> DEFINE U == [i \in Nat |-> IF i <= n THEN T[i] ELSE IF i < n + 3 THEN T[n] ELSE Moved(T[n], move)]
    <3>3. /\ U \in [Nat -> Int]
          /\ \A i \in 0 .. n : U[i] = T[i]
          /\ U[n + 1] = T[n] /\ U[n + 2] = T[n] /\ U[n + 3] = Moved(T[n], move)
      <4>1. T[n] \in Int /\ Moved(T[n], move) \in Int
        BY MovedInt
      <4> QED
        BY <4>1
    <3> HIDE DEF U
    <3>4. /\ T[0] = mouse_x /\ T[n] = pointer
          /\ \A i \in 1 .. n : T[i] = IF StreamAt(i).part = 3 THEN Moved(T[i - 1], StreamAt(i).move) ELSE T[i - 1]
      BY <3>1, <3>2 DEF Positions
    <3>5. ASSUME NEW i \in 1 .. (n + 3)
          PROVE  U[i] = IF StreamAt(i)'.part = 3 THEN Moved(U[i - 1], StreamAt(i)'.move) ELSE U[i - 1]
      <4>1. CASE i <= n
        <5>1. i \in 1 .. n /\ i - 1 \in 0 .. n /\ i \in 0 .. n
          BY <4>1
        <5>2. StreamAt(i)' = StreamAt(i) /\ U[i] = T[i] /\ U[i - 1] = T[i - 1]
          BY <2>1, <3>2, <3>3, <5>1
        <5> QED
          BY <3>4, <5>1, <5>2
      <4>2. CASE i = n + 1
        <5>1. StreamAt(i)'.part = 1 /\ U[i - 1] = T[n]
          BY <2>2, <3>2, <3>3, <4>2
        <5> QED
          BY <3>3, <4>2, <5>1
      <4>3. CASE i = n + 2
        <5>1. StreamAt(i)'.part = 2 /\ i - 1 = n + 1
          BY <2>2, <3>2, <4>3
        <5> QED
          BY <3>3, <4>3, <5>1
      <4>4. CASE i = n + 3
        <5>1. StreamAt(i)'.part = 3 /\ StreamAt(i)'.move = move /\ i - 1 = n + 2
          BY <2>2, <3>2, <4>4
        <5> QED
          BY <3>3, <4>4, <5>1
      <4> QED
        BY <4>1, <4>2, <4>3, <4>4
    <3>6. StreamLen' = n + 3 /\ mouse_x' = T[0] /\ pointer' = Moved(T[n], move)
      BY <1>1, <1>6, <2>1, <3>2, <3>4
    <3>7. U[0] = T[0]
      BY <3>3
    <3>8. Positions(U)'
      BY <3>3, <3>5, <3>6, <3>7 DEF Positions
    <3> QED
      BY <3>3, <3>8
  <2> QED
    BY <1>3, <1>4, <1>5, <2>3, <2>4, <2>5 DEF MouseInv
<1> QED
  BY <1>1, <1>8, <1>9

LEMMA AlignedAt ==
    ASSUME StreamAligned, NEW i \in 1 .. StreamLen
    PROVE  /\ StreamAt(i).part = 0 => i + Base <= leftOver
           /\ StreamAt(i).part # 0 => (i + Base - leftOver - StreamAt(i).part) % 3 = 0
           /\ skip = 1 /\ i <= leftOver => StreamAt(i).part = 0
           /\ StreamAt(i).part \in {1, 2} /\ i < StreamLen =>
                StreamAt(i + 1) = [StreamAt(i) EXCEPT !.part = @ + 1]
BY DEF StreamAligned

LEMMA ThreeOn ==
    ASSUME NEW n \in Int, (n + 3) % 3 = 0 PROVE n % 3 = 0
OBVIOUS

\* HANDLE_PS2_MOUSE throws away a byte, keeps one, or has a packet.
LEMMA MouseHandles == MouseInv /\ HANDLE_PS2_MOUSE => MouseInv'
<1> SUFFICES ASSUME MouseInv, HANDLE_PS2_MOUSE PROVE MouseInv'
  OBVIOUS
<1> DEFINE byte == Head(mouseBytes)
           all == Append(fragments, byte)
<1>0. MouseTypes /\ mousePc = "on" /\ StreamAligned /\ StreamWhole /\ DecodedAligned /\ MouseOnItsWay
  BY DEF MouseInv, HANDLE_PS2_MOUSE
<1>1. /\ mouseBytes # <<>> /\ mouseBytes' = Tail(mouseBytes)
      /\ UNCHANGED <<mousePc, answers, packets, leftOver, mouseLost, pointer>>
  BY DEF HANDLE_PS2_MOUSE
<1>2. /\ mouseBytes' \in Seq(Byte) /\ byte \in Byte
      /\ all \in Seq(Byte) /\ Len(all) = Len(fragments) + 1
  <2>1. mouseBytes \in Seq(Byte) /\ fragments \in Seq(Byte)
    BY <1>0 DEF MouseTypes
  <2>2. mouseBytes' \in Seq(Byte) /\ byte \in Byte
    BY <1>1, <2>1, SequenceTaken
  <2> QED
    BY <2>1, <2>2, AppendProperties
<1>3. /\ StreamLen \in Nat /\ leftOver \in 0 .. 2 /\ answers \in 0 .. 2 /\ skip \in {0, 1}
      /\ Len(fragments) \in 0 .. 2 /\ Base = 1 - skip
      /\ \A i \in 1 .. StreamLen : StreamAt(i) \in Byte
  <2>1. StreamLen \in Nat /\ \A i \in 1 .. StreamLen : StreamAt(i) \in Byte
    BY <1>0, StreamTypes
  <2>2. Len(fragments) <= 2
    BY <1>0 DEF MouseTypes
  <2>3. Len(fragments) \in Nat
    <3>1. fragments \in Seq(Byte)
      BY <1>0 DEF MouseTypes
    <3> QED
      BY <3>1, LenProperties
  <2>4. leftOver \in 0 .. 2 /\ answers \in 0 .. 2 /\ skip \in {0, 1}
    BY <1>0 DEF MouseTypes
  <2>5. Len(fragments) \in 0 .. 2
    <3>1. PICK n \in Nat : n = Len(fragments)
      BY <2>3
    <3>2. n \in 0 .. 2
      BY <2>2, <3>1
    <3> QED
      BY <3>1, <3>2, Zenon
  <2>6. Base = 1 - skip
    <3>1. (skip = 0 => Base = 1) /\ (skip = 1 => Base = 0)
      BY DEF Base
    <3> QED
      BY <2>4, <3>1
  <2> QED
    BY <2>1, <2>4, <2>5, <2>6
<1>4. MouseStarting'
  BY <1>0, <1>1 DEF MouseStarting
<1>5. CASE skip > 0 /\ skip' = skip - 1 /\ UNCHANGED <<fragments, mouse_x, decoded>>
  <2>1. skip = 1 /\ skip' = 0 /\ Base = 0 /\ Base' = 1 /\ Len(fragments) = 0
    BY <1>0, <1>3, <1>5 DEF Base, MouseTypes
  <2>2. /\ StreamLen >= 1 /\ StreamLen' = StreamLen - 1
        /\ \A i \in 1 .. (StreamLen - 1) : StreamAt(i)' = StreamAt(i + 1)
    BY <1>0, <1>1, <1>5, <2>1, StreamSkips
  <2>3. MouseTypes'
    BY <1>0, <1>1, <1>2, <1>5, <2>1 DEF MouseTypes
  <2>4. DecodedAligned'
    BY <1>0, <1>1, <1>5 DEF DecodedAligned
  <2>5. StreamWhole'
    BY <1>0, <1>1, <1>3, <2>1, <2>2 DEF StreamWhole
  <2>6. StreamAligned'
    <3> SUFFICES ASSUME NEW i \in 1 .. StreamLen'
                 PROVE  /\ StreamAt(i)'.part = 0 => i + Base' <= leftOver'
                        /\ StreamAt(i)'.part # 0 => (i + Base' - leftOver' - StreamAt(i)'.part) % 3 = 0
                        /\ skip' = 1 /\ i <= leftOver' => StreamAt(i)'.part = 0
                        /\ StreamAt(i)'.part \in {1, 2} /\ i < StreamLen' =>
                             StreamAt(i + 1)' = [StreamAt(i)' EXCEPT !.part = @ + 1]
      BY DEF StreamAligned
    <3>0. leftOver' = leftOver /\ Base' = 1 /\ skip' = 0
      BY <1>1, <2>1
    <3>1. i \in Int /\ i + 1 \in 1 .. StreamLen /\ StreamAt(i)' = StreamAt(i + 1) /\ StreamAt(i + 1) \in Byte
      BY <1>3, <2>2
    <3>2. i < StreamLen' => StreamAt(i + 1)' = StreamAt((i + 1) + 1) /\ i + 1 < StreamLen
      BY <1>3, <2>2
    <3>3. /\ StreamAt(i + 1).part = 0 => (i + 1) + Base <= leftOver
          /\ StreamAt(i + 1).part # 0 => ((i + 1) + Base - leftOver - StreamAt(i + 1).part) % 3 = 0
          /\ StreamAt(i + 1).part \in {1, 2} /\ i + 1 < StreamLen =>
               StreamAt((i + 1) + 1) = [StreamAt(i + 1) EXCEPT !.part = @ + 1]
      BY <1>0, <3>1, AlignedAt
    <3>4. PICK part0 \in Int : part0 = StreamAt(i + 1).part
      BY <3>1 DEF Byte
    <3>5. /\ part0 = 0 => i + 1 <= leftOver
          /\ part0 # 0 => (i + 1 - leftOver - part0) % 3 = 0
      <4>1. leftOver \in Int /\ Base = 0
        BY <1>3, <2>1
      <4>2. /\ part0 = 0 => (i + 1) + Base <= leftOver
            /\ part0 # 0 => ((i + 1) + Base - leftOver - part0) % 3 = 0
        BY <3>3, <3>4
      <4> HIDE DEF Base
      <4> QED
        BY <3>1, <4>1, <4>2
    <3> QED
      BY <3>0, <3>1, <3>2, <3>3, <3>4, <3>5
  <2>7. MouseOnItsWay'
    <3> SUFFICES ASSUME leftOver = 1, ~mouseLost PROVE \E T \in [Nat -> Int] : Positions(T)'
      BY <1>1 DEF MouseOnItsWay
    <3>1. PICK T \in [Nat -> Int] : Positions(T)
      BY <1>0 DEF MouseOnItsWay
    <3> DEFINE U == [i \in Nat |-> T[i + 1]]
    <3>2. U \in [Nat -> Int] /\ \A i \in Nat : U[i] = T[i + 1]
      OBVIOUS
    <3> HIDE DEF U
    <3>3. 1 \in 1 .. StreamLen /\ StreamAt(1).part = 0
      <4>1. 1 \in 1 .. StreamLen /\ 1 <= leftOver
        BY <1>3, <2>2
      <4> QED
        BY <1>0, <1>5, <2>1, <4>1, AlignedAt
    <3>4. T[1] = T[0]
      BY <3>1, <3>3 DEF Positions
    <3>5. U[0] = mouse_x' /\ U[StreamLen'] = pointer'
      BY <1>1, <1>3, <1>5, <2>2, <3>1, <3>2, <3>4 DEF Positions
    <3>6. ASSUME NEW i \in 1 .. StreamLen'
          PROVE  U[i] = IF StreamAt(i)'.part = 3 THEN Moved(U[i - 1], StreamAt(i)'.move) ELSE U[i - 1]
      <4>1. i + 1 \in 1 .. StreamLen /\ StreamAt(i)' = StreamAt(i + 1) /\ (i + 1) - 1 = i
        BY <1>3, <2>2
      <4>2. U[i] = T[i + 1] /\ U[i - 1] = T[i]
        BY <1>3, <2>2, <3>2
      <4> QED
        BY <3>1, <4>1, <4>2 DEF Positions
    <3>7. Positions(U)'
      BY <3>5, <3>6 DEF Positions
    <3> QED
      BY <3>2, <3>7
  <2> QED
    BY <1>4, <2>3, <2>4, <2>5, <2>6, <2>7 DEF MouseInv
<1>6. CASE skip = 0 /\ Len(all) < 3 /\ fragments' = all /\ UNCHANGED <<skip, mouse_x, decoded>>
  <2>1. StreamLen' = StreamLen /\ \A i \in 1 .. StreamLen : StreamAt(i)' = StreamAt(i)
    BY <1>0, <1>1, <1>6, StreamKeeps
  <2>2. Base' = Base
    BY <1>6 DEF Base
  <2>3. MouseTypes'
    BY <1>0, <1>1, <1>2, <1>3, <1>6 DEF MouseTypes
  <2>4. DecodedAligned'
    BY <1>0, <1>1, <1>6 DEF DecodedAligned
  <2>5. StreamWhole'
    BY <1>0, <1>1, <1>6, <2>1, <2>2 DEF StreamWhole
  <2>6. StreamAligned'
    <3>1. \A i \in 1 .. StreamLen : i < StreamLen => StreamAt(i + 1)' = StreamAt(i + 1)
      BY <1>3, <2>1
    <3> QED
      BY <1>0, <1>1, <1>6, <2>1, <2>2, <3>1 DEF StreamAligned
  <2>7. MouseOnItsWay'
    BY <1>0, <1>1, <1>6, <2>1 DEF MouseOnItsWay, Positions
  <2> QED
    BY <1>4, <2>3, <2>4, <2>5, <2>6, <2>7 DEF MouseInv
<1>7. CASE /\ skip = 0 /\ Len(all) = 3 /\ fragments' = <<>> /\ decoded' = all
           /\ mouse_x' \in IF all[1].part = 1 /\ all[2].part = 2
                           THEN {Moved(mouse_x, all[2].move)} ELSE 0 .. (Width - 1)
           /\ UNCHANGED skip
  <2>1. Len(fragments) = 2 /\ Base = 1 /\ Base' = 1 /\ skip' = 0
    BY <1>2, <1>3, <1>7 DEF Base
  <2>2. /\ StreamLen >= 3 /\ StreamLen' = StreamLen - 3
        /\ all[1] = StreamAt(1) /\ all[2] = StreamAt(2) /\ all[3] = StreamAt(3) /\ all # <<>>
        /\ \A i \in 1 .. (StreamLen - 3) : StreamAt(i)' = StreamAt(i + 3)
    BY <1>0, <1>1, <1>7, <2>1, StreamPacket
  <2> HIDE DEF all
  <2>3. answers = 0 /\ 1 \in 1 .. StreamLen /\ 2 \in 1 .. StreamLen /\ 3 \in 1 .. StreamLen
    BY <1>0, <1>3, <2>1, <2>2 DEF StreamWhole
  <2>4. StreamAt(1) \in Byte /\ StreamAt(2) \in Byte /\ StreamAt(3) \in Byte
    BY <1>3, <2>3
  <2>5. MouseTypes'
    <3>1. mouse_x' \in Int
      <4>1. mouse_x \in Int /\ all[2].move \in Moves \cup {0}
        BY <1>0, <2>2, <2>4 DEF MouseTypes, Byte
      <4>2. Moved(mouse_x, all[2].move) \in Int
        BY <4>1, MovedInt
      <4>3. \A x \in 0 .. (Width - 1) : x \in Int
        BY MouseAssumption
      <4> QED
        BY <1>7, <4>2, <4>3
    <3>2. fragments' \in Seq(Byte) /\ Len(fragments') = 0
      BY <1>7, EmptySeq
    <3> QED
      BY <1>0, <1>1, <1>2, <1>7, <3>1, <3>2 DEF MouseTypes
  <2>6. StreamWhole'
    BY <1>0, <1>1, <1>3, <2>1, <2>2, <2>3 DEF StreamWhole
  <2>7. StreamAligned'
    <3> SUFFICES ASSUME NEW i \in 1 .. StreamLen'
                 PROVE  /\ StreamAt(i)'.part = 0 => i + Base' <= leftOver'
                        /\ StreamAt(i)'.part # 0 => (i + Base' - leftOver' - StreamAt(i)'.part) % 3 = 0
                        /\ skip' = 1 /\ i <= leftOver' => StreamAt(i)'.part = 0
                        /\ StreamAt(i)'.part \in {1, 2} /\ i < StreamLen' =>
                             StreamAt(i + 1)' = [StreamAt(i)' EXCEPT !.part = @ + 1]
      BY DEF StreamAligned
    <3>0. leftOver' = leftOver /\ Base' = 1 /\ skip' = 0
      BY <1>1, <2>1
    <3>1. i \in Int /\ i + 3 \in 1 .. StreamLen /\ StreamAt(i)' = StreamAt(i + 3) /\ StreamAt(i + 3) \in Byte
      BY <1>3, <2>2
    <3>2. i < StreamLen' => StreamAt(i + 1)' = StreamAt((i + 3) + 1) /\ i + 3 < StreamLen
      <4>1. ASSUME i < StreamLen' PROVE i + 1 \in 1 .. (StreamLen - 3) /\ i + 3 < StreamLen /\ (i + 1) + 3 = (i + 3) + 1
        BY <1>3, <2>2, <4>1
      <4> QED
        BY <2>2, <4>1
    <3>3. /\ StreamAt(i + 3).part = 0 => (i + 3) + Base <= leftOver
          /\ StreamAt(i + 3).part # 0 => ((i + 3) + Base - leftOver - StreamAt(i + 3).part) % 3 = 0
          /\ StreamAt(i + 3).part \in {1, 2} /\ i + 3 < StreamLen =>
               StreamAt((i + 3) + 1) = [StreamAt(i + 3) EXCEPT !.part = @ + 1]
      BY <1>0, <3>1, AlignedAt
    <3>4. PICK part0 \in Int : part0 = StreamAt(i + 3).part
      BY <3>1 DEF Byte
    <3>5. part0 # 0 /\ ((i + 3) + 1 - leftOver - part0) % 3 = 0
      BY <1>3, <2>1, <3>1, <3>3, <3>4
    <3>6. PICK n \in Int : n = i + 1 - leftOver - part0
      BY <1>3, <3>1
    <3>7. (n + 3) % 3 = 0
      BY <1>3, <3>1, <3>5, <3>6
    <3>8. n % 3 = 0
      BY <3>7, ThreeOn
    <3> QED
      BY <3>0, <3>1, <3>2, <3>3, <3>4, <3>5, <3>6, <3>8
  <2>8. /\ StreamAt(1).part # 0 => (2 - leftOver - StreamAt(1).part) % 3 = 0
        /\ StreamAt(1).part = 0 => leftOver = 2
    <3>1. /\ StreamAt(1).part = 0 => 1 + Base <= leftOver
          /\ StreamAt(1).part # 0 => (1 + Base - leftOver - StreamAt(1).part) % 3 = 0
      BY <1>0, <2>3, AlignedAt
    <3>2. PICK part0 \in Int : part0 = StreamAt(1).part
      BY <2>4 DEF Byte
    <3>3. (part0 = 0 => leftOver = 2) /\ (part0 # 0 => (2 - leftOver - part0) % 3 = 0)
      BY <1>3, <2>1, <3>1, <3>2
    <3> QED
      BY <3>2, <3>3
  <2>9. leftOver = 1 => /\ StreamAt(1).part = 1
                        /\ StreamAt(2) = [StreamAt(1) EXCEPT !.part = 2]
                        /\ StreamAt(3) = [StreamAt(1) EXCEPT !.part = 3]
    <3> SUFFICES ASSUME leftOver = 1
                 PROVE  /\ StreamAt(1).part = 1
                        /\ StreamAt(2) = [StreamAt(1) EXCEPT !.part = 2]
                        /\ StreamAt(3) = [StreamAt(1) EXCEPT !.part = 3]
      OBVIOUS
    <3>1. StreamAt(1).part \in 0 .. 3
      BY <2>4 DEF Byte
    <3>2. StreamAt(1).part = 1
      BY <2>8, <3>1
    <3>3. /\ StreamAt(1).part \in {1, 2} => StreamAt(1 + 1) = [StreamAt(1) EXCEPT !.part = @ + 1]
          /\ StreamAt(2).part \in {1, 2} => StreamAt(2 + 1) = [StreamAt(2) EXCEPT !.part = @ + 1]
      <4>1. 1 < StreamLen /\ 2 < StreamLen
        BY <1>3, <2>2
      <4> QED
        BY <1>0, <2>3, <4>1, AlignedAt
    <3>4. StreamAt(2) = [StreamAt(1) EXCEPT !.part = 2]
      BY <2>4, <3>2, <3>3
    <3>5. StreamAt(2).part = 2
      BY <2>4, <3>4 DEF Byte
    <3>6. StreamAt(3) = [StreamAt(2) EXCEPT !.part = 3]
      BY <2>4, <3>3, <3>5
    <3>7. StreamAt(3) = [StreamAt(1) EXCEPT !.part = 3]
      BY <2>4, <3>4, <3>6 DEF Byte
    <3> QED
      BY <3>2, <3>4, <3>7
  <2>10. DecodedAligned'
    <3>1. leftOver # 1 => all[1].part # 1
      <4>1. leftOver # 1 => StreamAt(1).part # 1
        BY <1>3, <2>8
      <4> QED
        BY <2>2, <4>1
    <3>2. ASSUME leftOver = 1 PROVE \A i \in 1 .. 3 : all[i] = [all[1] EXCEPT !.part = i]
      <4>1. StreamAt(1) = [StreamAt(1) EXCEPT !.part = 1]
        BY <2>4, <2>9, <3>2 DEF Byte
      <4> QED
        BY <2>2, <2>9, <3>2, <4>1
    <3> QED
      BY <1>1, <1>7, <3>1, <3>2 DEF DecodedAligned
  <2>11. MouseOnItsWay'
    <3> SUFFICES ASSUME leftOver = 1, ~mouseLost PROVE \E T \in [Nat -> Int] : Positions(T)'
      BY <1>1 DEF MouseOnItsWay
    <3>1. PICK T \in [Nat -> Int] : Positions(T)
      BY <1>0 DEF MouseOnItsWay
    <3> DEFINE U == [i \in Nat |-> T[i + 3]]
    <3>2. U \in [Nat -> Int] /\ \A i \in Nat : U[i] = T[i + 3]
      OBVIOUS
    <3> HIDE DEF U
    <3>3. /\ StreamAt(1).part = 1 /\ StreamAt(2).part = 2 /\ StreamAt(3).part = 3
          /\ StreamAt(2).move = StreamAt(3).move
      BY <2>4, <2>9 DEF Byte
    <3>4. mouse_x' = Moved(mouse_x, StreamAt(3).move)
      BY <1>7, <2>2, <3>3
    <3>5. T[1] = T[0] /\ T[2] = T[1] /\ T[3] = Moved(T[2], StreamAt(3).move)
      <4>1. /\ T[1] = IF StreamAt(1).part = 3 THEN Moved(T[1 - 1], StreamAt(1).move) ELSE T[1 - 1]
            /\ T[2] = IF StreamAt(2).part = 3 THEN Moved(T[2 - 1], StreamAt(2).move) ELSE T[2 - 1]
            /\ T[3] = IF StreamAt(3).part = 3 THEN Moved(T[3 - 1], StreamAt(3).move) ELSE T[3 - 1]
        BY <2>3, <3>1 DEF Positions
      <4> QED
        BY <3>3, <4>1
    <3>6. U[0] = mouse_x'
      <4>1. T[0] = mouse_x
        BY <3>1 DEF Positions
      <4> QED
        BY <3>2, <3>4, <3>5, <4>1
    <3>7. U[StreamLen'] = pointer'
      BY <1>1, <1>3, <2>2, <3>1, <3>2 DEF Positions
    <3>8. ASSUME NEW i \in 1 .. StreamLen'
          PROVE  U[i] = IF StreamAt(i)'.part = 3 THEN Moved(U[i - 1], StreamAt(i)'.move) ELSE U[i - 1]
      <4>1. i + 3 \in 1 .. StreamLen /\ StreamAt(i)' = StreamAt(i + 3)
        BY <1>3, <2>2
      <4>2. i \in Nat /\ i - 1 \in Nat /\ (i - 1) + 3 = (i + 3) - 1
        BY <1>3, <2>2
      <4>3. U[i] = T[i + 3] /\ U[i - 1] = T[(i - 1) + 3]
        BY <3>2, <4>2
      <4> QED
        BY <3>1, <4>1, <4>2, <4>3 DEF Positions
    <3>9. Positions(U)'
      BY <3>6, <3>7, <3>8 DEF Positions
    <3> QED
      BY <3>2, <3>9
  <2> QED
    BY <1>4, <2>5, <2>6, <2>7, <2>10, <2>11 DEF MouseInv
<1> QED
  BY <1>5, <1>6, <1>7 DEF HANDLE_PS2_MOUSE, PacketOfThree

LEMMA MouseKeeps == MouseInv /\ [MouseNext]_mouseVars => MouseInv'
<1> SUFFICES ASSUME MouseInv, [MouseNext]_mouseVars PROVE MouseInv'
  OBVIOUS
<1>1. CASE UNCHANGED mouseVars
  <2>1. UNCHANGED <<mousePc, answers, mouseBytes, skip, fragments, mouse_x, decoded, packets, leftOver, mouseLost, pointer>>
    BY <1>1 DEF mouseVars, handlerVars
  <2>2. StreamLen' = StreamLen /\ Base' = Base /\ \A i : StreamAt(i)' = StreamAt(i)
    BY <2>1 DEF StreamLen, StreamAt, Base
  <2>3. MouseTypes' /\ MouseStarting'
    BY <2>1 DEF MouseInv, MouseTypes, MouseStarting
  <2>4. mousePc = "on" => StreamAligned' /\ StreamWhole' /\ DecodedAligned'
    BY <2>1, <2>2 DEF MouseInv, StreamAligned, StreamWhole, DecodedAligned
  <2>5. mousePc = "on" => MouseOnItsWay'
    BY <2>1, <2>2 DEF MouseInv, MouseOnItsWay, Positions
  <2> QED
    BY <2>1, <2>3, <2>4, <2>5 DEF MouseInv
<1> QED
  BY <1>1, MouseInitWrite, MouseInitRead, MouseAnswer, MouseMove, MouseHandles DEF MouseNext

\* With one answer left over the handler decodes every packet whole and moves the
\* pointer as the mouse was moved; with none or two it never decodes one, and it
\* never gets into step again.
THEOREM AlignedPackets == MouseSpec => []PacketsAligned
<1>1. MouseSpec => []MouseInv
  BY MouseStart, MouseKeeps, PTL DEF MouseSpec
<1>2. MouseInv => PacketsAligned
  <2> SUFFICES ASSUME MouseInv, mousePc = "on",
                      leftOver = 1 /\ mouseBytes = <<>> /\ answers = 0 /\ ~mouseLost
               PROVE  mouse_x = pointer
    BY DEF PacketsAligned, MouseInv, DecodedAligned
  <2>1. MouseTypes /\ StreamWhole /\ MouseOnItsWay
    BY DEF MouseInv
  <2>2. Len(mouseBytes) = 0
    OBVIOUS
  <2>3. Len(fragments) <= 2 /\ skip \in {0, 1} /\ (skip = 1 => Len(fragments) = 0)
    BY <2>1 DEF MouseTypes
  <2>4. Len(fragments) \in Nat
    <3>1. fragments \in Seq(Byte)
      BY <2>1 DEF MouseTypes
    <3> QED
      BY <3>1, LenProperties
  <2>5. PICK n \in 0 .. 2 : n = Len(fragments)
    BY <2>3, <2>4
  <2>6. StreamLen = n + 0
    BY <2>2, <2>5 DEF StreamLen
  <2>7. (StreamLen + Base - 1) % 3 = 0 /\ (skip = 1 => StreamLen >= 1)
    BY <2>1 DEF StreamWhole
  <2>8. n = 0
    <3>1. CASE skip = 0
      <4>1. Base = 1
        BY <3>1 DEF Base
      <4> QED
        BY <2>5, <2>6, <2>7, <4>1
    <3>2. CASE skip = 1
      BY <2>3, <2>5, <3>2
    <3> QED
      BY <2>3, <3>1, <3>2
  <2>9. StreamLen = 0
    BY <2>6, <2>8
  <2> QED
    BY <2>1, <2>9 DEF MouseOnItsWay, Positions
<1> QED
  BY <1>1, <1>2, PTL

-----------------------------------------------------------------------------
(* The boot loader. *)

LEMMA LeastNatural ==
    ASSUME NEW S \in SUBSET Nat, S # {}
    PROVE  \E i \in S : \A k \in S : i <= k
<1>1. PICK i \in S : \A k \in S : <<k, i>> \notin OpToRel(<, Nat)
  BY NatLessThanWellFounded, WFMin, Zenon
<1>2. ASSUME NEW k \in S PROVE i <= k
  <2>1. <<k, i>> \notin {ss \in Nat \X Nat : ss[1] < ss[2]}
    BY <1>1 DEF OpToRel
  <2> QED
    BY <2>1
<1> QED
  BY <1>2

Owners == {"free", "firmware", "file", "font", "kernel", "map"}
BootPcs == {"config", "font", "elf", "segments", "map", "graphics", "exit", "kernel"}
MapTaken == bootPc \in {"graphics", "exit", "kernel"}

BootTypes ==
    /\ owner \in [BootPages -> Owners] /\ bootPc \in BootPcs
    /\ mapBuffer \in BootPages \cup {NoPage}

\* The buffer is as large as the size that GetMemoryMap is told, and it exists
\* when the size is not zero.
BufferFits ==
    /\ bootPc \notin {"graphics", "exit", "kernel"} => mapSize = mapCapacity
    /\ mapSize = 0 \/ mapBuffer # NoPage \/ bootLost # {}

\* A map with a valid key is the memory; an old one still has what was handed
\* over, which the firmware does not touch.
MapTrue ==
    /\ keyValid => memoryMap = MapOf(owner)
    /\ MapTaken /\ bootLost = {} =>
         /\ memoryMap \in [BootPages -> {"conventional", "services", "loader"}]
         /\ Descriptors(memoryMap) <= mapCapacity
         /\ \A p \in BootPages : Handed(p) => memoryMap[p] = "loader"
    /\ bootPc = "kernel" => (exited <=> keyValid)

\* A mode of the resolution asked for, or one that shares a side with it.
ModeClose ==
    (\E i \in DOMAIN modes : modes[i] = PreferredMode) =>
        mode # NoMode /\ (modes[mode][1] = PreferredMode[1] \/ modes[mode][2] = PreferredMode[2])

BootInv == BootTypes /\ BufferFits /\ MapTrue /\ ModeClose

LEMMA DescriptorsPositive == ASSUME NEW map PROVE Descriptors(map) \in Nat \ {0}
<1> DEFINE Changes == {p \in 1 .. (MemoryPages - 1) : map[p] # map[p - 1]}
<1>1. IsFiniteSet(1 .. (MemoryPages - 1))
  BY BootAssumption, FS_Interval
<1>2. Changes \subseteq 1 .. (MemoryPages - 1)
  OBVIOUS
<1>3. IsFiniteSet(Changes)
  BY <1>1, <1>2, FS_Subset
<1>4. Cardinality(Changes) \in Nat
  BY <1>3, FS_CardinalityType
<1> HIDE DEF Changes
<1>5. Descriptors(map) = 1 + Cardinality(Changes)
  BY DEF Descriptors, Changes
<1> QED
  BY <1>4, <1>5

\* The differences are multiplied: a mode of product zero shares a side.
LEMMA DifZero ==
    ASSUME NEW m \in Int \X Int
    PROVE  /\ Dif(m) \in Int
           /\ m = PreferredMode => Dif(m) = 0
           /\ Dif(m) = 0 => m[1] = PreferredMode[1] \/ m[2] = PreferredMode[2]
<1>1. PICK a \in Int, b \in Int : a = m[1] - PreferredMode[1] /\ b = m[2] - PreferredMode[2]
  BY BootAssumption
<1>2. m[1] \in Int /\ m[2] \in Int /\ PreferredMode[1] \in Int /\ PreferredMode[2] \in Int
  BY BootAssumption
<1>3. Dif(m) = a * b
  BY <1>1 DEF Dif
<1>4. a * b \in Int /\ (a = 0 => a * b = 0) /\ (a * b = 0 => a = 0 \/ b = 0)
  OBVIOUS
<1>5. (a = 0 => m[1] = PreferredMode[1]) /\ (b = 0 => m[2] = PreferredMode[2])
  BY <1>1, <1>2
<1>6. m = PreferredMode => a = 0
  BY <1>1, <1>2
<1> QED
  BY <1>3, <1>4, <1>5, <1>6

\* The loop of setup_graphics keeps the first of the modes of the least product.
LEMMA ChosenMode ==
    ASSUME NEW list \in ModeLists, NEW i \in DOMAIN list, list[i] = PreferredMode
    PROVE  LET m == ChooseMode(list)
           IN  m # NoMode /\ (list[m][1] = PreferredMode[1] \/ list[m][2] = PreferredMode[2])
<1>1. list \in Seq(Int \X Int)
  BY BootAssumption
<1>2. DOMAIN list = 1 .. Len(list) /\ Len(list) \in Nat /\ \A k \in 1 .. Len(list) : list[k] \in Int \X Int
  BY <1>1, LenProperties, ElementOfSeq
<1>3. \A k \in 1 .. Len(list) : Dif(list[k]) \in Int
  BY <1>2, DifZero
<1> DEFINE Zero == {k \in 1 .. Len(list) : Dif(list[k]) = 0}
<1>4. i \in Zero /\ Zero \in SUBSET Nat
  BY <1>2, DifZero
<1>5. PICK first \in Zero : \A k \in Zero : first <= k
  BY <1>4, LeastNatural
<1>a. GreatestDif \in Nat \ {0}
  BY SMT DEF GreatestDif
<1>6. Zero \subseteq Candidates(list)
  BY <1>a DEF Candidates
<1>7. ASSUME NEW k \in Candidates(list)
      PROVE  Dif(list[first]) < Dif(list[k]) \/ (Dif(list[first]) = Dif(list[k]) /\ first <= k)
  <2>1. k \in 1 .. Len(list) /\ Dif(list[k]) \in Int /\ Dif(list[k]) >= 0 /\ Dif(list[first]) = 0
    BY <1>3, <1>5, <1>a DEF Candidates
  <2>2. CASE Dif(list[k]) = 0
    BY <1>5, <2>1, <2>2
  <2>3. CASE Dif(list[k]) > 0
    BY <2>1, <2>3
  <2> QED
    BY <2>1, <2>2, <2>3
<1> DEFINE Best(c) == \A k \in Candidates(list) :
               Dif(list[c]) < Dif(list[k]) \/ (Dif(list[c]) = Dif(list[k]) /\ c <= k)
<1>8. first \in Candidates(list) /\ Best(first)
  BY <1>6, <1>7
<1>9. ChooseMode(list) \in Candidates(list) /\ Best(ChooseMode(list))
  <2>1. ChooseMode(list) = CHOOSE c \in Candidates(list) : Best(c)
    BY <1>8 DEF ChooseMode
  <2> QED
    BY <1>8, <2>1
<1>10. PICK m \in Candidates(list) : m = ChooseMode(list)
  BY <1>9
<1>11. m \in 1 .. Len(list) /\ Dif(list[m]) \in Int /\ Dif(list[m]) >= 0
  BY <1>3, <1>a DEF Candidates
<1>12. Dif(list[m]) <= Dif(list[first]) /\ Dif(list[first]) = 0
  BY <1>5, <1>8, <1>9, <1>10, <1>11
<1>13. Dif(list[m]) = 0 /\ m # NoMode /\ list[m] \in Int \X Int
  BY <1>2, <1>11, <1>12 DEF NoMode
<1> QED
  BY <1>10, <1>13, DifZero

LEMMA BootStart == BootInit => BootInv
<1> SUFFICES ASSUME BootInit PROVE BootInv
  OBVIOUS
<1>1. BootTypes
  BY DEF BootInit, BootTypes, Owners, BootPcs
<1>2. BufferFits
  BY DEF BootInit, BufferFits
<1>3. MapTrue
  BY DEF BootInit, MapTrue, MapTaken
<1>4. ModeClose
  BY DEF BootInit, ModeClose
<1> QED
  BY <1>1, <1>2, <1>3, <1>4 DEF BootInv

\* A call of AllocatePool in the memory of owners.
LEMMA PoolGiven ==
    ASSUME NEW owners \in [BootPages -> Owners], NEW who \in Owners, NEW p, AllocatePool(owners, who, p)
    PROVE  /\ owner' \in [BootPages -> Owners] /\ keyValid' = FALSE
           /\ p \in BootPages \cup {NoPage} /\ (p = NoPage => bootLost' # {})
           /\ bootLost \subseteq bootLost'
BY DEF AllocatePool, PoolPages

LEMMA BootKeeps == BootInv /\ [BootNext]_bootVars => BootInv'
<1> SUFFICES ASSUME BootInv, [BootNext]_bootVars PROVE BootInv'
  OBVIOUS
<1> USE DEF mapVars, graphicsVars
<1>0. BootTypes /\ BufferFits /\ MapTrue /\ ModeClose
  BY DEF BootInv
<1>1. ASSUME UNCHANGED <<modes, mode>> PROVE ModeClose'
  BY <1>0, <1>1 DEF ModeClose
<1>2. CASE FirmwareAllocates
  <2>1. /\ UNCHANGED <<bootPc, mapSize, mapBuffer, mapCapacity, memoryMap, modes, mode, exited, bootLost>>
        /\ keyValid' = FALSE /\ bootPc # "kernel"
    BY <1>2 DEF FirmwareAllocates
  <2>2. PICK p \in BootPages : /\ owner[p] \in {"free", "firmware"}
                               /\ owner' = [owner EXCEPT ![p] = IF @ = "free" THEN "firmware" ELSE "free"]
    BY <1>2 DEF FirmwareAllocates
  <2>3. /\ owner' \in [BootPages -> Owners]
        /\ \A q \in BootPages : owner'[q] \in {"kernel", "font", "map"} => owner[q] = owner'[q]
    BY <1>0, <2>2 DEF BootTypes, Owners
  <2>4. BootTypes' /\ BufferFits'
    BY <1>0, <2>1, <2>3 DEF BootTypes, BufferFits
  <2>5. MapTrue'
    BY <1>0, <2>1, <2>3 DEF MapTrue, MapTaken, Handed
  <2> QED
    BY <1>1, <2>1, <2>4, <2>5 DEF BootInv
<1>3. CASE Load_File
  <2>1. /\ bootPc \in {"config", "font", "elf"} /\ bootPc' \in {"font", "elf", "segments"}
        /\ UNCHANGED <<mapSize, mapBuffer, mapCapacity, memoryMap, modes, mode, exited>>
    BY <1>3 DEF Load_File, NextFile
  <2>2. PICK p \in BootPages \cup {NoPage} :
          AllocatePool(owner, IF bootPc = "font" THEN "font" ELSE "file", p)
    BY <1>3 DEF Load_File
  <2>3. owner' \in [BootPages -> Owners] /\ keyValid' = FALSE /\ bootLost \subseteq bootLost'
    <3>1. (IF bootPc = "font" THEN "font" ELSE "file") \in Owners
      BY DEF Owners
    <3> QED
      BY <1>0, <2>2, <3>1, PoolGiven DEF BootTypes
  <2>4. BootTypes'
    BY <1>0, <2>1, <2>3 DEF BootTypes, BootPcs
  <2>5. BufferFits'
    BY <1>0, <2>1, <2>3 DEF BufferFits
  <2>6. MapTrue'
    BY <2>1, <2>3 DEF MapTrue, MapTaken
  <2> QED
    BY <1>1, <2>1, <2>4, <2>5, <2>6 DEF BootInv
<1>4. CASE LoadSegment
  <2>1. /\ bootPc = "segments" /\ bootPc' = bootPc /\ keyValid' = FALSE
        /\ UNCHANGED <<mapSize, mapBuffer, mapCapacity, memoryMap, modes, mode, exited>>
    BY <1>4 DEF LoadSegment
  <2>2. owner' \in [BootPages -> Owners] /\ bootLost \subseteq bootLost'
    BY <1>0, <1>4 DEF LoadSegment, BootTypes, Owners
  <2>3. BootTypes'
    BY <1>0, <2>1, <2>2 DEF BootTypes
  <2>4. BufferFits'
    BY <1>0, <2>1, <2>2 DEF BufferFits
  <2>5. MapTrue'
    BY <2>1 DEF MapTrue, MapTaken
  <2> QED
    BY <1>1, <2>1, <2>3, <2>4, <2>5 DEF BootInv
<1>5. CASE SegmentsLoaded
  <2>1. /\ bootPc = "segments" /\ bootPc' = "map"
        /\ UNCHANGED <<owner, mapSize, mapBuffer, mapCapacity, memoryMap, keyValid, modes, mode, exited, bootLost>>
    BY <1>5 DEF SegmentsLoaded
  <2>2. BootTypes' /\ BufferFits'
    BY <1>0, <2>1 DEF BootTypes, BootPcs, BufferFits
  <2>3. MapTrue'
    BY <1>0, <2>1 DEF MapTrue, MapTaken
  <2> QED
    BY <1>1, <2>1, <2>2, <2>3 DEF BootInv
<1>6. CASE EnlargeBuffer
  <2>1. /\ bootPc = "map" /\ bootPc' = bootPc /\ mapCapacity' = mapSize'
        /\ mapBuffer' \in BootPages \cup {NoPage}
        /\ UNCHANGED <<memoryMap, modes, mode, exited>>
    BY <1>6 DEF EnlargeBuffer
  <2> DEFINE freed == [p \in BootPages |-> IF p = mapBuffer THEN "free" ELSE owner[p]]
  <2>2. freed \in [BootPages -> Owners] /\ "map" \in Owners
    BY <1>0 DEF BootTypes, Owners
  <2>3. AllocatePool(freed, "map", mapBuffer')
    BY <1>6 DEF EnlargeBuffer
  <2> HIDE DEF freed
  <2>4. /\ owner' \in [BootPages -> Owners] /\ keyValid' = FALSE
        /\ (mapBuffer' = NoPage => bootLost' # {})
    BY <2>2, <2>3, PoolGiven
  <2>5. BootTypes'
    BY <1>0, <2>1, <2>4 DEF BootTypes
  <2>6. BufferFits'
    BY <2>1, <2>4 DEF BufferFits
  <2>7. MapTrue'
    BY <2>1, <2>4 DEF MapTrue, MapTaken
  <2> QED
    BY <1>1, <2>1, <2>5, <2>6, <2>7 DEF BootInv
<1>7. CASE GetMemoryMap
  <2>1. /\ bootPc = "map" /\ bootPc' = "graphics" /\ mapSize >= Needed
        /\ UNCHANGED <<owner, mapBuffer, mapCapacity, modes, mode, exited, bootLost>>
    BY <1>7 DEF GetMemoryMap
  <2>2. Needed \in Nat \ {0}
    BY DescriptorsPositive DEF Needed
  <2>3. mapSize # 0 /\ mapSize = mapCapacity
    BY <1>0, <2>1, <2>2 DEF BufferFits
  <2>4. BootTypes'
    BY <1>0, <2>1 DEF BootTypes, BootPcs
  <2>5. CASE mapBuffer = NoPage
    <3>1. bootLost # {} /\ UNCHANGED <<memoryMap, mapSize, keyValid>>
      BY <1>0, <1>7, <2>3, <2>5 DEF BufferFits, GetMemoryMap
    <3>2. BufferFits'
      BY <2>1, <3>1 DEF BufferFits
    <3>3. MapTrue'
      BY <1>0, <2>1, <3>1 DEF MapTrue, MapTaken
    <3> QED
      BY <1>1, <2>1, <2>4, <3>2, <3>3 DEF BootInv
  <2>6. CASE mapBuffer # NoPage
    <3>1. memoryMap' = MapOf(owner) /\ keyValid' = TRUE
      BY <1>7, <2>6 DEF GetMemoryMap
    <3>2. BufferFits'
      BY <2>1, <2>6 DEF BufferFits
    <3>3. MapOf(owner) = memoryMap' /\ MapOf(owner') = memoryMap'
      BY <2>1, <3>1
    <3>4. memoryMap' \in [BootPages -> {"conventional", "services", "loader"}]
      BY <3>1 DEF MapOf, PageType
    <3>5. Descriptors(memoryMap') <= mapCapacity'
      BY <2>1, <2>3, <3>1 DEF Needed
    <3>6. ASSUME NEW p \in BootPages, Handed(p)' PROVE memoryMap'[p] = "loader"
      BY <2>1, <3>1, <3>6 DEF MapOf, PageType, Handed
    <3>7. MapTrue'
      BY <2>1, <3>3, <3>4, <3>5, <3>6 DEF MapTrue
    <3> QED
      BY <1>1, <2>1, <2>4, <3>2, <3>7 DEF BootInv
  <2> QED
    BY <2>5, <2>6
<1>8. CASE setup_graphics
  <2>1. /\ bootPc = "graphics" /\ bootPc' = "exit" /\ bootLost \subseteq bootLost'
        /\ UNCHANGED <<owner, mapSize, mapBuffer, mapCapacity, memoryMap, keyValid, exited>>
    BY <1>8 DEF setup_graphics
  <2>2. BootTypes' /\ BufferFits'
    BY <1>0, <2>1 DEF BootTypes, BootPcs, BufferFits
  <2>3. MapTrue'
    <3>1. bootLost' = {} => bootLost = {}
      BY <2>1
    <3> QED
      BY <1>0, <2>1, <3>1 DEF MapTrue, MapTaken, Handed
  <2>4. ModeClose'
    <3>1. CASE modes' \in ModeLists /\ mode' = ChooseMode(modes')
      BY <3>1, ChosenMode DEF ModeClose
    <3>2. CASE UNCHANGED <<modes, mode>>
      BY <1>1, <3>2
    <3> QED
      BY <1>8, <3>1, <3>2 DEF setup_graphics
  <2> QED
    BY <2>2, <2>3, <2>4 DEF BootInv
<1>9. CASE ExitBootServices
  <2>1. /\ bootPc = "exit" /\ bootPc' = "kernel" /\ exited' = keyValid
        /\ UNCHANGED <<owner, mapSize, mapBuffer, mapCapacity, memoryMap, keyValid, modes, mode, bootLost>>
    BY <1>9 DEF ExitBootServices
  <2>2. BootTypes' /\ BufferFits'
    BY <1>0, <2>1 DEF BootTypes, BootPcs, BufferFits
  <2>3. MapTrue'
    BY <1>0, <2>1 DEF MapTrue, MapTaken, Handed
  <2> QED
    BY <1>1, <2>1, <2>2, <2>3 DEF BootInv
<1>10. CASE UNCHANGED bootVars
  <2>1. UNCHANGED <<owner, bootPc, mapSize, mapBuffer, mapCapacity, memoryMap, keyValid, modes, mode, exited, bootLost>>
    BY <1>10 DEF bootVars
  <2>2. BootTypes' /\ BufferFits'
    BY <1>0, <2>1 DEF BootTypes, BufferFits
  <2>3. MapTrue'
    BY <1>0, <2>1 DEF MapTrue, MapTaken, Handed
  <2> QED
    BY <1>1, <2>1, <2>2, <2>3 DEF BootInv
<1> QED
  BY <1>2, <1>3, <1>4, <1>5, <1>6, <1>7, <1>8, <1>9, <1>10 DEF BootNext, TakeMap

\* What efi_main hands to the kernel can be trusted, unless an allocation failed,
\* a segment found its pages taken or there is no display: the map fits its
\* buffer and has every page that the kernel goes on using, whatever the firmware
\* allocated after it was taken; it is the memory as it is once the boot services
\* have ended; and the mode set shares a side with the resolution asked for.
THEOREM SoundHandoff == BootSpec => []HandoffSound
<1>1. BootSpec => []BootInv
  BY BootStart, BootKeeps, PTL DEF BootSpec
<1>2. BootInv => HandoffSound
  <2> SUFFICES ASSUME BootInv, bootPc = "kernel", bootLost = {}
               PROVE  /\ memoryMap # <<>> /\ Descriptors(memoryMap) <= mapCapacity
                      /\ \A p \in BootPages : Handed(p) => memoryMap[p] = "loader"
                      /\ exited => memoryMap = MapOf(owner)
                      /\ ModeClose
    BY DEF HandoffSound, ModeClose
  <2>1. MapTrue /\ ModeClose
    BY DEF BootInv
  <2>2. /\ memoryMap \in [BootPages -> {"conventional", "services", "loader"}]
        /\ Descriptors(memoryMap) <= mapCapacity
        /\ \A p \in BootPages : Handed(p) => memoryMap[p] = "loader"
        /\ exited => memoryMap = MapOf(owner)
    BY <2>1 DEF MapTrue, MapTaken
  <2>3. memoryMap # <<>>
    <3>1. 0 \in BootPages
      BY BootAssumption DEF BootPages
    <3>2. 0 \in DOMAIN memoryMap
      BY <2>2, <3>1
    <3>3. DOMAIN <<>> = {}
      OBVIOUS
    <3> QED
      BY <3>2, <3>3
  <2> QED
    BY <2>1, <2>2, <2>3
<1> QED
  BY <1>1, <1>2, PTL

-----------------------------------------------------------------------------
(* The keyboard. *)

Codes == Keys \cup Modifiers \cup {"37", "45", "Left_Arrow", "E0", "E1", "1"}
KeyByte == [code : Codes, up : BOOLEAN]

\* What handle_key knows: the modifiers, the prefix, the terminal; and how a byte
\* changes it.
Knowledge == (SUBSET Modifiers) \X {"none", "E0"} \X Codes

Held(z, b) ==
    IF z[2] = "E0" \/ b.code \notin Modifiers THEN z[1]
    ELSE IF b.up THEN z[1] \ {b.code} ELSE z[1] \cup {b.code}

Learns(z, b) ==
    << Held(z, b),
       IF b = E0 /\ z[2] = "none" THEN "E0" ELSE "none",
       IF ~b.up /\ b.code \in Digits /\ Held(z, b) \cap Shifts = {} /\ "Ctrl" \in Held(z, b)
       THEN b.code ELSE z[3] >>

\* The bytes lead from one knowledge to another.
Lead(bytes, z0, z1) ==
    \E Z \in [0 .. Len(bytes) -> Knowledge] :
        /\ Z[0] = z0 /\ Z[Len(bytes)] = z1
        /\ \A i \in 1 .. Len(bytes) : Z[i] = Learns(Z[i - 1], bytes[i])

Believed == <<modifiers \cap Modifiers, previous_key, current_tty>>
Pressed == <<keysDown \cap Modifiers, "none", chosenTty>>

KeyboardTypes ==
    /\ keyBytes \in Seq(KeyByte) /\ previous_key \in {"none", "E0"}
    /\ current_tty \in Codes /\ chosenTty \in Codes /\ keysDown \subseteq Keys

\* The bytes still to be handled make what handle_key believes what is true.
KeyboardInv == KeyboardTypes /\ (~keyLost => Lead(keyBytes, Believed, Pressed))

LEMMA LeadEmpty == ASSUME NEW z0, NEW z1, Lead(<<>>, z0, z1) PROVE z0 = z1
<1>1. Len(<<>>) = 0
  OBVIOUS
<1> QED
  BY <1>1 DEF Lead

LEMMA LeadNowhere == ASSUME NEW z \in Knowledge PROVE Lead(<<>>, z, z)
<1>1. Len(<<>>) = 0
  OBVIOUS
<1> DEFINE Z == [i \in 0 .. 0 |-> z]
<1>2. Z \in [0 .. Len(<<>>) -> Knowledge] /\ Z[0] = z /\ Z[Len(<<>>)] = z
  BY <1>1
<1>3. \A i \in 1 .. Len(<<>>) : FALSE
  BY <1>1
<1> QED
  BY <1>2, <1>3 DEF Lead

\* The first byte is handled.
LEMMA LeadTail ==
    ASSUME NEW s \in Seq(KeyByte), s # <<>>, NEW z0, NEW z1, Lead(s, z0, z1)
    PROVE  Lead(Tail(s), Learns(z0, Head(s)), z1)
<1>1. PICK n \in Nat : n + 1 = Len(s)
  <2>1. Len(s) \in Nat \ {0}
    BY EmptySeq
  <2>2. Len(s) - 1 \in Nat /\ (Len(s) - 1) + 1 = Len(s)
    BY <2>1
  <2> QED
    BY <2>2
<1>2. PICK Z \in [0 .. (n + 1) -> Knowledge] :
        /\ Z[0] = z0 /\ Z[n + 1] = z1
        /\ \A i \in 1 .. (n + 1) : Z[i] = Learns(Z[i - 1], s[i])
  BY <1>1 DEF Lead
<1>3. /\ Len(Tail(s)) = n /\ Head(s) = s[1]
      /\ \A i \in 1 .. n : Tail(s)[i] = s[i + 1]
  <2>1. Len(Tail(s)) = Len(s) - 1 /\ \A i \in 1 .. Len(Tail(s)) : Tail(s)[i] = s[i + 1]
    BY HeadTailProperties
  <2>2. Len(Tail(s)) = n
    BY <1>1, <2>1
  <2>3. Head(s) = s[1]
    OBVIOUS
  <2> QED
    BY <2>1, <2>2, <2>3
<1> DEFINE Y == [i \in 0 .. n |-> Z[i + 1]]
<1>4. Y \in [0 .. n -> Knowledge] /\ \A i \in 0 .. n : Y[i] = Z[i + 1]
  BY <1>2
<1> HIDE DEF Y
<1>5. Y[0] = Learns(z0, Head(s)) /\ Y[n] = z1
  <2>1. Z[1] = Learns(Z[1 - 1], s[1])
    BY <1>2
  <2> QED
    BY <1>2, <1>3, <1>4, <2>1
<1>6. ASSUME NEW i \in 1 .. n PROVE Y[i] = Learns(Y[i - 1], Tail(s)[i])
  <2>1. i \in 0 .. n /\ i - 1 \in 0 .. n /\ i + 1 \in 1 .. (n + 1) /\ (i + 1) - 1 = i /\ (i - 1) + 1 = i
    OBVIOUS
  <2>2. Z[i + 1] = Learns(Z[(i + 1) - 1], s[i + 1])
    BY <1>2, <2>1
  <2>3. Y[i] = Z[i + 1] /\ Y[i - 1] = Z[(i - 1) + 1] /\ Tail(s)[i] = s[i + 1]
    BY <1>3, <1>4, <2>1
  <2> QED
    BY <2>1, <2>2, <2>3
<1> QED
  BY <1>3, <1>4, <1>5, <1>6 DEF Lead

\* More bytes are sent.
LEMMA LeadConcat ==
    ASSUME NEW s \in Seq(KeyByte), NEW t \in Seq(KeyByte), NEW z0, NEW z1, NEW z2,
           Lead(s, z0, z1), Lead(t, z1, z2)
    PROVE  Lead(s \o t, z0, z2)
<1>1. PICK m \in Nat, n \in Nat : m = Len(s) /\ n = Len(t)
  BY LenProperties
<1>2. PICK Z \in [0 .. m -> Knowledge] :
        Z[0] = z0 /\ Z[m] = z1 /\ \A i \in 1 .. m : Z[i] = Learns(Z[i - 1], s[i])
  BY <1>1 DEF Lead
<1>3. PICK Y \in [0 .. n -> Knowledge] :
        Y[0] = z1 /\ Y[n] = z2 /\ \A i \in 1 .. n : Y[i] = Learns(Y[i - 1], t[i])
  BY <1>1 DEF Lead
<1>4. /\ Len(s \o t) = m + n
      /\ \A i \in 1 .. (m + n) : (s \o t)[i] = IF i <= m THEN s[i] ELSE t[i - m]
  BY <1>1, ConcatProperties
<1> DEFINE X == [i \in 0 .. (m + n) |-> IF i <= m THEN Z[i] ELSE Y[i - m]]
<1>5. X \in [0 .. (m + n) -> Knowledge]
  BY <1>2, <1>3
<1>6. /\ \A i \in 0 .. m : X[i] = Z[i]
      /\ \A i \in (m + 1) .. (m + n) : X[i] = Y[i - m]
  OBVIOUS
<1> HIDE DEF X
<1>7. X[0] = z0 /\ X[m + n] = z2
  <2>1. CASE n = 0
    BY <1>2, <1>3, <1>6, <2>1
  <2>2. CASE n > 0
    <3>1. m + n \in (m + 1) .. (m + n) /\ (m + n) - m = n /\ 0 \in 0 .. m
      BY <2>2
    <3> QED
      BY <1>2, <1>3, <1>6, <3>1
  <2> QED
    BY <2>1, <2>2
<1>8. ASSUME NEW i \in 1 .. (m + n) PROVE X[i] = Learns(X[i - 1], (s \o t)[i])
  <2>1. CASE i <= m
    <3>1. i \in 1 .. m /\ i \in 0 .. m /\ i - 1 \in 0 .. m
      BY <2>1
    <3>2. X[i] = Z[i] /\ X[i - 1] = Z[i - 1] /\ (s \o t)[i] = s[i]
      BY <1>4, <1>6, <2>1, <3>1
    <3> QED
      BY <1>2, <3>1, <3>2
  <2>2. CASE i > m
    <3>1. i \in (m + 1) .. (m + n) /\ i - m \in 1 .. n /\ (i - m) - 1 = (i - 1) - m
      BY <2>2
    <3>2. X[i] = Y[i - m] /\ (s \o t)[i] = t[i - m]
      BY <1>4, <1>6, <2>2, <3>1
    <3>3. X[i - 1] = Y[(i - m) - 1]
      <4>1. CASE i = m + 1
        <5>1. i - 1 = m /\ (i - m) - 1 = 0 /\ m \in 0 .. m
          BY <4>1
        <5> QED
          BY <1>2, <1>3, <1>6, <5>1
      <4>2. CASE i > m + 1
        <5>1. i - 1 \in (m + 1) .. (m + n)
          BY <4>2
        <5> QED
          BY <1>6, <3>1, <5>1
      <4> QED
        BY <2>2, <4>1, <4>2
    <3>4. Y[i - m] = Learns(Y[(i - m) - 1], t[i - m])
      BY <1>3, <3>1
    <3> QED
      BY <3>2, <3>3, <3>4
  <2>3. i <= m \/ i > m
    <3>1. m \in Int /\ i \in Int
      BY <1>1
    <3> QED
      BY <3>1
  <2> QED
    BY <2>1, <2>2, <2>3, Zenon
<1> QED
  BY <1>4, <1>5, <1>7, <1>8 DEF Lead

\* The keys send one, two, four or six bytes.
LEMMA LeadOne ==
    ASSUME NEW a1,
           NEW z0 \in Knowledge, NEW z1 \in Knowledge,
           z1 = Learns(z0, a1)
    PROVE  Lead(<<a1>>, z0, z1)
<1> DEFINE bytes == <<a1>>
           Z == [i \in 0 .. 1 |-> IF i = 0 THEN z0 ELSE z1]
<1>1. Len(bytes) = 1 /\ bytes[1] = a1
  OBVIOUS
<1>2. Z \in [0 .. 1 -> Knowledge] /\ Z[0] = z0 /\ Z[1] = z1
  OBVIOUS
<1> HIDE DEF bytes, Z
<1>3. ASSUME NEW i \in 1 .. 1 PROVE Z[i] = Learns(Z[i - 1], bytes[i])
  <2>1. (i = 1 /\ i - 1 = 0)
    OBVIOUS
  <2> QED
    BY <1>1, <1>2, <2>1
<1>4. Lead(bytes, z0, z1)
  BY <1>1, <1>2, <1>3 DEF Lead
<1> QED
  BY <1>4 DEF bytes

LEMMA LeadTwo ==
    ASSUME NEW a1, NEW a2,
           NEW z0 \in Knowledge, NEW z1 \in Knowledge, NEW z2 \in Knowledge,
           z1 = Learns(z0, a1), z2 = Learns(z1, a2)
    PROVE  Lead(<<a1, a2>>, z0, z2)
<1> DEFINE bytes == <<a1, a2>>
           Z == [i \in 0 .. 2 |-> IF i = 0 THEN z0 ELSE IF i = 1 THEN z1 ELSE z2]
<1>1. Len(bytes) = 2 /\ bytes[1] = a1 /\ bytes[2] = a2
  OBVIOUS
<1>2. Z \in [0 .. 2 -> Knowledge] /\ Z[0] = z0 /\ Z[1] = z1 /\ Z[2] = z2
  OBVIOUS
<1> HIDE DEF bytes, Z
<1>3. ASSUME NEW i \in 1 .. 2 PROVE Z[i] = Learns(Z[i - 1], bytes[i])
  <2>1. (i = 1 /\ i - 1 = 0) \/ (i = 2 /\ i - 1 = 1)
    OBVIOUS
  <2> QED
    BY <1>1, <1>2, <2>1
<1>4. Lead(bytes, z0, z2)
  BY <1>1, <1>2, <1>3 DEF Lead
<1> QED
  BY <1>4 DEF bytes

LEMMA LeadFour ==
    ASSUME NEW a1, NEW a2, NEW a3, NEW a4,
           NEW z0 \in Knowledge, NEW z1 \in Knowledge, NEW z2 \in Knowledge, NEW z3 \in Knowledge, NEW z4 \in Knowledge,
           z1 = Learns(z0, a1), z2 = Learns(z1, a2), z3 = Learns(z2, a3), z4 = Learns(z3, a4)
    PROVE  Lead(<<a1, a2, a3, a4>>, z0, z4)
<1> DEFINE bytes == <<a1, a2, a3, a4>>
           Z == [i \in 0 .. 4 |-> IF i = 0 THEN z0 ELSE IF i = 1 THEN z1 ELSE IF i = 2 THEN z2 ELSE IF i = 3 THEN z3 ELSE z4]
<1>1. Len(bytes) = 4 /\ bytes[1] = a1 /\ bytes[2] = a2 /\ bytes[3] = a3 /\ bytes[4] = a4
  OBVIOUS
<1>2. Z \in [0 .. 4 -> Knowledge] /\ Z[0] = z0 /\ Z[1] = z1 /\ Z[2] = z2 /\ Z[3] = z3 /\ Z[4] = z4
  OBVIOUS
<1> HIDE DEF bytes, Z
<1>3. ASSUME NEW i \in 1 .. 4 PROVE Z[i] = Learns(Z[i - 1], bytes[i])
  <2>1. (i = 1 /\ i - 1 = 0) \/ (i = 2 /\ i - 1 = 1) \/ (i = 3 /\ i - 1 = 2) \/ (i = 4 /\ i - 1 = 3)
    OBVIOUS
  <2> QED
    BY <1>1, <1>2, <2>1
<1>4. Lead(bytes, z0, z4)
  BY <1>1, <1>2, <1>3 DEF Lead
<1> QED
  BY <1>4 DEF bytes

LEMMA LeadSix ==
    ASSUME NEW a1, NEW a2, NEW a3, NEW a4, NEW a5, NEW a6,
           NEW z0 \in Knowledge, NEW z1 \in Knowledge, NEW z2 \in Knowledge, NEW z3 \in Knowledge, NEW z4 \in Knowledge, NEW z5 \in Knowledge, NEW z6 \in Knowledge,
           z1 = Learns(z0, a1), z2 = Learns(z1, a2), z3 = Learns(z2, a3), z4 = Learns(z3, a4), z5 = Learns(z4, a5), z6 = Learns(z5, a6)
    PROVE  Lead(<<a1, a2, a3, a4, a5, a6>>, z0, z6)
<1> DEFINE bytes == <<a1, a2, a3, a4, a5, a6>>
           Z == [i \in 0 .. 6 |-> IF i = 0 THEN z0 ELSE IF i = 1 THEN z1 ELSE IF i = 2 THEN z2 ELSE IF i = 3 THEN z3 ELSE IF i = 4 THEN z4 ELSE IF i = 5 THEN z5 ELSE z6]
<1>1. Len(bytes) = 6 /\ bytes[1] = a1 /\ bytes[2] = a2 /\ bytes[3] = a3 /\ bytes[4] = a4 /\ bytes[5] = a5 /\ bytes[6] = a6
  OBVIOUS
<1>2. Z \in [0 .. 6 -> Knowledge] /\ Z[0] = z0 /\ Z[1] = z1 /\ Z[2] = z2 /\ Z[3] = z3 /\ Z[4] = z4 /\ Z[5] = z5 /\ Z[6] = z6
  OBVIOUS
<1> HIDE DEF bytes, Z
<1>3. ASSUME NEW i \in 1 .. 6 PROVE Z[i] = Learns(Z[i - 1], bytes[i])
  <2>1. (i = 1 /\ i - 1 = 0) \/ (i = 2 /\ i - 1 = 1) \/ (i = 3 /\ i - 1 = 2) \/ (i = 4 /\ i - 1 = 3) \/ (i = 5 /\ i - 1 = 4) \/ (i = 6 /\ i - 1 = 5)
    OBVIOUS
  <2> QED
    BY <1>1, <1>2, <2>1
<1>4. Lead(bytes, z0, z6)
  BY <1>1, <1>2, <1>3 DEF Lead
<1> QED
  BY <1>4 DEF bytes

\* What the single bytes do.
LEMMA LearnsPrefix ==
    ASSUME NEW m \in SUBSET Modifiers, NEW c \in Codes, NEW b, b.code \notin Digits
    PROVE  /\ Learns(<<m, "none", c>>, E0) = <<m, "E0", c>>
           /\ Learns(<<m, "E0", c>>, b) = <<m, "none", c>>
           /\ b # E0 /\ b.code \notin Modifiers => Learns(<<m, "none", c>>, b) = <<m, "none", c>>
BY DEF Learns, Held, E0, Modifiers

LEMMA LearnsModifier ==
    ASSUME NEW m \in SUBSET Modifiers, NEW c \in Codes, NEW k \in Modifiers
    PROVE  /\ Learns(<<m, "none", c>>, Down(k)) = <<m \cup {k}, "none", c>>
           /\ Learns(<<m, "none", c>>, Up(k)) = <<m \ {k}, "none", c>>
BY DEF Learns, Held, Down, Up, E0, Modifiers, Digits

LEMMA LearnsKey ==
    ASSUME NEW m \in SUBSET Modifiers, NEW c \in Codes, NEW k, k \notin Modifiers, k # "E0"
    PROVE  /\ Learns(<<m, "none", c>>, Down(k)) =
                <<m, "none", IF k \in Digits /\ m \cap Shifts = {} /\ "Ctrl" \in m THEN k ELSE c>>
           /\ Learns(<<m, "none", c>>, Up(k)) = <<m, "none", c>>
BY DEF Learns, Held, Down, Up, E0

LEMMA KnowledgeTypes ==
    ASSUME KeyboardTypes
    PROVE  Pressed \in Knowledge /\ keysDown \cap Modifiers \in SUBSET Modifiers /\ chosenTty \in Codes
BY DEF KeyboardTypes, Pressed, Knowledge

\* The keyboard sends what tells handle_key of a change.
LEMMA KeySent ==
    ASSUME KeyboardInv, NEW bytes \in Seq(KeyByte), Send(bytes),
           keysDown' \subseteq Keys, chosenTty' \in Codes, Lead(bytes, Pressed, Pressed')
    PROVE  KeyboardInv'
<1> DEFINE room == KeyBuffer - Len(keyBytes)
           n == IF Len(bytes) <= room THEN Len(bytes) ELSE room
<1>0. KeyboardTypes /\ keyBytes \in Seq(KeyByte)
  BY DEF KeyboardInv, KeyboardTypes
<1>1. /\ ~keyLost /\ keyBytes' = keyBytes \o SubSeq(bytes, 1, n) /\ (keyLost' <=> n < Len(bytes))
      /\ UNCHANGED <<modifiers, previous_key, current_tty>>
  BY DEF Send
<1>2. Len(bytes) \in Nat /\ Len(keyBytes) \in Nat
  BY <1>0, LenProperties
<1>3. n \in Int /\ n <= Len(bytes)
  BY <1>2, KeyboardAssumption
<1> HIDE DEF n
<1>4. keyBytes' \in Seq(KeyByte)
  <2>1. \A i \in 1 .. n : bytes[i] \in KeyByte
    BY <1>2, <1>3, ElementOfSeq
  <2>2. SubSeq(bytes, 1, n) \in Seq(KeyByte)
    BY <1>3, <2>1, SubSeqProperties
  <2> QED
    BY <1>0, <1>1, <2>2, ConcatProperties
<1>5. KeyboardTypes'
  BY <1>0, <1>1, <1>4 DEF KeyboardTypes
<1>6. ASSUME ~keyLost' PROVE Lead(keyBytes', Believed', Pressed')
  <2>1. n = Len(bytes)
    BY <1>1, <1>2, <1>3, <1>6
  <2>2. keyBytes' = keyBytes \o bytes
    BY <1>1, <2>1, SubSeqFull
  <2>3. Believed' = Believed
    BY <1>1 DEF Believed
  <2>4. Lead(keyBytes, Believed, Pressed)
    BY <1>1 DEF KeyboardInv
  <2>5. Lead(keyBytes \o bytes, Believed, Pressed')
    BY <1>0, <2>4, LeadConcat
  <2> QED
    BY <2>2, <2>3, <2>5
<1> QED
  BY <1>5, <1>6 DEF KeyboardInv

LEMMA KeyBytes ==
    ASSUME NEW k \in Codes
    PROVE  Down(k) \in KeyByte /\ Up(k) \in KeyByte /\ E0 \in KeyByte /\ E1 \in KeyByte
BY DEF Down, Up, E0, E1, KeyByte, Codes

\* A key that sends one byte, one that sends a prefix, and Print Screen, going
\* down or up.
LEMMA KeyKeeps ==
    ASSUME NEW k \in Keys, KeyboardInv, KeyPressed(k) \/ KeyReleased(k)
    PROVE  KeyboardInv'
<1> DEFINE m == keysDown \cap Modifiers
<1>0. KeyboardTypes /\ Pressed \in Knowledge /\ m \in SUBSET Modifiers /\ chosenTty \in Codes
  BY KnowledgeTypes DEF KeyboardInv
<1>1. /\ k \in Codes /\ k # "E0"
      /\ "LeftShift" \in Codes /\ "37" \in Codes /\ "Alt" \in Codes /\ "Ctrl" \in Codes /\ "Left_Arrow" \in Codes
  BY KeyboardAssumption DEF Codes, Modifiers
<1>2. keysDown' \subseteq Keys /\ chosenTty' \in Codes
  BY <1>0, <1>1 DEF KeyPressed, KeyReleased, KeyboardTypes
<1>3. CASE k = "PrintScreen"
  <2>1. keysDown' \cap Modifiers = m /\ chosenTty' = chosenTty
    BY <1>3 DEF KeyPressed, KeyReleased, Modifiers, Digits
  <2>2. Pressed' = Pressed /\ Pressed = <<m, "none", chosenTty>>
    BY <2>1 DEF Pressed
  <2>3. <<m, "E0", chosenTty>> \in Knowledge
    BY <1>0 DEF Knowledge
  <2>4. ASSUME NEW b \in KeyByte, NEW d \in KeyByte, b.code \notin Digits, d.code \notin Digits, Send(<<E0, b, E0, d>>)
        PROVE  KeyboardInv'
    <3>1. /\ Learns(<<m, "none", chosenTty>>, E0) = <<m, "E0", chosenTty>>
          /\ Learns(<<m, "E0", chosenTty>>, b) = <<m, "none", chosenTty>>
          /\ Learns(<<m, "E0", chosenTty>>, d) = <<m, "none", chosenTty>>
      BY <1>0, <2>4, LearnsPrefix
    <3>2. Lead(<<E0, b, E0, d>>, Pressed, Pressed)
      BY <1>0, <2>2, <2>3, <3>1, LeadFour
    <3>3. <<E0, b, E0, d>> \in Seq(KeyByte)
      BY <1>1, KeyBytes
    <3> QED
      BY <1>2, <2>2, <2>4, <3>2, <3>3, KeySent
  <2>5. /\ Down("LeftShift") \in KeyByte /\ Up("LeftShift") \in KeyByte
        /\ Down("37") \in KeyByte /\ Up("37") \in KeyByte
    BY <1>1, KeyBytes
  <2>6. /\ Down("LeftShift").code \notin Digits /\ Up("LeftShift").code \notin Digits
        /\ Down("37").code \notin Digits /\ Up("37").code \notin Digits
    BY DEF Down, Up, Digits
  <2>7. Send(<<E0, Down("LeftShift"), E0, Down("37")>>) \/ Send(<<E0, Up("37"), E0, Up("LeftShift")>>)
    BY <1>3 DEF KeyPressed, KeyReleased, Press, Release
  <2> QED
    BY <2>4, <2>5, <2>6, <2>7
<1>4. CASE k \in DOMAIN Prefixed
  <2>0. DOMAIN Prefixed = {"RightAlt", "RightCtrl", "Left"} /\ Prefixed[k] \in {"Alt", "Ctrl", "Left_Arrow"}
    BY <1>4 DEF Prefixed
  <2>1. keysDown' \cap Modifiers = m /\ chosenTty' = chosenTty /\ k # "PrintScreen"
    BY <1>4, <2>0 DEF KeyPressed, KeyReleased, Modifiers, Digits
  <2>2. Pressed' = Pressed /\ Pressed = <<m, "none", chosenTty>>
    BY <2>1 DEF Pressed
  <2>3. <<m, "E0", chosenTty>> \in Knowledge
    BY <1>0 DEF Knowledge
  <2>4. ASSUME NEW b \in KeyByte, b.code \notin Digits, Send(<<E0, b>>) PROVE KeyboardInv'
    <3>1. /\ Learns(<<m, "none", chosenTty>>, E0) = <<m, "E0", chosenTty>>
          /\ Learns(<<m, "E0", chosenTty>>, b) = <<m, "none", chosenTty>>
      BY <1>0, <2>4, LearnsPrefix
    <3>2. Lead(<<E0, b>>, Pressed, Pressed)
      BY <1>0, <2>2, <2>3, <3>1, LeadTwo
    <3>3. <<E0, b>> \in Seq(KeyByte)
      BY <1>1, KeyBytes
    <3> QED
      BY <1>2, <2>2, <2>4, <3>2, <3>3, KeySent
  <2>5. Down(Prefixed[k]) \in KeyByte /\ Up(Prefixed[k]) \in KeyByte
    BY <1>1, <2>0, KeyBytes
  <2>6. Down(Prefixed[k]).code \notin Digits /\ Up(Prefixed[k]).code \notin Digits
    BY <2>0 DEF Down, Up, Digits
  <2>7. Send(<<E0, Down(Prefixed[k])>>) \/ Send(<<E0, Up(Prefixed[k])>>)
    BY <1>4, <2>1 DEF KeyPressed, KeyReleased, Press, Release
  <2> QED
    BY <2>4, <2>5, <2>6, <2>7
<1>5. CASE k # "PrintScreen" /\ k \notin DOMAIN Prefixed
  <2>1. Pressed = <<m, "none", chosenTty>>
    BY DEF Pressed
  <2>2. Down(k) \in KeyByte /\ Up(k) \in KeyByte
    BY <1>1, KeyBytes
  <2>3. <<Down(k)>> \in Seq(KeyByte) /\ <<Up(k)>> \in Seq(KeyByte)
    BY <2>2
  <2>4. CASE KeyPressed(k)
    <3>1. /\ keysDown' = keysDown \cup {k} /\ Send(<<Down(k)>>)
          /\ chosenTty' = IF k \in Digits /\ "Ctrl" \in keysDown /\ keysDown \cap Shifts = {}
                          THEN k ELSE chosenTty
      BY <1>5, <2>4 DEF KeyPressed, Press
    <3>2. Pressed' \in Knowledge
      BY <1>2 DEF Pressed, Knowledge
    <3>3. CASE k \in Modifiers
      <4>1. keysDown' \cap Modifiers = m \cup {k} /\ chosenTty' = chosenTty
        BY <3>1, <3>3 DEF Modifiers, Digits
      <4>2. Pressed' = <<m \cup {k}, "none", chosenTty>>
        BY <4>1 DEF Pressed
      <4>3. Pressed' = Learns(Pressed, Down(k))
        BY <1>0, <2>1, <3>3, <4>2, LearnsModifier
      <4> QED
        BY <1>0, <1>2, <2>3, <3>1, <3>2, <4>3, LeadOne, KeySent
    <3>4. CASE k \notin Modifiers
      <4>1. keysDown' \cap Modifiers = m
        BY <3>1, <3>4
      <4>2. ("Ctrl" \in keysDown <=> "Ctrl" \in m) /\ (keysDown \cap Shifts = {} <=> m \cap Shifts = {})
        BY DEF Modifiers, Shifts
      <4>3. Pressed' = <<m, "none", IF k \in Digits /\ m \cap Shifts = {} /\ "Ctrl" \in m THEN k ELSE chosenTty>>
        BY <3>1, <4>1, <4>2 DEF Pressed
      <4>4. Pressed' = Learns(Pressed, Down(k))
        BY <1>0, <1>1, <2>1, <3>4, <4>3, LearnsKey
      <4> QED
        BY <1>0, <1>2, <2>3, <3>1, <3>2, <4>4, LeadOne, KeySent
    <3> QED
      BY <3>3, <3>4
  <2>5. CASE KeyReleased(k)
    <3>1. keysDown' = keysDown \ {k} /\ Send(<<Up(k)>>) /\ chosenTty' = chosenTty
      BY <1>5, <2>5 DEF KeyReleased, Release
    <3>2. Pressed' \in Knowledge
      BY <1>2 DEF Pressed, Knowledge
    <3>3. keysDown' \cap Modifiers = m \ {k} /\ (k \notin Modifiers => m \ {k} = m)
      BY <3>1
    <3>4. Pressed' = <<m \ {k}, "none", chosenTty>>
      BY <3>1, <3>3 DEF Pressed
    <3>5. Pressed' = Learns(Pressed, Up(k))
      <4>1. CASE k \in Modifiers
        BY <1>0, <2>1, <3>4, <4>1, LearnsModifier
      <4>2. CASE k \notin Modifiers
        <5>1. m \ {k} = m
          BY <3>3, <4>2
        <5>2. Learns(<<m, "none", chosenTty>>, Up(k)) = <<m, "none", chosenTty>>
          BY <1>0, <1>1, <4>2, LearnsKey
        <5> HIDE DEF m
        <5> QED
          BY <2>1, <3>4, <5>1, <5>2
      <4> QED
        BY <4>1, <4>2
    <3> QED
      BY <1>0, <1>2, <2>3, <3>1, <3>2, <3>5, LeadOne, KeySent
  <2> QED
    BY <2>4, <2>5
<1> QED
  BY <1>3, <1>4, <1>5

\* Pause sends a Ctrl that goes down and up again.
LEMMA PauseKeeps == KeyboardInv /\ KeyPause => KeyboardInv'
<1> SUFFICES ASSUME KeyboardInv, KeyPause PROVE KeyboardInv'
  OBVIOUS
<1> DEFINE m == keysDown \cap Modifiers
           z == <<m, "none", chosenTty>>
           ctrl == <<m \cup {"Ctrl"}, "none", chosenTty>>
<1>0. /\ KeyboardTypes /\ Pressed \in Knowledge /\ m \in SUBSET Modifiers /\ chosenTty \in Codes
      /\ "Ctrl" \in Modifiers /\ m \cup {"Ctrl"} \in SUBSET Modifiers
  BY KnowledgeTypes DEF KeyboardInv, Modifiers
<1>1. UNCHANGED <<keysDown, chosenTty>> /\ "Ctrl" \notin m /\ Send(PausePressed)
  BY DEF KeyPause
<1>2. Pressed = z /\ Pressed' = z /\ (m \cup {"Ctrl"}) \ {"Ctrl"} = m
  BY <1>1 DEF Pressed
<1>3. ctrl \in Knowledge
  BY <1>0 DEF Knowledge
<1>4. ASSUME NEW y \in SUBSET Modifiers
      PROVE  /\ Learns(<<y, "none", chosenTty>>, E1) = <<y, "none", chosenTty>>
             /\ Learns(<<y, "none", chosenTty>>, Down("45")) = <<y, "none", chosenTty>>
             /\ Learns(<<y, "none", chosenTty>>, Up("45")) = <<y, "none", chosenTty>>
  <2>1. E1 # E0 /\ E1.code \notin Digits /\ E1.code \notin Modifiers
    BY DEF E1, E0, Digits, Modifiers
  <2>2. "45" \notin Modifiers /\ "45" \notin Digits /\ "45" # "E0"
    BY DEF Modifiers, Digits
  <2>3. Learns(<<y, "none", chosenTty>>, E1) = <<y, "none", chosenTty>>
    BY <1>0, <2>1, LearnsPrefix
  <2>4. /\ Learns(<<y, "none", chosenTty>>, Down("45")) =
              <<y, "none", IF "45" \in Digits /\ y \cap Shifts = {} /\ "Ctrl" \in y
                           THEN "45" ELSE chosenTty>>
        /\ Learns(<<y, "none", chosenTty>>, Up("45")) = <<y, "none", chosenTty>>
    BY <1>0, <2>2, LearnsKey
  <2> QED
    BY <2>2, <2>3, <2>4
<1>5. Learns(z, Down("Ctrl")) = ctrl /\ Learns(ctrl, Up("Ctrl")) = z
  <2>1. Learns(<<m, "none", chosenTty>>, Down("Ctrl")) = <<m \cup {"Ctrl"}, "none", chosenTty>>
    BY <1>0, LearnsModifier
  <2>2. Learns(<<m \cup {"Ctrl"}, "none", chosenTty>>, Up("Ctrl"))
          = <<(m \cup {"Ctrl"}) \ {"Ctrl"}, "none", chosenTty>>
    BY <1>0, LearnsModifier
  <2>3. (m \cup {"Ctrl"}) \ {"Ctrl"} = m
    BY <1>2
  <2> HIDE DEF m
  <2> QED
    BY <2>1, <2>2, <2>3
<1>6. Lead(PausePressed, z, z)
  BY <1>0, <1>2, <1>3, <1>4, <1>5, LeadSix DEF PausePressed
<1>7. PausePressed \in Seq(KeyByte)
  <2>1. "Ctrl" \in Codes /\ "45" \in Codes
    BY <1>0 DEF Codes
  <2> QED
    BY <2>1, KeyBytes DEF PausePressed
<1> QED
  BY <1>0, <1>1, <1>2, <1>6, <1>7, KeySent DEF KeyboardTypes

LEMMA HandlerKeeps == KeyboardInv /\ (HandlePrefix \/ HandleKey) => KeyboardInv'
<1> SUFFICES ASSUME KeyboardInv, HandlePrefix \/ HandleKey PROVE KeyboardInv'
  OBVIOUS
<1> DEFINE byte == Head(keyBytes)
<1>0. KeyboardTypes /\ keyBytes \in Seq(KeyByte)
  BY DEF KeyboardInv, KeyboardTypes
<1>1. /\ keyBytes # <<>> /\ keyBytes' = Tail(keyBytes)
      /\ UNCHANGED <<keysDown, chosenTty>> /\ (keyLost' <=> keyLost)
  BY DEF HandlePrefix, HandleKey
<1>2. byte \in KeyByte /\ keyBytes' \in Seq(KeyByte)
  BY <1>0, <1>1, HeadTailProperties
<1>3. Pressed' = Pressed
  BY <1>1 DEF Pressed
<1>4. Believed' = Learns(Believed, byte) /\ previous_key' \in {"none", "E0"} /\ current_tty' \in Codes
  <2>1. CASE HandlePrefix
    <3>1. /\ byte = E0 /\ previous_key = "none" /\ previous_key' = "E0"
          /\ UNCHANGED <<modifiers, current_tty>>
      BY <2>1 DEF HandlePrefix
    <3>2. Believed = <<modifiers \cap Modifiers, "none", current_tty>>
      BY <3>1 DEF Believed
    <3>3. Believed' = <<modifiers \cap Modifiers, "E0", current_tty>>
      BY <3>1 DEF Believed
    <3>4. modifiers \cap Modifiers \in SUBSET Modifiers /\ current_tty \in Codes /\ E0.code \notin Digits
      BY <1>0 DEF KeyboardTypes, E0, Digits
    <3> QED
      BY <3>1, <3>2, <3>3, <3>4, LearnsPrefix
  <2>2. CASE HandleKey
    <3>1. /\ ~(byte = E0 /\ previous_key = "none") /\ previous_key' = "none"
          /\ modifiers' = {IF byte.up THEN "KeyUp" ELSE "KeyDown"} \cup
               (IF previous_key = "E0" \/ byte.code \notin Modifiers THEN modifiers \ {"KeyUp", "KeyDown"}
                ELSE IF byte.up THEN (modifiers \ {"KeyUp", "KeyDown"}) \ {byte.code}
                ELSE (modifiers \ {"KeyUp", "KeyDown"}) \cup {byte.code})
          /\ current_tty' = IF /\ ~byte.up /\ byte.code \in Digits
                               /\ modifiers' \cap Shifts = {} /\ "Ctrl" \in modifiers'
                            THEN byte.code ELSE current_tty
      BY <2>2 DEF HandleKey, PrefixAfter
    <3>2. modifiers' \cap Modifiers = Held(Believed, byte)
      <4>1. "KeyUp" \notin Modifiers /\ "KeyDown" \notin Modifiers
        BY DEF Modifiers
      <4>2. Believed[1] = modifiers \cap Modifiers /\ Believed[2] = previous_key
        BY DEF Believed
      <4> HIDE DEF byte
      <4> QED
        BY <3>1, <4>1, <4>2 DEF Held
    <3>3. /\ modifiers' \cap Shifts = {} <=> Held(Believed, byte) \cap Shifts = {}
          /\ "Ctrl" \in modifiers' <=> "Ctrl" \in Held(Believed, byte)
      BY <3>2 DEF Modifiers, Shifts
    <3>4. Believed[2] = previous_key /\ Believed[3] = current_tty
      BY DEF Believed
    <3>5. current_tty' \in Codes
      BY <1>0, <1>2, <3>1 DEF KeyboardTypes, KeyByte
    <3>6. Believed' = <<Held(Believed, byte), "none", current_tty'>>
      BY <3>1, <3>2 DEF Believed
    <3> QED
      BY <3>1, <3>3, <3>4, <3>5, <3>6 DEF Learns
  <2> QED
    BY <2>1, <2>2
<1>5. KeyboardTypes'
  BY <1>0, <1>1, <1>2, <1>4 DEF KeyboardTypes
<1>6. ASSUME ~keyLost' PROVE Lead(keyBytes', Believed', Pressed')
  <2>1. Lead(keyBytes, Believed, Pressed)
    BY <1>1, <1>6 DEF KeyboardInv
  <2>2. Lead(Tail(keyBytes), Learns(Believed, byte), Pressed)
    BY <1>0, <1>1, <2>1, LeadTail
  <2> QED
    BY <1>1, <1>3, <1>4, <2>2
<1> QED
  BY <1>5, <1>6 DEF KeyboardInv

\* handle_key knows the modifiers that are held once it has had every byte, none
\* being lost, and shows the terminal chosen last: a key on the right, Print
\* Screen and Pause leave nothing behind, in whatever order keys go down and up.
THEOREM MatchedModifiers == KeyboardSpec => []ModifiersMatch
<1>1. KeyboardInit => KeyboardInv
  <2> SUFFICES ASSUME KeyboardInit PROVE KeyboardInv
    OBVIOUS
  <2>1. KeyboardTypes
    BY DEF KeyboardInit, KeyboardTypes, Codes
  <2>2. Believed = Pressed /\ keyBytes = <<>>
    BY DEF KeyboardInit, Believed, Pressed
  <2>3. Lead(keyBytes, Believed, Pressed)
    BY <2>1, <2>2, KnowledgeTypes, LeadNowhere
  <2> QED
    BY <2>1, <2>3 DEF KeyboardInv
<1>2. KeyboardInv /\ [KeyboardNext]_keyboardVars => KeyboardInv'
  <2>1. KeyboardInv /\ UNCHANGED keyboardVars => KeyboardInv'
    BY DEF KeyboardInv, KeyboardTypes, Believed, Pressed, keyboardVars
  <2> QED
    BY <2>1, KeyKeeps, PauseKeeps, HandlerKeeps DEF KeyboardNext
<1>3. KeyboardInv => ModifiersMatch
  <2> SUFFICES ASSUME KeyboardInv, keyBytes = <<>>, ~keyLost
               PROVE  /\ modifiers \cap Modifiers = keysDown \cap Modifiers
                      /\ previous_key = "none" /\ current_tty = chosenTty
    BY DEF ModifiersMatch
  <2>1. Believed = Pressed
    BY LeadEmpty DEF KeyboardInv
  <2> QED
    BY <2>1 DEF Believed, Pressed
<1> QED
  BY <1>1, <1>2, <1>3, PTL DEF KeyboardSpec

-----------------------------------------------------------------------------
(* The clock. *)

\* A time of the battery clock; its day may have become one more than a month has.
OnClock(t) ==
    /\ t \in [Fields -> Nat]
    /\ t.second < 60 /\ t.minute < 60 /\ t.hour < 24
    /\ t.day \in 1 .. 32 /\ t.month \in 1 .. 12 /\ t.year < 100

\* The registers that INIT_RTC has read when it comes to one.
ReadBefore == [second |-> {}, minute |-> {"second"}, hour |-> {"second", "minute"},
               day |-> {"second", "minute", "hour"}, month |-> {"second", "minute", "hour", "day"},
               year |-> {"second", "minute", "hour", "day", "month"}, store |-> Fields]

Reading == clockPc \in Fields \cup {"store"}

ClockTypes ==
    /\ clockPc \in Fields \cup {"off", "wait", "store", "run"}
    /\ registers \in [Fields -> Nat]
    /\ TimeSinceBoot \in Nat /\ TickLength \in Nat /\ TickLength < Second
    /\ clockPc # "run" => TimeSinceBoot = 0

\* From the wait to the last read the battery clock stands still.
RegistersTrue ==
    /\ clockPc \notin {"off", "run"} => OnClock(rtc)
    /\ Reading => grace /\ shown = rtc /\ \A f \in ReadBefore[clockPc] : registers[f] = READ_RTC_REGISTER(f)

\* The time is right, the month has changed, or it is December, which is over at
\* once.  Before the first second the hour may be 24.
TimeRight ==
    /\ SYSTEM_TIME \in [Fields -> Nat]
    /\ SYSTEM_TIME.second < 60 /\ SYSTEM_TIME.minute < 60
    /\ SYSTEM_TIME.month = shown.month /\ SYSTEM_TIME.year = 2000 + shown.year
    /\ SecondsOfMonth(SYSTEM_TIME) + 8 * 3600 = SecondsOfMonth(shown) + (TimeSinceBoot \div Second)
    /\ SYSTEM_TIME.hour <= 24
    /\ SYSTEM_TIME.hour = 24 => ~(SYSTEM_TIME.minute = 59 /\ SYSTEM_TIME.second = 59)
    /\ TimeSinceBoot >= Second => SYSTEM_TIME.hour < 24 /\ SYSTEM_TIME.day < 30

TimeKept ==
    (clockPc = "run") =>
        /\ OnClock(shown)
        /\ ~LosesHour(shown) =>
             \/ TimeRight
             \/ SecondsOfMonth(shown) + (TimeSinceBoot \div Second) >= (30 * 24 + 8) * 3600
             \/ shown.month = 12 /\ TimeSinceBoot >= Second

ClockInv == ClockTypes /\ RegistersTrue /\ TimeKept

LEMMA BcdBack ==
    ASSUME NEW n \in Nat, n < 100
    PROVE  ToBcd(n) \in Nat /\ bcd_to_int(ToBcd(n)) = n
<1>1. PICK q \in 0 .. 9, r \in 0 .. 9 : q = n \div 10 /\ r = n % 10 /\ n = q * 10 + r
  <2>1. n \div 10 \in 0 .. 9 /\ n % 10 \in 0 .. 9 /\ n = (n \div 10) * 10 + (n % 10)
    BY SMT
  <2> QED
    BY <2>1
<1>2. ToBcd(n) = q * 16 + r
  BY <1>1 DEF ToBcd
<1>3. (q * 16 + r) % 16 = r /\ (q * 16 + r) \div 16 = q
  BY SMT
<1> QED
  BY <1>1, <1>2, <1>3 DEF bcd_to_int

\* A tick is shorter than a second.
LEMMA TickShort ==
    ASSUME NEW T \in Nat, NEW L \in Nat, L < Second
    PROVE  /\ T \div Second \in Nat /\ (T + L) \div Second \in Nat
           /\ (T + L) \div Second \in {T \div Second, (T \div Second) + 1}
           /\ (T \div Second >= 1 <=> T >= Second)
           /\ ((T + L) \div Second >= 1 <=> T + L >= Second)
BY SMT DEF Second, BaseFrequency

LEMMA NoSecond == Second \in Nat \ {0} /\ 0 \div Second = 0
BY SMT DEF Second, BaseFrequency

LEMMA TickFits ==
    ASSUME NEW d \in Int, 100 <= d, d <= 65535 PROVE 101 * d \in Nat /\ 101 * d < Second
BY SMT DEF Second, BaseFrequency

\* SET_PIT_FREQUENCY keeps a tick shorter than a second.
LEMMA TickSet ==
    ASSUME NEW f \in Nat \ {0}, SET_PIT_FREQUENCY(f) PROVE TickLength' \in Nat /\ TickLength' < Second
<1>1. PICK n \in Int : n = BaseFrequency \div f
  BY SMT DEF BaseFrequency
<1>2. Divisor' = IF n % 65536 < 100 THEN 100 ELSE n % 65536
  BY <1>1, SMT DEF SET_PIT_FREQUENCY
<1>3. Divisor' \in Int /\ 100 <= Divisor' /\ Divisor' <= 65535
  BY <1>2, SMT
<1>4. TickLength' = 101 * Divisor'
  BY SMT DEF TickLength
<1> HIDE DEF TickLength
<1>5. Divisor' \in Int
  BY <1>3
<1>6. PICK d \in Int : d = Divisor'
  BY <1>5
<1>7. 100 <= d /\ d <= 65535
  BY <1>3, <1>6
<1>8. 101 * d \in Nat /\ 101 * d < Second
  BY <1>7, TickFits
<1> QED
  BY <1>4, <1>6, <1>8

LEMMA FieldsAre ==
    /\ "second" \in Fields /\ "minute" \in Fields /\ "hour" \in Fields
    /\ "day" \in Fields /\ "month" \in Fields /\ "year" \in Fields
BY DEF Fields

\* SYSTEM_TIME_INCREMENT adds a second, and changes the month when day 30 comes.
LEMMA OneSecond ==
    ASSUME NEW t \in [Fields -> Nat], t.second < 60, t.minute < 60, t.hour <= 24, t.month < 12,
           ~(t.hour = 24 /\ t.minute = 59 /\ t.second = 59)
    PROVE  LET u == SYSTEM_TIME_INCREMENT(t)
           IN  \/ /\ u \in [Fields -> Nat] /\ u.second < 60 /\ u.minute < 60 /\ u.hour < 24 /\ u.day < 30
                  /\ u.month = t.month /\ u.year = t.year
                  /\ SecondsOfMonth(u) = SecondsOfMonth(t) + 1
               \/ SecondsOfMonth(t) + 1 >= 30 * 24 * 3600
<1> USE FieldsAre
<1> DEFINE a == [t EXCEPT !.second = @ + 1]
           s == Carry(a, "second", 60, "minute")
           m == Carry(s, "minute", 60, "hour")
           h == Carry(m, "hour", 24, "day")
           d == Carry(h, "day", 30, "month")
           u == Carry(d, "month", 12, "year")
<1>1. /\ a \in [Fields -> Nat] /\ a["second"] = t.second + 1
      /\ \A f \in Fields \ {"second"} : a[f] = t[f]
  OBVIOUS
<1>2. /\ s \in [Fields -> Nat]
      /\ a["second"] >= 60 => s["second"] = 0 /\ s["minute"] = a["minute"] + 1
      /\ a["second"] < 60 => s["second"] = a["second"] /\ s["minute"] = a["minute"]
      /\ \A f \in Fields \ {"second", "minute"} : s[f] = a[f]
  <2> HIDE DEF a
  <2> QED
    BY <1>1 DEF Carry
<1>3. /\ m \in [Fields -> Nat]
      /\ s["minute"] >= 60 => m["minute"] = 0 /\ m["hour"] = s["hour"] + 1
      /\ s["minute"] < 60 => m["minute"] = s["minute"] /\ m["hour"] = s["hour"]
      /\ \A f \in Fields \ {"minute", "hour"} : m[f] = s[f]
  <2> HIDE DEF s
  <2> QED
    BY <1>2 DEF Carry
<1>4. /\ h \in [Fields -> Nat]
      /\ m["hour"] >= 24 => h["hour"] = 0 /\ h["day"] = m["day"] + 1
      /\ m["hour"] < 24 => h["hour"] = m["hour"] /\ h["day"] = m["day"]
      /\ \A f \in Fields \ {"hour", "day"} : h[f] = m[f]
  <2> HIDE DEF m
  <2> QED
    BY <1>3 DEF Carry
<1>5. u = SYSTEM_TIME_INCREMENT(t)
  BY DEF SYSTEM_TIME_INCREMENT
<1> HIDE DEF a, s, m, h
<1>6. /\ h["second"] = s["second"] /\ h["minute"] = m["minute"] /\ m["second"] = s["second"]
      /\ a["minute"] = t.minute /\ s["hour"] = t.hour /\ m["day"] = t.day
      /\ h["month"] = t.month /\ h["year"] = t.year
  BY <1>1, <1>2, <1>3, <1>4
<1>7. /\ h["second"] \in 0 .. 59 /\ h["minute"] \in 0 .. 59 /\ h["hour"] \in 0 .. 23 /\ h["day"] \in Nat
      /\ ((h["day"] * 24 + h["hour"]) * 60 + h["minute"]) * 60 + h["second"]
            = ((t.day * 24 + t.hour) * 60 + t.minute) * 60 + t.second + 1
  <2>1. /\ t.second \in Nat /\ t.minute \in Nat /\ t.hour \in Nat /\ t.day \in Nat
        /\ h["day"] \in Nat /\ h["hour"] \in Nat /\ h["minute"] \in Nat /\ h["second"] \in Nat
    BY <1>4
  <2>2. CASE t.second < 59
    BY <1>1, <1>2, <1>3, <1>4, <1>6, <2>1, <2>2
  <2>3. CASE t.second = 59
    BY <1>1, <1>2, <1>3, <1>4, <1>6, <2>1, <2>3
  <2> QED
    BY <2>1, <2>2, <2>3
<1>8. CASE h["day"] >= 30
  <2>1. ((t.day * 24 + t.hour) * 60 + t.minute) * 60 + t.second + 1 >= 30 * 24 * 3600
    <3>1. t.second \in Nat /\ t.minute \in Nat /\ t.hour \in Nat /\ t.day \in Nat
      OBVIOUS
    <3>2. ((h["day"] * 24 + h["hour"]) * 60 + h["minute"]) * 60 + h["second"] >= 30 * 24 * 3600
      <4>1. PICK hd \in Nat, hh \in Nat, hm \in Nat, hs \in Nat :
              hd = h["day"] /\ hh = h["hour"] /\ hm = h["minute"] /\ hs = h["second"]
        <5>1. h["day"] \in Nat /\ h["hour"] \in Nat /\ h["minute"] \in Nat /\ h["second"] \in Nat
          BY <1>4
        <5> QED
          BY <5>1
      <4>2. hd >= 30
        BY <1>8, <4>1
      <4>3. ((hd * 24 + hh) * 60 + hm) * 60 + hs >= 30 * 24 * 3600
        BY <4>2, SMT
      <4> QED
        BY <4>1, <4>3
    <3> QED
      BY <1>7, <3>1, <3>2
  <2> QED
    BY <2>1 DEF SecondsOfMonth
<1>9. CASE h["day"] < 30
  <2>1. d = h /\ u = h
    BY <1>6, <1>9, <1>4 DEF Carry
  <2>2. SecondsOfMonth(h) = SecondsOfMonth(t) + 1
    BY <1>7 DEF SecondsOfMonth
  <2> QED
    BY <1>4, <1>5, <1>6, <1>7, <1>9, <2>1, <2>2
<1> QED
  BY <1>7, <1>8, <1>9

LEMMA ClockStart == ClockInit => ClockInv
<1> SUFFICES ASSUME ClockInit PROVE ClockInv
  OBVIOUS
<1>1. ClockTypes
  <2>1. TickLength \in Nat /\ TickLength < Second
    BY SMT DEF ClockInit, TickLength, Second, BaseFrequency
  <2> QED
    BY <2>1 DEF ClockInit, ClockTypes, NoTime
<1>2. RegistersTrue /\ TimeKept
  BY DEF ClockInit, RegistersTrue, TimeKept, Reading, Fields
<1> QED
  BY <1>1, <1>2 DEF ClockInv

LEMMA ClockOneOn ==
    ASSUME NEW t \in PowerOnTimes PROVE OnClock(t) /\ OnClock(NextSecond(t))
<1> USE FieldsAre
<1>1. /\ t \in [Fields -> Nat] /\ t.second < 60 /\ t.minute < 60 /\ t.hour < 24
      /\ t.day \in 1 .. 31 /\ t.month \in 1 .. 12 /\ t.year < 100
  BY ClockAssumption
<1>2. OnClock(t)
  BY <1>1 DEF OnClock
<1> DEFINE s == t.second + 1
           m == t.minute + s \div 60
           h == t.hour + m \div 60
<1>3. s \in Nat /\ s % 60 \in 0 .. 59 /\ s \div 60 \in 0 .. 1
  BY <1>1
<1>4. m \in Nat /\ m % 60 \in 0 .. 59 /\ m \div 60 \in 0 .. 1
  <2> HIDE DEF s
  <2> QED
    BY <1>1, <1>3
<1>5. h \in Nat /\ h % 24 \in 0 .. 23 /\ h \div 24 \in 0 .. 1
  <2> HIDE DEF m
  <2> QED
    BY <1>1, <1>4
<1>6. NextSecond(t) = [t EXCEPT !.second = s % 60, !.minute = m % 60, !.hour = h % 24, !.day = @ + h \div 24]
  BY DEF NextSecond
<1> HIDE DEF s, m, h
<1>7. OnClock(NextSecond(t))
  <2> DEFINE u == NextSecond(t)
  <2>1. /\ u \in [Fields -> Nat]
        /\ u.second = s % 60 /\ u.minute = m % 60 /\ u.hour = h % 24 /\ u.day = t.day + h \div 24
        /\ u.month = t.month /\ u.year = t.year
    <3>1. PICK s1 \in Nat, m1 \in Nat, h1 \in Nat, d1 \in Nat :
            s1 = s % 60 /\ m1 = m % 60 /\ h1 = h % 24 /\ d1 = t.day + h \div 24
      <4>1. s % 60 \in Nat /\ m % 60 \in Nat /\ h % 24 \in Nat /\ h \div 24 \in Nat
        BY <1>3, <1>4, <1>5
      <4>2. t.day \in Nat
        BY <1>1
      <4>3. t.day + h \div 24 \in Nat
        BY <4>1, <4>2
      <4> QED
        BY <4>1, <4>3
    <3>2. u = [t EXCEPT !.second = s1, !.minute = m1, !.hour = h1, !.day = d1]
      BY <1>6, <3>1
    <3> HIDE DEF u
    <3>3. /\ u \in [Fields -> Nat]
          /\ u.second = s1 /\ u.minute = m1 /\ u.hour = h1 /\ u.day = d1
          /\ u.month = t.month /\ u.year = t.year
      BY <1>1, <3>2
    <3> QED
      BY <3>1, <3>3
  <2> HIDE DEF u
  <2>2. OnClock(u)
    BY <1>1, <1>3, <1>4, <1>5, <2>1 DEF OnClock
  <2> QED
    BY <2>2 DEF u
<1> QED
  BY <1>2, <1>7

\* INIT_RTC turns what it read into the time eight hours before.
LEMMA ClockStores == ClockInv /\ INIT_RTC_store => ClockInv'
<1> SUFFICES ASSUME ClockInv, INIT_RTC_store PROVE ClockInv'
  OBVIOUS
<1> USE FieldsAre
<1> DEFINE t == IF bcd THEN [f \in Fields |-> bcd_to_int(registers[f])] ELSE registers
<1>0. ClockTypes /\ RegistersTrue
  BY DEF ClockInv
<1>1. /\ clockPc = "store" /\ clockPc' = "run"
      /\ UNCHANGED <<rtc, bcd, updating, registers, TimeSinceBoot, Divisor, shown>>
  BY DEF INIT_RTC_store
<1>2. OnClock(shown) /\ rtc = shown /\ \A f \in Fields : registers[f] = READ_RTC_REGISTER(f)
  <2>1. ReadBefore["store"] = Fields
    BY DEF ReadBefore
  <2> QED
    BY <1>0, <1>1, <2>1 DEF RegistersTrue, Reading, Fields
<1>3. t = shown
  <2>1. \A f \in Fields : shown[f] \in Nat /\ shown[f] < 100
    BY <1>2 DEF OnClock, Fields
  <2>2. CASE bcd
    <3>1. \A f \in Fields : bcd_to_int(registers[f]) = shown[f]
      BY <1>2, <2>1, <2>2, BcdBack DEF READ_RTC_REGISTER
    <3>2. [f \in Fields |-> bcd_to_int(registers[f])] = [f \in Fields |-> shown[f]]
      BY <3>1
    <3>3. shown = [f \in Fields |-> shown[f]]
      BY <1>2 DEF OnClock
    <3> QED
      BY <2>2, <3>2, <3>3
  <2>3. CASE ~bcd
    <3>1. \A f \in Fields : registers[f] = shown[f]
      BY <1>2, <2>3 DEF READ_RTC_REGISTER
    <3>2. registers \in [Fields -> Nat] /\ shown \in [Fields -> Nat]
      BY <1>0, <1>2 DEF ClockTypes, OnClock
    <3> QED
      BY <2>3, <3>1, <3>2
  <2> QED
    BY <2>2, <2>3
<1> DEFINE y == [shown EXCEPT !.year = 2000 + @]
<1>4. SYSTEM_TIME' = IF shown.hour > 8 THEN [y EXCEPT !.hour = @ - 8]
                     ELSE [y EXCEPT !.hour = @ + 16, !.day = @ - 1]
  <2>1. SYSTEM_TIME' = IF t.hour > 8 THEN [[t EXCEPT !.year = 2000 + @] EXCEPT !.hour = @ - 8]
                       ELSE [[t EXCEPT !.year = 2000 + @] EXCEPT !.hour = @ + 16, !.day = @ - 1]
    BY DEF INIT_RTC_store
  <2> HIDE DEF t
  <2> QED
    BY <1>3, <2>1
<1>5. /\ shown \in [Fields -> Nat] /\ shown.second < 60 /\ shown.minute < 60 /\ shown.hour < 24
      /\ shown.day \in 1 .. 32
  BY <1>2 DEF OnClock
<1>6. TimeSinceBoot = 0 /\ TimeSinceBoot \div Second = 0 /\ ~(TimeSinceBoot >= Second)
  <2>1. TimeSinceBoot = 0
    BY <1>0, <1>1 DEF ClockTypes
  <2>2. 0 \div Second = 0 /\ Second \in Nat \ {0}
    BY NoSecond
  <2> QED
    BY <2>1, <2>2
<1>a. /\ y \in [Fields -> Nat] /\ y.hour = shown.hour /\ y.day = shown.day
      /\ y.minute = shown.minute /\ y.second = shown.second
      /\ y.month = shown.month /\ y.year = 2000 + shown.year
  BY <1>5
<1> HIDE DEF y
<1>7. ASSUME ~LosesHour(shown) PROVE TimeRight'
  <2>1. CASE shown.hour > 8
    <3>1. SYSTEM_TIME' = [y EXCEPT !.hour = @ - 8]
      BY <1>4, <2>1
    <3>2. /\ SYSTEM_TIME' \in [Fields -> Nat]
          /\ SYSTEM_TIME'.hour = shown.hour - 8 /\ SYSTEM_TIME'.day = shown.day
          /\ SYSTEM_TIME'.minute = shown.minute /\ SYSTEM_TIME'.second = shown.second
          /\ SYSTEM_TIME'.month = shown.month /\ SYSTEM_TIME'.year = 2000 + shown.year
      <4>1. PICK n \in Nat : n = y.hour - 8
        BY <1>5, <1>a, <2>1
      <4>2. SYSTEM_TIME' = [y EXCEPT !.hour = n]
        BY <3>1, <4>1
      <4> QED
        BY <1>a, <4>1, <4>2
    <3>3. SecondsOfMonth(SYSTEM_TIME') + 8 * 3600 = SecondsOfMonth(shown) + 0
      BY <1>5, <2>1, <3>2 DEF SecondsOfMonth
    <3> QED
      BY <1>1, <1>5, <1>6, <2>1, <3>2, <3>3 DEF TimeRight
  <2>2. CASE ~(shown.hour > 8)
    <3>1. SYSTEM_TIME' = [y EXCEPT !.hour = @ + 16, !.day = @ - 1]
      BY <1>4, <2>2
    <3>2. /\ SYSTEM_TIME' \in [Fields -> Nat]
          /\ SYSTEM_TIME'.hour = shown.hour + 16 /\ SYSTEM_TIME'.day = shown.day - 1
          /\ SYSTEM_TIME'.minute = shown.minute /\ SYSTEM_TIME'.second = shown.second
          /\ SYSTEM_TIME'.month = shown.month /\ SYSTEM_TIME'.year = 2000 + shown.year
      <4>1. PICK n \in Nat, d \in Nat : n = y.hour + 16 /\ d = y.day - 1
        BY <1>5, <1>a
      <4>2. SYSTEM_TIME' = [y EXCEPT !.hour = n, !.day = d]
        BY <3>1, <4>1
      <4>0. y \in [Fields -> Nat]
        BY <1>a
      <4>3. SYSTEM_TIME' \in [Fields -> Nat]
        BY <4>0, <4>2
      <4>4. SYSTEM_TIME'.hour = n /\ SYSTEM_TIME'.day = d
        BY <1>a, <4>2
      <4>5. \A f \in Fields \ {"hour", "day"} : SYSTEM_TIME'[f] = y[f]
        BY <4>0, <4>2
      <4> QED
        BY <1>a, <4>1, <4>3, <4>4, <4>5
    <3>3. SecondsOfMonth(SYSTEM_TIME') + 8 * 3600 = SecondsOfMonth(shown) + 0
      BY <1>5, <3>2 DEF SecondsOfMonth
    <3>4. SYSTEM_TIME'.hour <= 24
      BY <1>5, <2>2, <3>2
    <3>5. SYSTEM_TIME'.hour = 24 => ~(SYSTEM_TIME'.minute = 59 /\ SYSTEM_TIME'.second = 59)
      BY <1>5, <1>7, <3>2 DEF LosesHour
    <3> QED
      BY <1>1, <1>5, <1>6, <3>2, <3>3, <3>4, <3>5 DEF TimeRight
  <2> QED
    BY <2>1, <2>2
<1>8. ClockTypes'
  <2>1. TickLength' = TickLength
    BY <1>1 DEF TickLength
  <2> QED
    BY <1>0, <1>1, <2>1 DEF ClockTypes
<1>9. RegistersTrue'
  BY <1>1 DEF RegistersTrue, Reading, Fields
<1>10. TimeKept'
  BY <1>1, <1>2, <1>7 DEF TimeKept
<1> QED
  BY <1>8, <1>9, <1>10 DEF ClockInv

\* A tick adds a second at most.
LEMMA ClockTicks == ClockInv /\ PIT_TICK => ClockInv'
<1> SUFFICES ASSUME ClockInv, PIT_TICK PROVE ClockInv'
  OBVIOUS
<1>0. ClockTypes /\ RegistersTrue /\ TimeKept
  BY DEF ClockInv
<1>1. /\ clockPc = "run" /\ clockPc' = "run" /\ TimeSinceBoot' = TimeSinceBoot + TickLength
      /\ SYSTEM_TIME' = IF TimeSinceBoot' \div Second > TimeSinceBoot \div Second
                        THEN SYSTEM_TIME_INCREMENT(SYSTEM_TIME) ELSE SYSTEM_TIME
      /\ UNCHANGED <<bcd, registers, Divisor, shown>>
  BY DEF PIT_TICK, rtcVars
<1>2. TickLength \in Nat /\ TickLength < Second /\ TimeSinceBoot \in Nat /\ Second \in Nat
  BY <1>0, NoSecond DEF ClockTypes
<1>a. /\ TimeSinceBoot \div Second \in Nat /\ TimeSinceBoot' \div Second \in Nat
      /\ TimeSinceBoot' \div Second \in {TimeSinceBoot \div Second, (TimeSinceBoot \div Second) + 1}
      /\ (TimeSinceBoot \div Second >= 1 <=> TimeSinceBoot >= Second)
      /\ (TimeSinceBoot' \div Second >= 1 <=> TimeSinceBoot' >= Second)
  BY <1>1, <1>2, TickShort
<1>3. PICK e \in Nat, f \in Nat : e = TimeSinceBoot \div Second /\ f = TimeSinceBoot' \div Second
  BY <1>a
<1>4. (f = e \/ f = e + 1) /\ (e >= 1 <=> TimeSinceBoot >= Second) /\ (f >= 1 <=> TimeSinceBoot' >= Second)
  BY <1>a, <1>3
<1>5. ClockTypes'
  <2>1. TickLength' = TickLength /\ TimeSinceBoot' \in Nat
    BY <1>1, <1>2 DEF TickLength
  <2> QED
    BY <1>0, <1>1, <2>1 DEF ClockTypes
<1>6. RegistersTrue'
  BY <1>1 DEF RegistersTrue, Reading, Fields
<1>7. OnClock(shown)
  BY <1>0, <1>1 DEF TimeKept
<1>8. SecondsOfMonth(shown) \in Nat /\ shown.month \in 1 .. 12
  BY <1>7, FieldsAre DEF OnClock, SecondsOfMonth
<1>9. ASSUME ~LosesHour(shown)
      PROVE  \/ TimeRight'
             \/ SecondsOfMonth(shown) + f >= (30 * 24 + 8) * 3600
             \/ shown.month = 12 /\ f >= 1
  <2>1. \/ TimeRight
        \/ SecondsOfMonth(shown) + e >= (30 * 24 + 8) * 3600
        \/ shown.month = 12 /\ e >= 1
    BY <1>0, <1>1, <1>3, <1>4, <1>9 DEF TimeKept
  <2>2. CASE SecondsOfMonth(shown) + e >= (30 * 24 + 8) * 3600
    BY <1>4, <1>8, <2>2
  <2>3. CASE shown.month = 12 /\ e >= 1
    BY <1>4, <2>3
  <2>4. CASE TimeRight
    <3>1. CASE f = e
      <4>1. SYSTEM_TIME' = SYSTEM_TIME /\ f = e
        BY <1>1, <1>3, <3>1
      <4> QED
        BY <1>1, <1>3, <1>4, <2>4, <4>1 DEF TimeRight
    <3>2. CASE f = e + 1 /\ shown.month = 12
      BY <3>2
    <3>3. CASE f = e + 1 /\ shown.month # 12
      <4> DEFINE t == SYSTEM_TIME
                 u == SYSTEM_TIME_INCREMENT(t)
      <4>1. SYSTEM_TIME' = u /\ f >= 1
        BY <1>1, <1>3, <3>3
      <4>2. /\ t \in [Fields -> Nat] /\ t.second < 60 /\ t.minute < 60 /\ t.hour <= 24
            /\ t.month = shown.month /\ t.year = 2000 + shown.year
            /\ ~(t.hour = 24 /\ t.minute = 59 /\ t.second = 59)
            /\ SecondsOfMonth(t) + 8 * 3600 = SecondsOfMonth(shown) + e
        BY <1>3, <2>4 DEF TimeRight
      <4>3. t.month < 12
        BY <1>8, <3>3, <4>2
      <4>4. \/ /\ u \in [Fields -> Nat] /\ u.second < 60 /\ u.minute < 60 /\ u.hour < 24 /\ u.day < 30
               /\ u.month = t.month /\ u.year = t.year
               /\ SecondsOfMonth(u) = SecondsOfMonth(t) + 1
            \/ SecondsOfMonth(t) + 1 >= 30 * 24 * 3600
        BY <4>2, <4>3, OneSecond
      <4>5. SecondsOfMonth(t) \in Nat
        BY <4>2, FieldsAre DEF SecondsOfMonth
      <4> HIDE DEF t, u
      <4>6. CASE SecondsOfMonth(t) + 1 >= 30 * 24 * 3600
        BY <1>8, <3>3, <4>2, <4>5, <4>6
      <4>7. CASE /\ u \in [Fields -> Nat] /\ u.second < 60 /\ u.minute < 60 /\ u.hour < 24 /\ u.day < 30
                 /\ u.month = t.month /\ u.year = t.year
                 /\ SecondsOfMonth(u) = SecondsOfMonth(t) + 1
        <5>1. SecondsOfMonth(u) + 8 * 3600 = SecondsOfMonth(shown) + f
          BY <1>8, <3>3, <4>2, <4>5, <4>7
        <5>2. u.hour \in Nat
          BY <4>7, FieldsAre
        <5> QED
          BY <1>1, <1>3, <4>1, <4>2, <4>7, <5>1, <5>2 DEF TimeRight
      <4> QED
        BY <4>4, <4>6, <4>7
    <3> QED
      BY <1>4, <3>1, <3>2, <3>3
  <2> QED
    BY <2>1, <2>2, <2>3, <2>4
<1>10. TimeKept'
  BY <1>1, <1>3, <1>4, <1>7, <1>9 DEF TimeKept
<1> QED
  BY <1>5, <1>6, <1>10 DEF ClockInv

\* INIT_RTC reads one register after the other; the battery clock waits.
LEMMA ClockReads == ClockInv /\ INIT_RTC_read => ClockInv'
<1> SUFFICES ASSUME ClockInv, INIT_RTC_read PROVE ClockInv'
  OBVIOUS
<1> USE FieldsAre
<1>0. ClockTypes /\ RegistersTrue
  BY DEF ClockInv
<1>1. /\ clockPc \in Fields /\ clockPc' = After[clockPc]
      /\ registers' = [registers EXCEPT ![clockPc] = READ_RTC_REGISTER(clockPc)]
      /\ UNCHANGED <<rtc, bcd, grace, TimeSinceBoot, Divisor, shown>>
  BY DEF INIT_RTC_read, rtcVars
<1>2. /\ After[clockPc] \in Fields \cup {"store"} /\ After[clockPc] \notin {"off", "run"}
      /\ ReadBefore[After[clockPc]] \subseteq ReadBefore[clockPc] \cup {clockPc}
      /\ ReadBefore[After[clockPc]] \subseteq Fields
  BY <1>1 DEF After, ReadBefore, Fields
<1>3. clockPc \notin {"off", "run", "wait"}
  BY <1>1 DEF Fields
<1>4. /\ OnClock(rtc) /\ grace /\ shown = rtc
      /\ \A f \in ReadBefore[clockPc] : registers[f] = READ_RTC_REGISTER(f)
  BY <1>0, <1>1, <1>3 DEF RegistersTrue, Reading
<1>5. READ_RTC_REGISTER(clockPc) \in Nat /\ \A f : READ_RTC_REGISTER(f)' = READ_RTC_REGISTER(f)
  <2>1. rtc[clockPc] \in Nat /\ rtc[clockPc] < 100
    BY <1>1, <1>4 DEF OnClock, Fields
  <2>2. READ_RTC_REGISTER(clockPc) \in Nat
    BY <2>1, BcdBack DEF READ_RTC_REGISTER
  <2> QED
    BY <1>1, <2>2 DEF READ_RTC_REGISTER
<1>6. registers' \in [Fields -> Nat]
  BY <1>0, <1>1, <1>5 DEF ClockTypes
<1>7. ClockTypes'
  <2>1. TickLength' = TickLength
    BY <1>1 DEF TickLength
  <2>2. TimeSinceBoot' = 0
    BY <1>0, <1>1, <1>3 DEF ClockTypes
  <2> QED
    BY <1>0, <1>1, <1>2, <1>6, <2>1, <2>2 DEF ClockTypes
<1>8. ASSUME NEW f \in ReadBefore[clockPc'] PROVE registers'[f] = READ_RTC_REGISTER(f)'
  <2>1. f \in Fields /\ (f \in ReadBefore[clockPc] \/ f = clockPc)
    BY <1>1, <1>2, <1>8
  <2>2. registers'[f] = READ_RTC_REGISTER(f)
    BY <1>0, <1>1, <1>4, <2>1 DEF ClockTypes
  <2> QED
    BY <1>5, <2>2
<1>9. RegistersTrue'
  BY <1>1, <1>2, <1>4, <1>8 DEF RegistersTrue
<1>10. TimeKept'
  BY <1>1, <1>2 DEF TimeKept
<1> QED
  BY <1>7, <1>9, <1>10 DEF ClockInv

LEMMA ClockKeeps == ClockInv /\ [ClockNext]_clockVars => ClockInv'
<1> SUFFICES ASSUME ClockInv, [ClockNext]_clockVars PROVE ClockInv'
  OBVIOUS
<1>0. ClockTypes /\ RegistersTrue /\ TimeKept
  BY DEF ClockInv
<1>1. CASE PowerOn
  <2>1. /\ clockPc = "off" /\ clockPc' = "wait" /\ rtc' \in PowerOnTimes
        /\ UNCHANGED <<registers, TimeSinceBoot>>
    BY <1>1 DEF PowerOn
  <2>2. TickLength' \in Nat /\ TickLength' < Second
    <3>1. PICK f \in Frequencies : SET_PIT_FREQUENCY(f)
      BY <1>1 DEF PowerOn
    <3>2. f \in Nat \ {0}
      BY ClockAssumption
    <3> QED
      BY <3>1, <3>2, TickSet
  <2>3. ClockTypes'
    BY <1>0, <2>1, <2>2 DEF ClockTypes
  <2>4. OnClock(rtc')
    BY <2>1, ClockOneOn
  <2>5. RegistersTrue' /\ TimeKept'
    BY <2>1, <2>4 DEF RegistersTrue, TimeKept, Reading, Fields
  <2> QED
    BY <2>3, <2>5 DEF ClockInv
<1>2. CASE RtcFlag
  <2>1. UNCHANGED <<rtc, bcd, grace, clockPc, registers, SYSTEM_TIME, TimeSinceBoot, Divisor, shown>>
    BY <1>2 DEF RtcFlag
  <2>2. ClockTypes'
    BY <1>0, <2>1 DEF ClockTypes, TickLength
  <2>3. RegistersTrue'
    BY <1>0, <2>1 DEF RegistersTrue, Reading, READ_RTC_REGISTER
  <2>4. TimeKept'
    BY <1>0, <2>1 DEF TimeKept, TimeRight
  <2> QED
    BY <2>2, <2>3, <2>4 DEF ClockInv
<1>3. CASE RtcUpdate
  <2>1. /\ clockPc \notin {"off", "run"} /\ ~grace /\ rtc \in PowerOnTimes /\ rtc' = NextSecond(rtc)
        /\ UNCHANGED <<clockPc, registers, TimeSinceBoot, Divisor>>
    BY <1>3 DEF RtcUpdate
  <2>2. ClockTypes'
    BY <1>0, <2>1 DEF ClockTypes, TickLength
  <2>3. ~Reading
    BY <1>0, <2>1 DEF RegistersTrue
  <2>4. OnClock(rtc')
    BY <2>1, ClockOneOn
  <2>5. RegistersTrue' /\ TimeKept'
    BY <2>1, <2>3, <2>4 DEF RegistersTrue, Reading, TimeKept
  <2> QED
    BY <2>2, <2>5 DEF ClockInv
<1>4. CASE INIT_RTC_wait
  <2>1. /\ clockPc = "wait" /\ clockPc' = "second" /\ grace' /\ shown' = rtc
        /\ UNCHANGED <<rtc, registers, TimeSinceBoot, Divisor>>
    BY <1>4 DEF INIT_RTC_wait
  <2>2. ClockTypes'
    BY <1>0, <2>1, FieldsAre DEF ClockTypes, TickLength
  <2>3. ReadBefore["second"] = {}
    BY DEF ReadBefore
  <2>4. OnClock(rtc)
    BY <1>0, <2>1 DEF RegistersTrue
  <2>5. RegistersTrue' /\ TimeKept'
    BY <2>1, <2>3, <2>4 DEF RegistersTrue, TimeKept
  <2> QED
    BY <2>2, <2>5 DEF ClockInv
<1>5. CASE UNCHANGED clockVars
  <2>1. UNCHANGED <<rtc, bcd, grace, clockPc, registers, SYSTEM_TIME, TimeSinceBoot, Divisor, shown>>
    BY <1>5 DEF clockVars, rtcVars
  <2>2. ClockTypes'
    BY <1>0, <2>1 DEF ClockTypes, TickLength
  <2>3. RegistersTrue'
    BY <1>0, <2>1 DEF RegistersTrue, Reading, READ_RTC_REGISTER
  <2>4. TimeKept'
    BY <1>0, <2>1 DEF TimeKept, TimeRight
  <2> QED
    BY <2>2, <2>3, <2>4 DEF ClockInv
<1> QED
  BY <1>1, <1>2, <1>3, <1>4, <1>5, ClockReads, ClockStores, ClockTicks DEF ClockNext

\* Until the first change of month SYSTEM_TIME is what the battery clock showed
\* when INIT_RTC looked, eight hours earlier, and the seconds since: for every
\* time the machine may be switched on at, every frequency of the timer and as
\* many ticks as one likes.
THEOREM AgreedClock == ClockSpec => []ClockAgrees
<1>1. ClockSpec => []ClockInv
  BY ClockStart, ClockKeeps, PTL DEF ClockSpec
<1>2. ClockInv => ClockAgrees
  <2> SUFFICES ASSUME ClockInv, clockPc = "run", ~LosesHour(shown), TimeRight
               PROVE  /\ SYSTEM_TIME.month = shown.month /\ SYSTEM_TIME.year = 2000 + shown.year
                      /\ SecondsOfMonth(SYSTEM_TIME) + 8 * 3600
                           = SecondsOfMonth(shown) + (TimeSinceBoot \div Second)
                      /\ TimeSinceBoot >= Second => SYSTEM_TIME.hour < 24 /\ SYSTEM_TIME.day < 30
    BY DEF ClockAgrees, ClockInv, TimeKept
  <2> QED
    BY DEF TimeRight
<1> QED
  BY <1>1, <1>2, PTL

-----------------------------------------------------------------------------
\* The machine as a whole: every part keeps its promise whatever the others do.
THEOREM PlatformSound ==
    PlatformSpec => [](/\ HandoffSound /\ ClockAgrees /\ ModifiersMatch
                       /\ PacketsAligned /\ GlyphInside /\ SectorsMoved)
BY PlatformParts, SoundHandoff, AgreedClock, MatchedModifiers, AlignedPackets, InsideGlyphs, MovedSectors, PTL
=============================================================================
