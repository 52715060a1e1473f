-------------------------------- MODULE Ata ---------------------------------
(***************************************************************************)
(* kernel/src/ata-pio.c: a transfer is a command and then, for every       *)
(* sector, a wait until the drive is not busy, a wait that is meant for    *)
(* DRQ and tests RDY, and 256 words.  Nothing looks at the error bits, and *)
(* a write returns when the drive has taken the last sector, not when it   *)
(* has stored it.                                                          *)
(*                                                                         *)
(* The drive (external) may take a moment to show that it is busy after a  *)
(* command or a sector; a status read in that moment passes both waits.    *)
(* sector_count is a signed char.                                          *)
(***************************************************************************)
EXTENDS Integers

CONSTANTS
    Sectors,         \* how many sectors the disk has
    SectorCounts,    \* arguments sector_count
    Data,            \* contents of a sector
    Junk,            \* what a read of the data port returns at the wrong time
    MaxTransfers     \* bound on the calls

VARIABLES
    store,           \* the disk
    drive,           \* phase of the drive
    lbaNext, left,   \* its next sector, the sectors still to transfer
    taken,           \* the sector it has taken and not stored
    ataPc, op, lba, sector_count, j, buffer,   \* the call: arguments, locals, memory
    transfers,
    spoiled,         \* history: why the call in progress, or one before, cannot be trusted
    written          \* history: the disk as the calls so far ask for it

driveVars == <<store, drive, lbaNext, left, taken>>
callVars == <<op, lba, sector_count, j>>
ataVars == <<driveVars, ataPc, callVars, buffer, transfers, spoiled, written>>

Lbas == 0 .. (Sectors - 1)
None == "none"

\* sector_count is a byte, and no caller gives zero, which is 256 to the drive.
ASSUME AtaAssumption ==
    /\ Sectors \in Nat /\ SectorCounts \subseteq 1 .. 255
    /\ Data # {} /\ None \notin Data

\* The bits of the status register that the code tests.
BSY == drive = "busy"
RDY == drive # "busy"

-----------------------------------------------------------------------------
AtaInit ==
    /\ store = [s \in Lbas |-> CHOOSE d \in Data : TRUE]
    /\ drive = "idle" /\ lbaNext = 0 /\ left = 0 /\ taken = None
    /\ ataPc = "idle" /\ op = None /\ lba = 0 /\ sector_count = 0 /\ j = 0
    /\ buffer = [s \in Lbas |-> Junk]
    /\ transfers = 0 /\ spoiled = {} /\ written = store

\* The drive: it shows that it is busy, gets ready for the next sector,
\* stores the one it was given, or fails.
DriveBusy ==
    /\ drive = "starting" /\ drive' = "busy"
    /\ UNCHANGED <<store, lbaNext, left, taken, ataPc, callVars, buffer, transfers, spoiled, written>>

DriveProceeds ==
    /\ drive = "busy"
    /\ drive' = IF left > 0 THEN "ready" ELSE "idle"
    /\ store' = IF taken = None THEN store ELSE [store EXCEPT ![lbaNext - 1] = taken]
    /\ taken' = None
    /\ UNCHANGED <<lbaNext, left, ataPc, callVars, buffer, transfers, spoiled, written>>

DriveFails ==
    /\ drive = "busy" /\ "error" \notin spoiled
    /\ drive' = "idle" /\ left' = 0 /\ taken' = None
    /\ spoiled' = spoiled \cup {"error"}
    /\ UNCHANGED <<store, lbaNext, ataPc, callVars, buffer, transfers, written>>

-----------------------------------------------------------------------------
\* atapio_read_sectors and atapio_write_sectors up to the first wait.
AtaCall(o, a, n, d) ==
    /\ ataPc = "idle" /\ transfers < MaxTransfers
    /\ n > 127 \/ a + n <= Sectors
    /\ transfers' = transfers + 1
    /\ op' = o /\ lba' = a /\ sector_count' = n /\ j' = 0
    /\ buffer' = [s \in Lbas |-> IF o = "write" THEN d ELSE Junk]
    /\ written' = [s \in Lbas |-> IF o = "write" /\ s \in a .. (a + n - 1) THEN d ELSE written[s]]
    /\ ataPc' = "wait"
    /\ UNCHANGED <<driveVars, spoiled>>

\* The registers and the command byte.  A drive that is given a command before
\* it has stored the sector it took forgets that sector.
SendCommand ==
    /\ ataPc = "wait"
    /\ drive' \in {"starting", "busy"} /\ lbaNext' = lba /\ left' = sector_count
    /\ taken' = None
    /\ spoiled' = IF drive = "starting" THEN spoiled \cup {"early"} ELSE spoiled
    /\ ataPc' = "bsy"
    /\ UNCHANGED <<store, callVars, buffer, transfers, written>>

\* Mutant: the command does not wait for the transfer before it.
CommandAtOnce == SendCommand

AtaCommand == ~BSY /\ SendCommand

\* The loop runs while j is below a signed char.
Signed(n) == IF n > 127 THEN n - 256 ELSE n

atapio_bsy_wait == ataPc = "bsy" /\ ~BSY

AtaWaits ==
    /\ j < Signed(sector_count) /\ atapio_bsy_wait
    /\ ataPc' = "rdy"
    /\ spoiled' = IF drive = "starting" THEN spoiled \cup {"early"} ELSE spoiled
    /\ UNCHANGED <<driveVars, callVars, buffer, transfers, written>>

atapio_drq_wait ==
    /\ ataPc = "rdy" /\ RDY
    /\ ataPc' = "data"
    /\ UNCHANGED <<driveVars, callVars, buffer, transfers, spoiled, written>>

\* 256 words.  A drive that is not ready neither gives nor takes any.
AtaData ==
    /\ ataPc = "data"
    /\ IF drive = "ready"
       THEN /\ IF op = "read" THEN buffer' = [buffer EXCEPT ![lba + j] = store[lbaNext]] /\ taken' = None
               ELSE taken' = buffer[lba + j] /\ UNCHANGED buffer
            /\ lbaNext' = lbaNext + 1 /\ left' = left - 1
            /\ drive' \in (IF op = "read" /\ left = 1 THEN {"idle"} ELSE {"starting", "busy"})
       ELSE /\ buffer' = IF op = "read" THEN [buffer EXCEPT ![lba + j] = Junk] ELSE buffer
            /\ UNCHANGED <<drive, lbaNext, left, taken>>
    /\ j' = j + 1 /\ ataPc' = "bsy"
    /\ UNCHANGED <<store, op, lba, sector_count, transfers, spoiled, written>>

AtaReturn ==
    /\ ataPc = "bsy" /\ j >= Signed(sector_count)
    /\ spoiled' = IF sector_count > 127 THEN spoiled \cup {"count"} ELSE spoiled
    /\ ataPc' = "idle"
    /\ UNCHANGED <<driveVars, callVars, buffer, transfers, written>>

AtaNext ==
    \/ DriveBusy \/ DriveProceeds \/ DriveFails
    \/ \E o \in {"read", "write"}, a \in Lbas, n \in SectorCounts, d \in Data : AtaCall(o, a, n, d)
    \/ AtaCommand \/ AtaWaits \/ atapio_drq_wait \/ AtaData \/ AtaReturn

AtaSpec == AtaInit /\ [][AtaNext]_ataVars

-----------------------------------------------------------------------------
(***************************************************************************)
(* Transfers move the sectors they name, in the order of the calls: when a *)
(* read has returned, the buffer holds what the writes before it asked     *)
(* for, though a write returns before the drive has stored it; and when    *)
(* the drive has come to rest the disk holds what was written.  The drive  *)
(* must show that it is busy before the code looks, it must not fail, and  *)
(* the count must fit a signed char: the code notices none of these.       *)
(***************************************************************************)
SectorsMoved ==
    (ataPc = "idle" /\ spoiled = {}) =>
        /\ op = "read" => \A s \in lba .. (lba + sector_count - 1) : buffer[s] = written[s]
        /\ drive = "idle" => store = written
=============================================================================
