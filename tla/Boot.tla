-------------------------------- MODULE Boot --------------------------------
(***************************************************************************)
(* gnu-efi/bootloader/main.c: efi_main loads three files and the kernel's  *)
(* segments, takes the memory map, sets a graphics mode, leaves the boot   *)
(* services and calls the kernel with the map.                             *)
(*                                                                         *)
(* The firmware (external) owns the memory until the boot services are     *)
(* left.  It may allocate or free pages of its own in any of its calls,    *)
(* and then the key of the map that the loader holds is no longer valid.   *)
(* The loader looks at the result of GetMemoryMap only to try again, and   *)
(* at no other result; bootLost records what it did not notice.            *)
(***************************************************************************)
EXTENDS Integers, Sequences, FiniteSets

CONSTANTS
    MemoryPages,      \* pages of memory
    KernelSegments,   \* a sequence: the pages of each PT_LOAD segment
    MapSlack,         \* descriptors by which efi_main enlarges the buffer, 10
    MaxFirmware,      \* bound on the firmware's own allocations
    ModeLists,        \* the graphics modes that a machine may offer, <<width, height>>
    PreferredMode     \* of config.txt

VARIABLES
    owner,            \* who has each page
    bootPc, segment,  \* the next step of efi_main; the next program header
    mapSize, mapBuffer,   \* EfiMemoryMapSize in descriptors; descriptors, a page
    mapCapacity,      \* the descriptors that fit the buffer
    memoryMap,        \* the map in the buffer
    keyValid,         \* EfiMapKey is that of the present memory
    modes, mode,      \* the modes of the machine; the one that was set
    firmwareCalls,    \* the firmware's own allocations so far
    exited,           \* the boot services have ended
    bootLost          \* history: failures that went unnoticed

mapVars == <<mapSize, mapBuffer, mapCapacity, memoryMap>>
graphicsVars == <<modes, mode>>
bootVars == <<owner, bootPc, segment, mapVars, keyValid, graphicsVars, firmwareCalls, exited, bootLost>>

ASSUME BootAssumption ==
    /\ MemoryPages \in Nat \ {0}
    /\ PreferredMode \in Int \X Int /\ ModeLists \subseteq Seq(Int \X Int)

BootPages == 0 .. (MemoryPages - 1)
NoPage == -1
NoMode == 0
Untaken == {p \in BootPages : owner[p] = "free"}

\* The type that the firmware's map gives a page, and its descriptors: one
\* for every run of pages of a type.
PageType(o) == IF o = "free" THEN "conventional" ELSE IF o = "firmware" THEN "services" ELSE "loader"
MapOf(owners) == [p \in BootPages |-> PageType(owners[p])]
Descriptors(map) == 1 + Cardinality({p \in 1 .. (MemoryPages - 1) : map[p] # map[p - 1]})

-----------------------------------------------------------------------------
BootInit ==
    /\ owner = [p \in BootPages |-> "free"]
    /\ bootPc = "config" /\ segment = 1
    /\ mapSize = 0 /\ mapBuffer = NoPage /\ mapCapacity = 0 /\ memoryMap = <<>>
    /\ keyValid = FALSE /\ modes = <<>> /\ mode = NoMode
    /\ firmwareCalls = 0 /\ exited = FALSE /\ bootLost = {}

\* The firmware allocates or frees a page of its own, at an address it likes.
FirmwareAllocates ==
    /\ bootPc # "kernel" /\ firmwareCalls < MaxFirmware
    /\ firmwareCalls' = firmwareCalls + 1
    /\ \E p \in BootPages :
        /\ owner[p] \in {"free", "firmware"}
        /\ owner' = [owner EXCEPT ![p] = IF @ = "free" THEN "firmware" ELSE "free"]
    /\ keyValid' = FALSE
    /\ UNCHANGED <<bootPc, segment, mapVars, graphicsVars, exited, bootLost>>

\* AllocatePool in the memory of owners: the firmware serves it from either end,
\* or not at all.
PoolPages(owners) ==
    LET free == {p \in BootPages : owners[p] = "free"}
    IN  IF free = {} THEN {NoPage}
        ELSE {p \in free : (\A q \in free : p <= q) \/ (\A q \in free : p >= q)}

AllocatePool(owners, who, p) ==
    /\ p \in PoolPages(owners)
    /\ owner' = [q \in BootPages |-> IF q = p THEN who ELSE owners[q]]
    /\ bootLost' = IF p = NoPage THEN bootLost \cup {"exhausted"} ELSE bootLost
    /\ keyValid' = FALSE

NextFile == [config |-> "font", font |-> "elf", elf |-> "segments"]

\* Load_File, in the order of efi_main.
Load_File ==
    /\ bootPc \in DOMAIN NextFile
    /\ \E p \in BootPages \cup {NoPage} :
        AllocatePool(owner, IF bootPc = "font" THEN "font" ELSE "file", p)
    /\ bootPc' = NextFile[bootPc]
    /\ UNCHANGED <<segment, mapVars, graphicsVars, firmwareCalls, exited>>

\* A PT_LOAD segment: AllocatePages at a fixed address gives all of the pages
\* or none, and the segment is copied in either case.
LoadSegment ==
    /\ bootPc = "segments" /\ segment <= Len(KernelSegments)
    /\ segment' = segment + 1
    /\ LET pages == KernelSegments[segment]
       IN  IF pages \subseteq Untaken
           THEN owner' = [p \in BootPages |-> IF p \in pages THEN "kernel" ELSE owner[p]] /\ UNCHANGED bootLost
           ELSE bootLost' = bootLost \cup {"overwritten"} /\ UNCHANGED owner
    /\ keyValid' = FALSE
    /\ UNCHANGED <<bootPc, mapVars, graphicsVars, firmwareCalls, exited>>

SegmentsLoaded ==
    /\ bootPc = "segments" /\ segment > Len(KernelSegments)
    /\ bootPc' = "map"
    /\ UNCHANGED <<owner, segment, mapVars, keyValid, graphicsVars, firmwareCalls, exited, bootLost>>

-----------------------------------------------------------------------------
\* One call of GetMemoryMap returns the map if it fits, and otherwise the
\* number of descriptors.
Needed == Descriptors(MapOf(owner))

\* EFI_BUFFER_TOO_SMALL: the body of the loop.
EnlargeBuffer ==
    /\ bootPc = "map" /\ mapSize < Needed
    /\ mapSize' = Needed + MapSlack /\ mapCapacity' = mapSize'
    /\ mapBuffer' \in BootPages \cup {NoPage}
    /\ AllocatePool([p \in BootPages |-> IF p = mapBuffer THEN "free" ELSE owner[p]], "map", mapBuffer')
    /\ UNCHANGED <<bootPc, segment, memoryMap, graphicsVars, firmwareCalls, exited>>

GetMemoryMap ==
    /\ bootPc = "map" /\ mapSize >= Needed
    /\ IF mapBuffer = NoPage THEN UNCHANGED <<memoryMap, mapSize, keyValid>>
       ELSE memoryMap' = MapOf(owner) /\ mapSize' = Needed /\ keyValid' = TRUE
    /\ bootPc' = "graphics"
    /\ UNCHANGED <<owner, segment, mapBuffer, mapCapacity, graphicsVars, firmwareCalls, exited, bootLost>>

\* Mutant: an if in place of the while.
GetMemoryMapOnce ==
    /\ bootPc = "map" /\ mapBuffer # NoPage
    /\ IF mapSize >= Needed THEN memoryMap' = MapOf(owner) /\ mapSize' = Needed /\ keyValid' = TRUE
       ELSE UNCHANGED <<memoryMap, mapSize, keyValid>>
    /\ bootPc' = "graphics"
    /\ UNCHANGED <<owner, segment, mapBuffer, mapCapacity, graphicsVars, firmwareCalls, exited, bootLost>>

\* Mutant: the call after the loop's first round is not tested.
TakeMapOnce == (mapBuffer = NoPage /\ EnlargeBuffer) \/ GetMemoryMapOnce

\* The loop and what follows it.
TakeMap == EnlargeBuffer \/ GetMemoryMap

-----------------------------------------------------------------------------
\* setup_graphics multiplies the differences of width and height.  It reads
\* the product as an unsigned number, and a negative one (a mode that is wider
\* and lower, or narrower and higher) is then above the limit.
GreatestDif == 1000000
Dif(m) == (m[1] - PreferredMode[1]) * (m[2] - PreferredMode[2])
Candidates(list) == {i \in 1 .. Len(list) : Dif(list[i]) \in 0 .. (GreatestDif - 1)}
ChooseMode(list) ==
    IF Candidates(list) = {} THEN NoMode
    ELSE CHOOSE i \in Candidates(list) :
            \A k \in Candidates(list) :
                Dif(list[i]) < Dif(list[k]) \/ (Dif(list[i]) = Dif(list[k]) /\ i <= k)

setup_graphics ==
    /\ bootPc = "graphics"
    /\ \/ /\ modes' \in ModeLists /\ mode' = ChooseMode(modes') /\ UNCHANGED bootLost
       \/ bootLost' = bootLost \cup {"no_display"} /\ UNCHANGED graphicsVars
    /\ bootPc' = "exit"
    /\ UNCHANGED <<owner, segment, mapVars, keyValid, firmwareCalls, exited>>

\* ExitBootServices fails if the key is old, and the kernel is called anyway.
ExitBootServices ==
    /\ bootPc = "exit"
    /\ exited' = keyValid
    /\ bootPc' = "kernel"
    /\ UNCHANGED <<owner, segment, mapVars, keyValid, graphicsVars, bootLost, firmwareCalls>>

BootNext ==
    \/ FirmwareAllocates \/ Load_File \/ LoadSegment \/ SegmentsLoaded
    \/ TakeMap \/ setup_graphics \/ ExitBootServices

BootSpec == BootInit /\ [][BootNext]_bootVars

-----------------------------------------------------------------------------
\* What the kernel goes on using: its own pages, the font, the map.
Handed(p) == owner[p] \in {"kernel", "font", "map"}

(***************************************************************************)
(* What the kernel is given can be trusted.  The map fits its buffer and   *)
(* marks every page that the kernel will use, its own buffer among them,   *)
(* whatever the firmware did between the calls; when the boot services     *)
(* have ended it is the memory as it is.  And when the machine offers the  *)
(* resolution of config.txt, the mode that was set has its width or its    *)
(* height (no more: the product is zero for either).  The allocations must *)
(* have succeeded and a display must exist, which efi_main does not test.  *)
(***************************************************************************)
HandoffSound ==
    (bootPc = "kernel" /\ bootLost = {}) =>
        /\ memoryMap # <<>> /\ Descriptors(memoryMap) <= mapCapacity
        /\ \A p \in BootPages : Handed(p) => memoryMap[p] = "loader"
        /\ exited => memoryMap = MapOf(owner)
        /\ (\E i \in DOMAIN modes : modes[i] = PreferredMode) =>
               mode # NoMode /\ (modes[mode][1] = PreferredMode[1] \/ modes[mode][2] = PreferredMode[2])
=============================================================================
