# A verification of the efi-os kernel in TLA+

efi-os is a small x86-64 operating system: a UEFI boot loader, a kernel and two
user programs.  This directory holds TLA+ models of the kernel and of the boot
loader, the TLC configurations that check them on small instances, and TLAPS proofs
of what matters most for every size.  Source paths below are relative to
`src/kernel/src/`; the boot loader is `src/gnu-efi/bootloader/main.c`.

`PROJECT.json` lists the components, the runs, the mutants each property is
tested with, the source lines every definition stands for, the hazards of the
code and the theorems.

## 1. The system

### Components

| component | source | state | operations | modelled |
|---|---|---|---|---|
| physical page allocator | `paging.c` 1-152 | byte map of pages, the hint `page_index`, three counters | `INIT_PAGING`, `REQUEST_PAGE`, `LOCK_PAGE(S)`, `RESERVE_PAGES`, `FREE_PAGE` | yes |
| page tables | `paging.c` 154-242 | four-level tables | `navigate_to_PL1`, `map_mem`, `PT_*` | yes |
| circular buffer | `circular_buffer.c` | ring, indices, lock word | `cb_init`, `cb_push`, `cb_pop` | yes |
| scheduler, threads | `scheduler.c`, `thread.c` | pool of waiting threads, current thread, saved stack pointers | `start_scheduler`, `get_next_thread`, `new_thread`, `thread_exit` | yes |
| process creation | `process.c` | a page table and a thread per process | `new_process` | partly |
| kernel heap | `memory.c` | doubly linked segments | `kmalloc`, `kcalloc`, `krealloc`, `free` | yes |
| sorted list | `sorted_list.c` | growing array in key order | insert, remove, get by binary search | yes |
| open files | `filesystem.c`, `file_table.c`, `vfs.c` 92-195 | descriptors, nodes with reference counts and caches | `open`, `close`, `read`, `write`, `lseek` | yes |
| directory tree | `vfs.c` 1-91, 116-145, 197-246 | tree of nodes, each with a sorted list; working directory | population from the disk, `mkdir`, `chdir`, `getcwd`, `mkfifo` | yes |
| FAT12 driver | `fat.c` | packed table, directory clusters | `write_file`, the readers, `set_fat_next_cluster` | partly |
| disk access | `ata-pio.c` | the drive's registers | polled sector reads and writes | yes |
| terminal | `tty.c`, `graphics.c` | escape parser, cursor | `tty_write`, `printchar` | partly |
| clock | `time.c`, `pit.c` | time since boot, date | `INIT_RTC`, `PIT_TICK`, carry of the date | yes |
| keyboard and mouse | `keyboard.c`, `mouse.c` | decoder state, modifiers, pointer | interrupt handlers, `INIT_PS2_MOUSE` | yes |
| boot loader | `main.c` of the boot loader | firmware memory, memory map and its key, graphics mode | `efi_main` | partly |
| shell, descriptor tables, serial port, SMP detection, user programs | | | never run, or register writes | no |

### How they interact

- The timer interrupt calls the scheduler, which pops a thread from the pool (a
  circular buffer), pushes the current one, and gives the page of a dead thread
  back to the page allocator (`scheduler.c:112`).  So an interrupt can enter the
  circular buffer, the page allocator and, on the first tick only, the heap
  (`scheduler.c:101`) while the main thread is inside one of them.
- `new_thread` takes a page from the page allocator for the thread's structure
  and its stack; the heap takes the pages it grows by from it as well.
- Descriptors and directories are sorted lists on the heap; the cache of an open
  file is on the heap and is filled by the FAT12 driver; the cache of a pipe is a
  circular buffer.
- User programs reach files through `int 0x80`, an interrupt gate: a system call
  is not interrupted.

There is one CPU.  Interrupts are off until `sti` at `scheduler.c:90`.  Kernel
threads run with interrupts on.  The frames of user threads have the interrupt
flag clear, and `int 3`, with which kernel threads yield, is at privilege level
0: once a user thread runs, nothing takes the CPU away from it.

### What is hard

| | where |
|---|---|
| preemption in the middle of a call | `REQUEST_PAGE` against `FREE_PAGE` from a thread switch; two threads in `navigate_to_PL1`; `cb_push` against `cb_pop` in the interrupt; `new_process` against the tick; `printchar` against the keyboard |
| a lock taken inside an interrupt | the scheduler spins for a lock its victim may hold |
| reuse of memory still in use | the page of a dead thread holds the stack the switch runs on, and the structure `current_thread` points at |
| structure kept by several partial updates | split, join and expand of the heap; 12-bit table entries in 16-bit words and in sectors; `size` of the ring against its indices |
| boundaries | binary search on 0, 1, 2 elements; the spare slot of the sorted list; the extra byte of the page map; unsigned differences that wrap; midnight and the ends of months |
| crashes | data, directory and the two copies of the table reach the disk in separate writes |
| devices with a pace of their own | the battery clock updates while it is read; the drive is slow to say that it is busy; the mouse answers before or after it is asked; the firmware allocates between two calls |
| reference counts | one close drops two references |
| names | the disk and the kernel use the same ones, and lookup ignores case |

The complete list, with lines, is under "hazards" in `PROJECT.json`.

## 2. Modules

| module | models | abstract specification, proofs |
|---|---|---|
| `PageAllocator` | page allocator | `PagingProofs` |
| `PageTables` | page tables | implements `AddressSpace`; `PagingProofs` |
| `CircularBuffer` | circular buffer | implements `BoundedFifo`; `CircularBufferProofs` |
| `Scheduler` | scheduler, threads, process creation | `SchedulerProofs` |
| `Heap` | kernel heap | `HeapProofs` |
| `SortedList` | sorted list | `SortedListProofs` |
| `OpenFiles` | open files | `FilesystemProofs` |
| `VfsTree` | directory tree, the kernel's start as far as it uses it | `FilesystemProofs` |
| `FatTable` | the packed FAT12 table | `Fat12Proofs` |
| `Fat12` | `write_file` and crashes, on `FatTable` | `Fat12Proofs` |
| `Boot`, `Clock`, `Keyboard`, `Mouse`, `Console`, `Ata` | the parts that talk to the machine | `PlatformProofs` |
| `Platform` | the six of the line above | `PlatformProofs` |

Each `MC...` module only defines the constants of an instance.  Operators whose
comment starts with "Mutant" are deliberate faults that no specification uses; a
property is worth keeping when such a fault breaks it.  What is not in the
repository (firmware, drive, keyboard, mouse, battery clock) is modelled from how
the code uses it and marked external in `PROJECT.json`.

### PageAllocator

State: `pages_used` (the bytes of the map that are not 0), `page_index`, the
counters, and for the call in progress its place `pc` and `reg`, the register
copy of `page_index` (the build uses `-Ofast`, which keeps the global in a
register over the loop).  `held` is history: what callers own.

`INIT_PAGING` computes the boot state from the firmware's memory map, whose
descriptors are the constant `MemMap`.  `getMemorySize` leaves out descriptors of
type 0 and the map has one byte more than there are pages: both are kept.
`REQUEST_PAGE` is `RequestLoad`, `RequestTest`, `RequestBump`, `LOCK_PAGE`,
`RequestReturn` or `RequestNull`, one step per access to the shared variables.
`FREE_PAGE` is one step (it runs in the interrupt) and may happen between any two
steps of `REQUEST_PAGE`, which is the case once the scheduler runs.  `disturbed` is
history: such a free has given back a page at or below the hint.  Addresses are
page numbers.  The counters wrap at `Wrap`.

### PageTables and AddressSpace

The content of every physical page is a table of `Fan` entries, since any page may
become one.  `INIT_PAGING` maps all of memory at its own address and the framebuffer
uncached, entry by entry; then threads map fresh pages, with their walks through the
levels interleaved.  A level is the test of its entry (`WalkTable`, `WalkMissing`) and,
if that is not present, a step of its own (`NewTable`), which requests a page, clears it
and links it.  `PT_SET_FLAG` only adds
flags and `PT_SET_ADR` replaces the address, as in the code.  `REQUEST_PAGE` is one
step here: the lowest free page or `NULL`, page 0.  `lost` is history: memory has run
out, or a table was linked over one that another thread had just linked.
`Span` is the number of pages an entry of each level stands for (the shifts 39, 30, 21 and
12 without the 12 bits inside a page), so that an index is a digit of the page number.
`PathIn` and `TranslationIn` are the processor's walk: the tables it goes through for an
address and the entry it finds, as functions of the content of memory and the top table.
`AddressSpace` is a partial map from pages to frames that one operation extends; the
refinement maps it to the translation of every page through the tables.

### CircularBuffer and BoundedFifo

One step per access to shared memory.  A caller in `Masked` runs with interrupts
off, so that nobody else moves while it is inside.  `expected_false` is the global
that both loops give to `__atomic_compare_exchange` by address: a failed
exchange (`CasMiss`, `StoreExpected`) overwrites it.  `BoundedFifo` is the abstract
queue: a call is invoked, takes effect at one moment, transfers as many items as
fit, and returns.  The refinement maps the queue to the committed items from
`head` on, and the moment of effect to the store of the index.

### Scheduler

A thread structure is the page it lives in; `Boot` is the main thread's, from
`kmalloc`.  `rsp` is the saved stack pointer, modelled by what it identifies: the
computation (a thread id) and the interruption it belongs to (its parity is enough
to tell a stale frame from the last).  `get_next_thread` is one action, since it
runs with interrupts off: it saves the stack pointer, destroys the thread if it is
dead and requeues it if not, and dispatches the oldest of the pool.  `FirstSwitch`
is its first call, which makes the main thread's structure.  `new_process` is three
steps, with ticks between them: `NewProcessThread`, `NewProcessPush`, and
`NewProcessArg`, the store into the frame after the thread has been published.
A kernel thread other than the main one and the drawing thread may return from its
function at any time it runs.  The pool is a sequence here: every access of it
with interrupts off behaves as `BoundedFifo`, which the runs of `CircularBuffer`
show.  The one access with interrupts on, `cb_push` from the main thread in
`new_process`, is taken as one step here, and what can go wrong inside it is the
subject of the runs `ring` and `ring_lock`.

### Heap

Headers are a function from addresses to records; the real heap's integers are
kept (a header takes `HDR`, a page `PAGE`), so that splitting and joining are
arithmetic on addresses.  A call is a walk: one step per segment looked at
(`WalkFit`, `WalkNext`, `WalkEnd`), per expansion, per join.  `krealloc` is
`kmalloc`, the copy, and `free` of the old block.  `blocks` is history: what callers
hold.  `MaxHeap` bounds the heap in the guard of the calls (`Affordable`), not in
their steps.

### SortedList

The array has `capacity` slots; `NoElement` stands for a cleared one.
The binary search is one step per probe (`Hit`, `Low`, `High`, `Miss`), with the
locals `min`, `max` and `c_idx`.  Elements have keys; two elements may have the same
key, as two directories of one name have.  A list that has never grown owns an
uninitialised slot, and a lookup on it may return anything (`NeverGrown`).

### OpenFiles

A node has a reference count, a cache with a capacity, and a size; a descriptor
has a node and an offset.  Bytes are counted and not represented.  An access
outside the cache or to a freed cache is undefined behaviour: it sets `fault`, and
nothing follows.  `close` drops two references, once in `close`
(`filesystem.c:40`) and once in `remove_file_table_entry` (`file_table.c:66`), as
the code does.

### VfsTree

Nodes are records of name, kind, parent and children; children are kept in the order
of `strcmp`, by the insertion that `SortedList` verifies.  Names come from a list that
gives their order, with `Fold` for what `strcasecmp` ignores.  A disk is any of several
trees.  `vfs_recursive_populate` is one directory at a time, down to `MaxLevel`; then `script` counts
the steps of `_start` that use the tree, in their order (`kernel.c` 107-133); then anyone calls
`mkdir`, `mkfifo` and `chdir`.  A file has no children: a walk into one follows a pointer
that was never set, and sets `followed`.  The walks (`vfs_navigate_to`, `Ancestors`, the turns of
the search) are recursive functions over the steps made, `Narrow` is one turn of the search,
and `Depth` counts the recursion of `vfs_get_full_filepath`.

### FatTable and Fat12

`FatTable` has the bytes, the word reads and writes at `cluster*3/2`, and the masks
and shifts of `get_fat_next_cluster` and `set_fat_next_cluster` written as
arithmetic.  `Fat12` extends it: its three tables, in memory and twice on disk, are
such byte tables.  `write_file` is, per sector, a data write, then the directory,
then the first and the second copy of the table, sector by sector.  `Crash` may
happen between any two writes; it loses the memory and reads the first copy back, as
the boot does, so that a 12-bit entry on the border of two sectors may be half old.
The table has more entries than the disk has clusters, as on the real disk, and the
driver takes them for clusters when the disk is full.  Names are of up to seven
characters, in a directory of one cluster below the root.  `write_file` has no caller in
the kernel at this commit; it is the driver's interface.

### Boot

`efi_main` as a sequence of firmware calls: three files, the segments of the kernel,
the loop around `GetMemoryMap`, the graphics mode, `ExitBootServices`, the kernel.  Memory
is an owner per page; the firmware may allocate or free a page of its own at any
time, which makes the key of the map stale.  A pool allocation is served from either
end of the free memory.  `bootLost` is history: the failures that the loader does
not look at.

### Clock

`INIT_RTC` register by register against a battery clock that goes on, shows in binary
or BCD, raises its flag before an update and guarantees a moment (`grace`) after it
was seen down, as the device does.  Then `PIT_TICK`, with the 1.01 of `pit.c`, and
`SYSTEM_TIME_INCREMENT`.

### Keyboard and Mouse

The keyboard sends the bytes of each key, the prefixes and the modifiers that nobody
pressed (Print Screen, Pause) included, into a buffer of limited size; `handle_key`
takes one per interrupt.  The mouse answers commands when it likes;
`PS2_WAIT_READ` takes an answer that is there and does not wait for one that is not
(`mouse.c:14`); `HANDLE_PS2_MOUSE` skips one byte and then takes three for a packet.
One axis stands for both.

### Console

`tty_write`'s parser takes one character a step, `printchar` one access to the cursor
a step; two threads and the keyboard interrupt use the same console.  `glyph` is the
cell `render_char` was given last.  Numbers in sequences are single tokens, colours and
contents are left out.

### Ata

The drive takes a command, shows that it is busy at once or late, moves sector by
sector, stores what it was given after the call has returned, or fails.  The code's
waits look at the bits they really test: the one named after DRQ tests RDY
(`ata-pio.c:8`).  `sector_count` is a signed char.

### Platform

The six parts share no variable.  `part` picks one at the start, and a behaviour
follows that one: their interleavings are all made of these.

## 3. What the runs show

| run | instance | states | shows |
|---|---|---|---|
| `pages` | pages 0..6, one of them in a descriptor that the memory size does not count; frees at any step | 2537 | counters exact, one owner per page, the lowest free page granted, `NULL` only when nothing is free, a request returns |
| `page_tables` | three levels of three entries, 13 pages of memory with three sets of reserved pages, framebuffer, three fresh pages, two threads | 50,235 | the tables are a tree of pages of their own, memory is at its own address, the tables implement `AddressSpace` |
| `ring` | ring of 2, two items, calls of 1 and 2, the main thread interrupted by the scheduler | 191,393 | size and indices agree at every step, the buffer implements `BoundedFifo`, calls return |
| `ring_lock` | as before | | **violated**: two callers are inside at once |
| `scheduler` | three thread pages and the main thread, a pool of four, five thread ids, kernel and user threads | 29,806 | no thread is lost or queued twice, a switch resumes the right frame, dead threads are freed and never queued, round robin starves nobody |
| `heap` | header 1, page 4, two pages, requests 0, 1, 4, 6 | 126,120 | the segments tile the heap, free neighbours are joined, blocks are kept, calls return |
| `sorted_list` | five elements, two with one key, keys 0..8 | 21,945 | the array has a spare slot and exactly the members; a lookup is exact and ends |
| `open_files` | two files, a pipe, three descriptors, sector 2, page 4, sizes up to 9 | 3,041,842 | caches live exactly while referenced; descriptors keep their cache unless the file was open twice; transfers stay inside but for four known cases |
| `vfs` | seven disks, thirteen names, two calls of `mkdir` or `mkfifo` and any of `chdir` | 29,838 | full paths lead back, the disk is shown, the kernel finds what it made |
| `fat12` | six clusters, ten table entries in two sectors, six directory slots, three names, three writes of one to three sectors, two crashes | 72,934 | chains are sound, stored data survives crashes and a full disk, entries can be read, a returned write is on disk in both tables |
| `fat12_entries` | without crashes | | **violated**: writing a file drops an earlier one from the directory |
| `platform` | see below | 3,601,568 | the six device properties |

The two runs without a number stop at a counterexample.

`platform`: `HandoffSound` (nine pages, two segments, four allocations of the firmware,
three lists of modes), `ClockAgrees` (eight times of power-on, shortly before the carries,
ticks of 20 and 1000 Hz, three seconds), `ModifiersMatch` (five keys, of which four send or
fake modifiers, a buffer of six bytes), `PacketsAligned` (four packets, overflow
included, a buffer of seven bytes), `GlyphInside` (a console of two by two, two threads
and the interrupt, six characters), `SectorsMoved` (three sectors, three transfers of 1,
2 and 130 sectors).

**The two disagreements between the code and its comments.**

- `ring_lock`.  `circular_buffer.c:24` says "Wait for lock".  A failed
  compare-exchange stores the value it found into `expected_false`; from then on the
  lock "succeeds" on a taken lock.  The other face of it is in `ring`: with
  a lock that really waited, the scheduler, with interrupts off, would wait for ever
  for the thread it interrupted.  `CallsReturn` holds because of the fault that
  breaks `MutualExclusion`.
- `fat12_entries`.  `fat.c:318` says "create new entry in our copy of the
  directory".  `create_entry_in_directory` returns, at the blank entry, the entry
  before it, so that the last file of the directory is replaced by the new one
  (`fat.c:200`).

**Conditions in the properties that are facts about the code.**  Several properties
carry an exception, and each is a behaviour of the code that a reader should know:

- `EveryPageOwned` and `GrantsLowestFree` hold until a page at or below the hint is freed
  in the middle of a request.  Then `REQUEST_PAGE` may store a stale hint over a
  lowered one (`paging.c:78`) and return the address of another page than it locked
  (`paging.c:81`).
- The properties of the page tables hold until memory runs out, the byte past the end
  of the map included (`paging.c:31`), or two threads make the same table
  (`paging.c:174`).
- `RingConsistent` and `ImplementsFifo` hold until two calls overlap.
- `FreeMemoryExact` says the free pages *less one*: the map has one byte too many.
- `CallsReturn` of the heap is for requests of at least a page or that some segment
  fits: `EXPAND_HEAP` rounds a smaller request down to no page, and `kmalloc` starts
  over for ever (`memory.c:35`).
- `WaitingThreadRuns` ends when a user thread gets the CPU, which keeps it.
- `ArgumentMissedOnlyInWindow` names the one window in which a program starts
  without its argument.
- `DescriptorsLive` excepts files that were open twice at a time: the first close
  frees the cache of both (`filesystem.c:40`, `file_table.c:66`).
- `AccessesInside` excepts a read from an offset behind the end, where `size-offset` wraps
  (`vfs.c:148`); one in a file that grew and was closed and reopened: the node keeps the
  new size, the cache is loaded with the old (`vfs.c:109`); a write while the cache is
  the one that `open` loaded, which ends with a sector where `vfs.c:163` supposes a
  page; and a write that ends more than a page behind the end of the file.
- `GetExact` excepts a list that never grew, whose spare slot is uninitialised.
- `EntriesReadable` is for disks that have seen no crash: a crash between the
  directory and the table leaves an entry whose cluster is free in the table, and the
  next file may get it.  `ChainsSound` excepts a table that a crash tore in two.
- `PathsLeadBack` excepts names that lookup cannot tell apart.  An absolute path starts
  at the working directory like any other: the kernel's paths work because it is the
  root at that time, which is part of `KernelStarts`.
- `KernelStarts` excepts a disk with a file named `DEV`: it comes before `dev` in the
  order, lookup ignores case, and `mkdir` follows its `children`, which was never set.
- `HandoffSound` needs the allocations to have succeeded and a display to exist;
  nothing tests it.  If the key is stale, `ExitBootServices` fails, the kernel is
  called with the boot services still on, and `kernel.c:53` prints that the boot loader
  exited successfully; the map still marks all that the kernel uses.  The mode set is
  only sure to have the width *or* the height of `config.txt`: the distance is a product
  (`main.c:118`).
- `ClockAgrees` excepts 8:59:59 at power-on: the hour 8 becomes 24, the carry of the
  minute makes it 25 and then 0.  The date is claimed until the first change of month,
  which comes after day 29; a machine started on the 30th or later, or in December, changes month
  at the first second (`time.c:83`).
- `ModifiersMatch` excepts a byte lost in a full buffer.
- `PacketsAligned` is two statements: with exactly one answer of the mouse unread all
  packets are decoded right, with none or two none ever is.
- `GlyphInside` excepts consoles that a tab or an escape sequence has left, and two
  threads in `printchar` at the same time; the interrupt alone does no harm, which is
  what the comment at `graphics.c:61` claims.
- `SectorsMoved` excepts a drive that is late to show that it is busy, or fails, and
  counts above 127.

Deadlock is checked except where the system may stop: `scheduler` (a user thread
keeps the CPU), `open_files` and `vfs` (after a fault, or at a bound), `fat12` and
`platform` (when their bounds are used up).

### Why the bounds are enough

- Pages: an uncounted descriptor, the extra byte, exhaustion and reuse all happen with
  seven pages.  A descriptor past the end of the byte map does not; the proofs cover it.
- Page tables: memory takes several leaf tables, one shared with fresh addresses;
  tables are made at two levels, by both threads at once, and memory runs out both
  for a table and for a page.
- Ring: full, empty, wrapped and partly served calls all happen with two slots and
  calls of two.  The interference of two callers does not depend on the size.
- Scheduler: more ids than pages makes every page become another thread; the pool is
  exactly as large as the number of threads, its limit.
- Heap: the requests give an exact fit, a split, a remainder too small to split, an
  expansion, and three neighbouring frees in each order.
- Sorted list: five elements grow the array three times; there are keys below,
  between and above all elements and one key twice.
- Open files: two descriptors on one node, a write that crosses the page, a file that
  ends in a sector, reopening after growth, pipe full and empty.
- Directory tree: names that differ in case only, in either order; a kernel
  directory that exists on the disk, as a directory and as a file; a directory below
  the last level populated; `.` and `..` as entries; trailing slashes.
- FAT: the table spans two sectors with an entry on the border; the disk holds the two
  files, gets full, and has chains of clusters that are not adjacent; two crashes allow
  one during the write that follows a recovery.
- Boot: the firmware can make the map grow between the two calls of `GetMemoryMap`
  more than the slack, and invalidate the key before and after.
- Clock: every carry happens, those of the shift by eight hours included.
- Keyboard: all orders of two modifiers that share a code, a chord that changes the
  terminal, and the two keys that fake modifiers; the buffer overflows.
- Console: with two by two cells every second character wraps and every fourth
  scrolls.
- Disk: a write followed by a read of the same sector before it is stored, transfers of
  several sectors, and a count that is negative as a signed char.

### Fairness

- A call in progress keeps executing: weak fairness of the steps of the heap, the
  sorted list and `REQUEST_PAGE` (`RequestTest` to `RequestNull`).  The thread of
  `REQUEST_PAGE` can be preempted, and the scheduler resumes it; this is what
  `WaitingThreadRuns` shows, and it is claimed as long as no user thread has the CPU.
- Callers of the circular buffer: strong fairness of a caller's steps, because an
  interrupt disables them for a while, again and again; after each interrupt the
  caller can go on.
- The scheduler: the timer never stops ticking (weak fairness of a switch), and the
  main thread reaches `start_scheduler`, which nothing can prevent since interrupts
  are off.  No fairness is assumed of `new_process` or of threads returning.
- `OpenFiles`, `VfsTree`, `Fat12`, `PageTables` and the device modules state no liveness
  and no fairness.  A read from a drive that fails may wait for ever, and whether a
  device answers is not the kernel's doing.

## 4. What is proved

The theorems hold for every value of the constants that satisfies the named
assumptions of the modules.  Most have the form `Spec => []Inv`, from an
inductive invariant, one lemma per action.

**`PagingProofs`**, page allocator.  Assumed: the memory map gives a size and a finite
set of pages.  `TypeCorrect` and `CountersExact` (`FreeMemoryExact`) hold for every
map and with interrupts at any step: the counters are sums of single steps, so a stale hint
does not disturb them; `CountInv` ties them to the cardinality of the used pages.
`HintCorrect` (every page below the hint is in use, the comment at `paging.c:75`),
`OwnershipCorrect` and `FirstFitCorrect` hold until a page at or below the hint is freed in
the middle of a request; the strengthening `Undisturbed` says that until then the
register is the hint and points to a free page when `LOCK_PAGE` comes.

**`PagingProofs`**, page tables.  For every depth of at least two, every fan, number of
threads and content of the pages that were not cleared.  Assumed: the addresses mapped
are addresses (physical pages included, which the code maps at their own address), and memory,
framebuffer and fresh addresses are apart.  `SoundTables` (`TablesSound`), `IdentityKept`
(`IdentityMapped`) and the refinement `AddressSpaceImplemented` (`ImplementsAddressSpace`) rest on
`PagingInv`, whose parts hold while nothing is `lost`: `TreeInv`, a page is the table
of one place, so that two walks are in the same table only if the indices so far agree;
`WalkInv`, a walk in progress is on the path of its page, whatever the others have linked
meanwhile; `FreshInv`, the pages given to the heap and the terminals, those on their
way into the tables included, are in use, no tables and different; `OrderInv`, what
`INIT_PAGING` maps is mapped or still to come.  `OffsetsTell` (equal indices at all levels make
equal pages) is why a store changes one translation; `LinkPaths` and `LinkTranslations` say what
linking a cleared page does to all paths at once: those that ended at the entry go one
table further and end there.  The recursive functions `Span` and `PathIn` are shown to
satisfy their equations by least-number arguments (`SpanIs`, `PathIs`).  `PagingTyped` holds also
after something was lost.

**`CircularBufferProofs`.**  `TypeCorrect`: no index leaves the buffer, whoever
interrupts whom, so that even the broken lock corrupts only the contents; it needs
`LoopInv`, that a call in its loop has transferred no more than it was asked for.
`MaskedExclusion`: if all callers run with interrupts off, one is inside at a time,
because nobody else can take a step (`AloneInv`), not because of the lock.
`RingCorrect` (`RingConsistent`): `RingInv` gives the place of `head`, `tail` and the local
index at every step of a push and of a pop, for every size of the ring.
`QueueImplemented` is the safety part of the refinement, `Fifo!Safety`: until two calls
overlap, every step of the code is a step of `BoundedFifo` or none.  `RingInv` places the
indices; what is added for the refinement is that the abstract queue, read from the
ring, changes only where the code publishes `head` or `tail`, and that the items in flight
are a prefix of what was asked for.

**`SchedulerProofs`.**  Assumed: the pool has room for all thread pages and the
main thread, which is where `cb_push` cannot fail.  `NoThreadLost` (`OneHome`),
`SwitchesResume` (`ContextIntegrity`), `DeadNeverQueued` (`DestroyedAfterFirstYield`) and
`TypeCorrect`, all from one invariant, since each needs the others: a frame is only
fresh if its page is not in use, and a page is only free if its thread is not queued.
`Bookkeeping` adds the order of the boot and that ids from `next_tid` on are unused.
`ArgumentWindow` (`ArgumentMissedOnlyInWindow`) adds `ArgumentPending`: a thread without its
argument is the one `new_process` is making.

**`HeapProofs`.**  For every header and page size and set of requests:
`ListCorrect` (`HeapTiled`), `BlocksCorrect`, `ExpandNeverErrs` (`LastSegmentFree`), `FullyJoined`
(`NoAdjacentFree`) and `TypeCorrect`.  `SplitTiles`, `JoinTiles`, `ExpandTiles` and `MarkTiles` say
what each change of the list preserves, and the steps use them.
`PairsLeft` is the invariant of the two joining loops: the only free neighbours are
those the loop is about to join.

**`SortedListProofs`.**  `StaysSorted`, `StaysInside` (`SpareSlot`), `NothingLost`
(`MembersExact`), `SearchCorrect` (`GetExact`), `TypeCorrect`.  `SearchInv` is the invariant of
the binary search: everything below `min` has a smaller key, everything from `max` on
a greater one.  `FreeBlank` says that the slots behind the last element are
cleared, which is what lets a lookup compare one of them.

**`FilesystemProofs`, open files.**  For any number of files, pipes and descriptors, every sector,
page and pipe size: `OwnedCaches` (`CachesOwned`), `LiveDescriptors` (`DescriptorsLive`),
`InsideAccesses` (`AccessesInside`), `TypeCorrect`.  `SoleDescriptor` (a file that was never open
twice at a time has one descriptor) is what makes the second reference that a close drops
harmless; `CacheHolds` (a cache is the one `open` loaded or reaches to the end of the page
in which the file ends) is why the test in `vfs_file_write` is right from the first
enlargement on, and only from then.

**`FilesystemProofs`, the tree.**  Assumed: names with an order and a folding under which
nothing else folds as "." or ".." does; disks on which the directory of an entry is an entry and
no two entries of a directory differ by their case alone, as FAT demands; everything else, the depth of
the walk and the calls, is arbitrary.  `PathsLeadHome` (`PathsLeadBack`), `WholeDiskListed`
(`DiskListed`), `TreeTyped` (`TreeTypeOK`).  The invariant is `TreeInv`.  Its first part is `Tree`,
which every call keeps: a parent is older than its children (`Rooted`), each node is the
child of one directory, once (`Placed`), and children are in the order of their names (`Sorted`).
`SearchIs` carries the last over an insertion: `BracketMet` is the invariant of the binary
search, nothing below its lower bound is greater and nothing from its upper bound on
less than the name, whichever equal name it meets.  `PathsLeadBack` follows by
the least node whose path does not lead back: its parent is older, so that its path does,
and the last step finds the node since no sibling is like it (`StepDown`, `LedTo`).
The second part is `Populating`, while the disk is taken over: every node is an entry of the disk with
its kind (`FromDisk`), no entry has two (`Distinct`), a directory still to be
visited has no children (`Waiting`), and an entry without a node is below such a
directory (`Covered`).  With nothing left to visit every entry has its node, and since no two
entries fold to the same path, none is mistaken for it (`EntriesAlone`), so that any
spelling leads there.  `UpTo` and `LeastNatural` stand for induction over the steps of a walk and
over the nodes.

`KernelStartsRight` (`KernelStarts`) is about what comes next, for any number of
terminals.  `Served` separates the disk's nodes from the kernel's and says that whoever looks
for one of the kernel's finds a node of its kind, which need not be that one.  It is kept
(`Settled`) because lookup takes the first child with the folded name: another of the
kernel's is of the kind already, and one of the disk's either sorts first, where
`~Obstructed` gives it the right kind (`Blocked`), or sorts later, or has the very same
name: then it is the only one of the disk's with that name, and the binary search puts the
new node before it (`FirstServes`).  `StageOf` follows the script: which of the
kernel's ways lead to directories and pipes, that the working directory is the root between
two steps, and what is open.  A node added in one directory leaves every step
elsewhere as it was (`SameElsewhere`); inside, only names that fold to its own
may lead somewhere new (`StepsIn`), so that `init_tty` for one terminal cannot hide the
pipes of the first even if their names fold alike (`PipeStays`).

**`Fat12Proofs`.**  Assumed: a table of less than 4080 entries (the driver reads nine
sectors, which hold 3072), existing files on distinct clusters of the disk; the sector
size is arbitrary, so that entries may lie on a border.  `EntriesIndependent`: the masks and shifts of the
code write one entry and restore the neighbour's nibble; `TablesClosed`: the result is a
table of bytes again.  On these stand the theorems about `write_file`, for every disk and
number of writes and crashes: `SoundChains` (`ChainsSound`), `DataKept` (`StoredDataKept`),
`DurableReturn` (`ReturnedIsDurable`), `ReadableEntries` (`EntriesReadable`), `DiskTyped` (`TypeOK`).
The invariant is `DiskInv` (theorem `DiskInvariant`):
`MediaKept`, entry 0 is never free, so that a link is never 0 by chance; `ChainOpen`, as
many clusters are free as the file still needs; `ChainsInv`, the tables are sets of
chains; `SyncInv`, how far the copies have got; `ListedInv`, the entry is in the directory before
the tables are written; `ProgressInv`, the chain built so far and its data; `StoredInv`, the
tables in memory and on disk agree on the chain of a stored file; `EntriesInv`, the entries
of the directory have chains of their own.  `NotCut` is the reason a torn table is
harmless to stored files: a 12-bit entry on which the old and the new table agree reads the
same however its two bytes are mixed.  `ChainUnique` shows that the recursive function
`Chain` is the chain, by a least-number argument in place of induction.

**`PlatformProofs`.**  `PlatformParts`: a behaviour of `Platform` is one of each part, so that
what is proved of a part holds of the machine (`PlatformSound`).  `MovedSectors`: `OnItsWay` says
that the drive's sectors with those it still has to store are what was written.
`InsideGlyphs`: what the thread that prints knows of the cursor survives the interrupt, except
that it may be one cell behind the edge.  `AlignedPackets`: the bytes the handler has and those
on their way are one stream, whose bytes differ from the places the handler gives them by
the answers left over, modulo three (`StreamAligned`); `Positions` are those between
the pointer's and the mouse's.  `SoundHandoff`: a map with a valid key is the memory, and an
old one still has what was handed over (`MapTrue`).  `MatchedModifiers`: the bytes still in the
buffer lead from what `handle_key` believes to what is pressed (`Lead`).
`AgreedClock`: from the wait to the last register the battery clock stands still
(`RegistersTrue`); then the seconds since are counted in mixed units (`TimeRight`).  The assumptions
are the ranges of the devices: two-digit years, at most 255 sectors to a command.

**Only model-checked**:

- Liveness (`RequestReturns`, `CallsReturn`, `WaitingThreadRuns`, `DeadThreadFreed`) and the fairness part
  of `ImplementsFifo`: the prover does not reason about fairness.

## 5. What is not modelled

- Vendored code: `src/gnu-efi` other than the boot loader's `main.c` is the GNU-EFI
  library, about six times as many lines as efi-os itself.  None of it is modelled
  except as the firmware that `Boot` talks to, so that the share of all lines in the
  repository that the models stand for is small, whatever is added.
- Glyphs, colours, formatting, the string library: no state that outlives a call.
- Descriptor tables, serial port: register writes, once, at boot.
- SMP detection has no caller, and the shell is behind an endless loop in `_start`.
- The user programs: two demonstrations that call the kernel in a row.
- In the boot loader: the parsing of `config.txt` and the byte behind its end that
  `Load_Text_File` writes (`main.c:76`); the uninitialised data of the kernel that is not
  cleared (`main.c:264`); the search for the RSDP, which advances its table twice per round
  (`main.c:328`) and whose result the kernel does not use.
- In the FAT12 driver: long names and deleted entries, directories of several
  clusters (`fat.c:334` writes them to adjacent sectors wherever the chain goes), path
  walking (with three levels `fat.c:313` frees the directory it then reads), the geometry in the
  boot sector.
- In process creation: reading the executable and copying its segments.
- In open files: a descriptor that is not open (`file_table.c:16`) dereferences `NULL`.
- The first tick's `kmalloc` inside the interrupt (`scheduler.c:101`) while the main
  thread is in `kmalloc`: `Heap` has one call at a time.
- `sleep` and the callbacks of the keyboard, which nobody installs.

## 6. Plan

Done, in this order: page allocator, circular buffer, scheduler, heap, sorted list,
open files, FAT12; then page tables, directory tree, and the parts that talk to the
machine.  The order follows what the rest of the kernel stands on.

To come:

1. Compositions: `Scheduler` on the steps of `CircularBuffer` in place of an atomic
   pool; `Heap` with the first tick inside a call.
