# A model of Unics

Unics is a small Unix-like kernel for i686 in C. There is one address space, no
interrupts are enabled and no scheduler runs: after the boot sequence one thread
of control runs the login prompt and then the shell loop, and every driver and
every command is a function it calls. `kern/` holds synchronisation primitives
meant for several processors. The hard parts of such a program are long
sequences of legal calls: allocators, a filesystem and tables of fixed size,
line editors and containers, whose bookkeeping must stay right after any of them.

## The system

| Part | Source | State | Operations | What must be right |
|---|---|---|---|---|
| Physical memory manager | `usr/drivers/pmm.c` | list of regions, each with a bitmap and a hint | init, add_region, reserve_range, alloc_page(_zone), alloc_pages(_zone), free_page(s), statistics | a frame has one holder; nothing is lost; reserved frames stay out |
| Virtual memory manager | `usr/drivers/vmm.c` | a table of pages with states and block lengths | init, reserve_range, alloc, alloc_aligned, alloc_tagged, free, set_tag, stats | blocks are whole and disjoint; first fit; freeing releases all |
| Paging | `usr/drivers/paging.c` | page directory and tables in frames | init, map, unmap, get_physical | an address translates to what it was mapped to |
| Filesystem | `usr/drivers/fs.c` | array of slots, free list, count, current directory | create, mkdir, delete, open, close, read, write, seek, chdir, getcwd | the tree stays a tree; names are unique and found; bytes inside buffers |
| File descriptors | `lib/libc/unistd.c` | table of pointers to files | open, close, read, write, lseek | descriptors and open files correspond |
| File commands | `bin/*.c` | that of the filesystem, the buffer of ed | cd, rmdir, mv, cp, rm, touch, mkdir, cat, ls, pwd, ed | they keep the filesystem's invariants and close what they open |
| Process table | `usr/sbin/process/process.c` | 32 slots | init, create, kill, cleanup, find | a process is there once, until it is cleaned up |
| Producer/consumer lock | `kern/pclock.c` | a generation | enter and leave for both kinds of producer and for consumers | consistent reads; exclusion; progress |
| Shared references, reference counts, atomics | `kern/srp.c`, `kern/refcnt.c`, `machine/atomic.h`, `bitstring.h` | pointers, counts, words | update, follow, collect; take, release; the atomic operations | destroyed once, after the last reader; no lost update |
| Interrupt map, databases, poll | `kern/intrmap.c`, `lib/db/db.c`, `kern/poll.c` | blocks of memory | create, destroy; open, close | no leak whichever allocation fails |
| Time, power, processor | `lib/libc/time.c`, `bin/sleep.c`, `bin/shutdown.c`, `bin/reboot.c`, `arch/i386/cpu.s` | counters; ports; control registers | convert, wait; try one method after another; detect and enable | waits end; the last resort is the last; a feature that is there is enabled |
| Boot | `sbin/init/init.c` | what is initialised | the calls of `main` | everything is initialised before it is used |
| Keyboard | `dev/keyboard/keyboard.c` | modifiers, locks, LEDs | poll, LED command, getchar | modifiers follow the keys |
| Login, shell | `usr/sbin/login`, `dev/shell` | fields, attempts; line, history | prompt; edit, recall, execute | lock-out; the line is the one on the screen |
| Console, display | `usr/drivers/vga.c`, `hdmi.c` | cells and cursor; settings and registers | put, scroll, clear; set-up, interrupt | cursor on the screen; registers and driver agree |
| Libraries | `lib/libc`, `kern/vis.c`, `sys/queue.h`, `sys/tree.h` | heap, line buffer, strtok's place, lists, trees | malloc, getchar, printf, scanf, qsort, fnmatch, insert, remove, ... | they compute what they should and change nothing else |
| Hashes, ciphers | `usr/drivers/sha2.c`, `crypto/arc4.c` | contexts | init, update, final; skip, crypt | pieces give the same as the whole |
| Small commands | `bin/bc.c`, `expr.c`, `factor.c`, `rand.c` | bc's line | evaluate | they compute what they say |

How they interact: `main` (`sbin/init/init.c:85-165`) initialises the parts one after
the other and never ends. Commands and libc call the filesystem directly, by
name or through descriptors, and share `root_fs` and `current_dir` with it. `paging.c`
takes its frames from the physical memory manager. Both memory managers cover the
memory from 1 MB on and know nothing of each other. The shell writes on the cells of
the console; standard input reads the keyboard and echoes on the console.

`PROJECT.json` lists the hazards of this code with the properties that watch them.

## Modules

| Module | Models | Note |
|---|---|---|
| `Pmm` | `pmm.c` | a bitmap is the set of its set bits; history variables `holders`, `reserved`, `single`, `ret` |
| `PmmScan` | the run search of `pmm_alloc_pages_zone`, one step per iteration | says why `Pmm!FreeRuns` and its `Min` are what the code finds |
| `Vmm` | `vmm.c` | `hung` is a failed assertion, which loops for ever |
| `VmmScan` | the loop of `vmm_alloc_internal`, one step per iteration | says why `Vmm!Fits` and `FirstFit` are what the code finds |
| `BlockAllocator` | what an allocator of contiguous blocks promises | abstract; `Vmm!Allocator` maps the page table to it |
| `Paging` | `paging.c` | frames come from and go to other clients, who leave data in them |
| `Fs` | `fs.c` | a pointer to a file is a slot number, a name a value; bytes, inodes and times are left out |
| `Fd` | the descriptors of `unistd.c`, over `Fs` | history variable `exclusive` |
| `FsCommands` | the file commands of `bin/`, over `Fs` | a step is one call; history variable `orderly` |
| `Process` | `process.c` | history variable `living` |
| `PcLock` | `pclock.c` | one step per access to the generation, per thread |
| `Srp` | `srp.c` and the list macros of `srp.h` | a writer, readers and the collector, one step per store |
| `Words` | `atomic.h`, `refcnt.c` | threads that use a counter, a lock and an object |
| `Resources` | `intrmap.c`, `db.c`, `poll.c` | every allocation may fail |
| `Power` | `shutdown.c`, `reboot.c` | the machine honours any subset of the ports |
| `Cpu` | the feature bytes of `cpu.s`, `early_cpu_init` | bytes of a shifted register, as the code stores them |
| `Time` | `time.c`, `sleep.c`, `sleep` of `unistd.c` | counters of a width |
| `Keyboard` | `keyboard.c` with the controller's queue and the keyboard | history variables for what was thrown away |
| `Login` | `login.c` | a step is a character |
| `Vga` | the cells and the cursor of `vga.c` | |
| `Shell` | the line editor, history and execution of `shell.c`, on `Vga` | a step is a key |
| `Hdmi` | `hdmi.c` with a display that raises events | the interrupt handler in three steps |
| `Heap` | `malloc`, `calloc`, `realloc` and `free` of `stdlib.c` | the program writes what it asked for |
| `Stdlib` | numbers, sorting, random numbers of `stdlib.c`, over `Heap` | small words |
| `Stdio` | `stdio.c`: the line buffer and formatted conversion, over `Stdlib` | a character is its code |
| `Strings` | `string.c` over a memory with aliasing | |
| `Texts` | `ctype.c`, `fnmatch.c`, `vis.c` | |
| `Termios` | `termios.c` with the requests it makes of the terminal | |
| `Queues`, `Trees` | `sys/queue.h`, `bitstring.h`, `sys/tree.h`, pointer by pointer | beside the sequences and sets they stand for |
| `Crypto` | the streams of `sha2.c` and `arc4.c` | the compression function is free |
| `Commands` | `bc`, `expr`, `factor`, `rand` | |
| `MinLemmas` | - | the least and the greatest element of a set of numbers |
| `PmmProofs`, `VmmProofs` | - | theorems about the two memory managers |
| `FsProofs`, `CommandsProofs` | - | about files and descriptors; about the file commands |
| `SyncProofs` | - | about `PcLock`, `Srp` and `Words` |
| `KernelProofs` | - | about the scans, `Paging`, `Process`, `Power`, `Resources`, `Cpu` and `Time` |
| `Calls` | - | the calls of `Vga`, `Strings` and `Termios` in one property |
| `UserProofs` | - | about `Login`, `Keyboard`, `Hdmi`, `Heap`, `Termios`, the moves of `Strings`, `Vga` and `Shell` |
| `MC*` | - | values of the constants for TLC, and the composition of parts |

An operation of the code is one action, with its early returns as disjuncts. A call
is one step because nothing can run in between (one thread, no interrupts), except
where there is somebody: in `PcLock`, `Srp` and `Words` every access to shared memory is a
step; `Hdmi` has a device that acts between the steps of the handler, `Keyboard` a
keyboard that goes on sending while the driver waits; `FsCommands` takes a command apart
into its calls, each of which may be refused; and the scan modules take a loop apart.
Definitions marked *Mutant* are wrong on purpose: each is a plausible mistake in the
definition below it and is there to show that a property notices it. No specification
uses them.

`MCKernel` and `MCUser` put modules side by side that share no state and never call each
other (`Shell` with `Vga` and `Stdio` with `Stdlib` do share, and are composed). A behaviour
chooses one part; the rest stay in an initial state. Their interleavings would only multiply
the states of one part by those of another, and no property relates two of them.

### Which callers

`Next` in `Pmm`, `Vmm`, `Fs` and `Fd` makes any call with any argument of the configured sets
at any time. Some properties hold only for callers that keep a rule. A rule about the order
of calls is a next-state relation of its own; a rule that a behaviour may break at some
point is a history variable or a condition, and the property says what holds until then:

* `Pmm!ClientNext`: configuration first (the order of `init.c:122-124`), disjoint regions
  whose rounded base stays inside them and that end inside the address space, and only
  what is held is freed. `single` becomes
  true when a single page is handed out: from then on the fault of `PmmDoubleGrant`
  (below) makes every statement about holders false.
* `Vmm!OrderedNext`: ranges are reserved while none of their pages is in use.
* `Fs!NoHoles`: the slots in use are the first `file_count`; only then are lookups complete.
* `Fd`'s `exclusive`: so far no file was opened twice, and none was opened, closed or
  deleted by name while a descriptor refers to it.
* `FsCommands`' `orderly`: no deletion left a hole, `rmdir` removed nothing, and the current
  directory was never `NULL`.
* `Keyboard`'s `disturbed`: the LED command threw no scancode away and did not give up.
* `Heap`'s `exhausted`: so far there was memory behind `end` for every block given. No size is
  forbidden; the call that breaks this is made as the code makes it, wrapped sizes included,
  and is the last one, because what the program then writes is no longer in its own blocks.
* `Strings`: terminated strings and room for the result, as the comments of `string.c` ask.

## Runs

Runs that pass:

| Run | Shows | Bounds |
|---|---|---|
| `PmmClients` | one holder per frame and marks on what is held, while runs are requested; nothing lost; reserved frames stay out; NULL only when there is nothing to give; statistics | words of 2 bits, two zones, 3 + 2 pages (a partial last word, an unaligned base), requests of 0 to 3 pages |
| `VmmOrdered` | implements `BlockAllocator`; blocks whole, reservations last, no page in use without a block, statistics and tags | 4 pages; alignments of 0, 1, 2 pages and one that is no power of two |
| `FsFiles` | one tree, counts and slots agree, the walk to the root ends; complete lookups without holes; sizes and positions inside the blocks; descriptors and open files correspond; what was created is found | two modes: any tree of 4 slots and 2 names; reading, writing and seeking in files of one name by name and through 2 descriptors, blocks of 2 and files of 4 bytes, writes past the limit |
| `CmdFiles` | no command leaves a file open; the tree under renaming; complete copies, unless `rmdir` removed a directory | 3 slots, 2 names, chunks of 2 bytes of files of up to 4 |
| `Kernel` | both searches, the lock, shared references, processes, paging, atomic words, power, processor, resources, time; retries and loops end | bitmaps of up to 6 pages, tables of 5; generations of 2 bits, 3 producers and a consumer; 3 elements, a reader, a writer, the collector; 2 slots for 4 processes; 3 frames, tables of 2 entries; words of 3 bits and 3 threads; every pair of feature bits; counters of 4 bits |
| `User` | the libraries, containers, bit strings, console, shell, keyboard, login, display, terminal and small commands | memory of 5 bytes, words of 6 bits, 16 bytes of heap and sizes that wrap when they are multiplied, rounded up or given a header; trees of 7 elements, lists of 3; a screen of 2 by 3, lines of 5, a history of 1; all patterns of 3 characters on names of 2; every char |

The bounds are small and sufficient for what they are for: a full and an empty table, a
partial word, a hole between two entries, a wrapped generation or counter, a reused slot, a
line that fills its buffer, a scrolled screen and a deletion with two children all occur.
Most of it is proved below for all sizes. Every bound is a CONSTANT that is
commented as one, or is named in the MC module: `User` has one more, `OneSetting`, which keeps
the settings of the display from multiplying. `CmdFiles` and `CmdCycle` identify states
that differ in answers only (`CommandsView`); no action reads those.

`CHECK_DEADLOCK FALSE` is set where the program stops: loops that end, a machine that is
off, a shell that was left, a failed assertion of `Vmm`, a calling program with nothing left
to call within its bounds.

Runs in which TLC finds what a document or a comment says to be violated (`findings` in
`PROJECT.json` quotes each):

| Run | Statement | What happens |
|---|---|---|
| `PmmDoubleGrant` | pmm.9:42, one free page | the free bit is counted from the wrong end (`pmm.c:38`) and a page in use is handed out again |
| `FsHidden` | fs.9:62, FS_ERR_NOT_FOUND | after a deletion, later entries are not found |
| `FsOverrun` | fs.9:88, buffer size | a write past the limit is copied behind the buffer |
| `FdClosed` | fs.9:33, open marks | closing one descriptor closes the file under another |
| `PcLockExclusion` | pclock.h:43, producers interlock | the outcome of the compare-and-swap is misread and two producers enter |
| `CmdCycle` | cd.c:15, traversing up to root | `rmdir` shifts the table under the parent pointers and the way up becomes a circle |

### Other disagreements that the models contain

They have no run of their own; the definitions named contain them.

Memory (`Pmm`, `Vmm`, `Paging`):
* `pmm_alloc_page_zone` answers a page of another zone when the zone is full (pmm.9:46,
  `pmm.c:187`). Freeing takes a reservation away when the page was marked by both
  (pmm.9:38, `pmm.c:120,271`).
* A region whose base lies in the last page of the address space is rounded up to base 0
  (`pmm.c:72`) and its size grows by as much, so it begins at `NULL`. `ClientNext` excludes it.
* `vmm_free` stops at a page that was reserved inside a block and leaves the rest in use
  (vmm.9:37, `vmm.c:160`), and `vmm_stats` then counts reserved pages as used (vmm.9:45).
  `OrderedNext` excludes it. A size within a page of the largest one rounds up to no page and
  the assertion fails (`vmm.c:96,48`); the sizes of the run stop below.
* The boot calls `paging_init` before `pmm_init` (`init.c:97,122`): its allocation is refused and
  paging stays off, although the boot prints that it is enabled.

Files (`Fs`, `FsCommands`):
* A file that is hidden (`FsHidden`) can be created a second time (fs.9:65, `fs.c:136`); `cp`
  leaves such a copy behind.
* `rm` looks for codes that `fs_delete` does not answer; `mv` renames in any directory and to
  invalid names; `cd /` makes the current directory `NULL`, from which nothing is found;
  the text of `ed` survives its sessions and a shorter text does not cut the file.

Locks (`PcLock`, `Srp`):
* `pc_mprod_enter` at generation 0 takes its successful swap for a failure, so it reads
  the odd generation it has just stored and waits for ever (`pclock.c:31`).

Devices (`Keyboard`, `Hdmi`, `Cpu`, `Power`, `Login`, `Shell`):
* Waiting for the LED acknowledgement throws scancodes away (`keyboard.c:41-60`).
* `hdmi_init` sets the interrupt mask before the device counts as initialised, which is
  refused (`hdmi.c:104-107`): the register keeps what it held, so after a second `hdmi_init`
  it may have a mask where memory has none (`RegistersAgree` is about what was set since).
  An event between reading and clearing the status is lost; a custom timing leaves the
  configured resolution.
* Feature bytes hold up to eight bits of the register, so absent features read as
  present, though only for a bit near their own (`PresentIsEnabled`); without CPUID the
  structure stays uninitialised (`cpu.s:128-274`).
* `shutdown` without `-f` never tries its second method; its wait for the keyboard controller
  gives up on the answer of the last poll. All methods of `reboot` answer false, so the
  triple fault always follows on a machine that ignored them.
* The branches of the shell for ^C and ^D are never taken. It moves its cursor with `\b`, which
  `vga_putchar` also makes erase: the line behind the cursor disappears from the
  screen (`shell.c:505,532`, `vga.c:131-138`; `LineOnScreen` states that it stays).

Library (`Strings`, `Stdlib`, `Stdio`, `Texts`, `Time`, `Termios`, `Resources`, `Commands`):
* `malloc` never answers NULL but for the size 0: the last sizes below the width are rounded up
  to 0, those before them move `heap_end` by 0 or backwards once the header is added, and all
  others above the memory that is left move it out of memory (`stdlib.c:21-35`). Blocks then
  overlap (`Heap`'s `exhausted`).
* `strncpy` pads one byte past the count (`string.c:39`; `NothingPastCount` states it).
* The line buffer of `getchar` loses the character at its limit; `%u` and `%x` print large
  values through an `int`; `%f` loses the sign of values between -1 and 0; `%c` of `scanf` skips
  blanks; `vprintf` and `vga_printf` count differently, and write the letters of a `%x` small
  and large (`stdlib.c:334`, `vga.c:340`).
* `mktime` is a day late after `gmtime`; a `delay` of more than about 429 seconds never ends;
  `nanosleep` never fails.
* `*` of `fnmatch` crosses slashes whatever the flags (fnmatch.h:45); bracket lists skip a
  character. `unvis` decodes nothing.
* `tcsendbreak` with no duration leaves the break on (`termios.c:149`). The methods of a
  database answer errors.
* `rand` with the largest bound divides by zero; `factor` overflows in its loop condition.

## Fairness

Loops go on, because the thread that runs them is the only one: the searches, the waiting
of `Time`, and a `shutdown` or `reboot` under way are weakly fair in `KernelSpec`. A thread inside a
function of `PcLock` goes on, since a processor executes its instructions; it need not call
another function. `LoopsEnd` says that all of them end, except waits whose limit the counter
cannot reach, of which it says that they never do (`Time!WaitsEnd`). Its part
`PcLock!RetryEnds` is about a consumer that is told to read again and needs producers to stop
writing, which is its premise. Callers are never fair: nobody
has to call anything, type anything or plug anything in. No other liveness is claimed.

## Proofs

Theorems hold for every value of the constants that satisfies the module's named
assumptions (positive sizes, argument sets of the right type, finite sets of zones, blocks,
elements and threads, an address space that is a whole number of pages, region bases above
address 0, a word with room for the references that can be held; for the shell, a line that
fits in front of the last row of the screen, as 255 characters do on 25 rows of 80). A
theorem is listed in `PROJECT.json` with the property it establishes.

Physical memory (`PmmProofs`):

* Types, under any calls. The work is in the searches: a word that is usable
  yields a page below the region's page count, a fitting run lies inside its region, and a
  freed page, which can lower the hint, has a number that is not negative.
* Holders: `SingleHolder`, `HeldIsMarked` and `ReservedNotGranted` are not inductive.
  `Inv` adds `Layout`: regions are page aligned, end inside the address space and are
  disjoint. From it, pages and frames determine each other (`Located`, `Position`), so a run of
  clear pages has no holder, and freeing what is held clears no page of another holder nor a
  reserved one. `Held` joins the three, since each needs the others; `ReservedLater` says that
  the list is not emptied under a reservation. A new region goes to the front of the
  list and shifts the others: marked frames are then found one place further.
* `NothingIsLost` adds `Accounted`: a marked page is held or reserved. That a refusal is real
  needs that a word without usable bits is full. The proof attempt found the case of a
  base that is rounded up to 0, now excluded by `ClientNext`.
* `StatsAgree`: the sum of the regions' counts is the number of their marked pages (a sum of
  cardinalities is the cardinality of the pairs counted), these pairs correspond one to one
  to the frames that `pmm_is_page_allocated` reports, and the zones partition the regions.

Virtual memory (`VmmProofs`):

* Types, intact and disjoint blocks together are inductive under any calls.
  A block is new only where all pages were free, so no older block reaches into it; freeing
  stops at the block's end or earlier, and then only pages of that block became free.
* Refinement: under ordered callers the table implements `BlockAllocator`. The
  refinement needs `OrderedInv`: besides the blocks, nothing is in use before `vmm_init`, the pages
  of a block are in use, and no page in use is outside all blocks (`NoOrphan`). Then table
  and abstract allocator see the same room: a request is refused by the one exactly if it does
  not fit for the other, and every call maps to a call of the abstract allocator or to a
  stutter.
* `TableIsExact`: the loops of `vmm_stats` and `vmm_get_largest_free_block` are functions that
  satisfy the equation of the loop. The number of pages in a state from page `i` on
  satisfies it because a block's pages are all in use (`CountFrom`), the distance to
  the start of the free run satisfies the other (`RunLengths`), and a function that satisfies
  either is the only one: take the last page, or the first, where two differ.

Files (`FsProofs`, `CommandsProofs`):

* Every call by name or by descriptor changes at most one slot: it places an entry in
  a free one, erases one, or changes an entry without moving it. `FilesInv` is types, data
  inside its block, counts, parents that are directories in use, and `HasDepths`: there
  is a function that gives every entry one more than its directory. Depths are what makes
  the array a tree, and why the walk of `fs_getcwd` to the root ends: a walk of more steps than
  slots would visit one of them twice. `DescriptorsMatch` needs `OpenInv` for exclusive
  programs. `CreatedIsFound` rests on the first free slot being at most `file_count` where there
  is no hole, and so does `LookupsAreComplete`.
* Commands: `rmdir` shifts the array, so that little of `FilesInv` stays true between them.
  `RunningOpen` does: the files that are open are those the running command has opened and still
  finds by their names, hence `CommandsCloseFiles`. `CopyInv` says how far `cp` is while
  the slots are counted. Without that condition `CopyIsComplete` is false, as the proof attempt
  showed: `rmdir` leaves a second copy of the last entry, and the destination's name may find
  that. `OrderInv` is `FsInv`, no hole, and every name once in a directory, which is what `mv`,
  `touch` and the others keep while `orderly` holds.

Synchronisation (`SyncProofs`):

* The lock: `Counting` is inductive: types, and while no generation was overwritten
  (`lost`) a reading consumer's generation is behind the lock's by exactly the writes it has
  seen, modulo the number of generations. Fewer than all of them means equal generations
  only when none was seen.
* Shared references: the list is a chain of elements from the head to `NULL`, of any length, with at
  most one referenced element outside it, that of the writer (`ListKept`); the collector's
  count is the number of places that refer to something, plus the owner
  (`CollectorIsExact`). A reader is at an element of the chain or at one whose next is in it,
  so it meets whatever stays.
* Words: the reference count is the number of references held (`CountKept`), so the release
  that reads 1 is the last; the lock word is set exactly while somebody is inside (`LockKept`).

The rest of the kernel (`KernelProofs`):

* The searches: `NothingSkipped` is inductive with the types. The two jumps are the work: to
  the next aligned page (no aligned page in between) and past the first obstacle (every run
  that starts before it contains it). In a bitmap, the window of `consecutive` clear pages
  before `pmm_i` is clear, and no run starts in front of it; a set bit ends every run that
  contains it.
* Paging: tables are found through the directory, so `TablesApart` is kept: directory
  and tables are different frames, and none of them one that another client has or can get. A
  new table is blank although its frame was not.
* Processes: used slots and living processes are two views of one set, by
  their numbers, which never repeat; a bijection between them gives the count.
* Power: a method that the machine honours ends the command, so a command under way has tried
  none that it honours.
* Interrupt maps and databases: the blocks allocated are those the objects own, every block by one
  object (`ResourcesInv`), also when an allocation in the middle fails and what came before is
  given back, each once: the blocks that are freed are listed in order, and the list names no
  block twice.
* Processor: each enabling step leaves every bit but its own, and the byte tested for a feature
  includes the feature's own bit and otherwise only bits up to three places below it or seven
  above.
* The calendar: remainder by remainder, the fields of `gmtime` add up to the time, and `mktime`
  adds them up with the day counted from 1.

The user's side (`UserProofs`):

* Login: a buffer holds the line as typed and corrected, and `Nul` behind it (`BuffersHold`),
  for fields of any size, so that what is compared is what was meant.
* Keyboard: what the driver will know once it has taken the bytes that wait is what the keys and the
  user know now (`Undisturbed`); about a shift key only its last scancode tells
  (`ShiftsFollow`), which is why a lost one does not stick for ever.
* Display: what the driver keeps of a line of the display is the line, or an event is
  pending that the handler has still to serve (`EventsKept`); registers and configuration agree
  on what was set since the last initialisation (`SettingsKept`), whatever they held before it.
* Heap: a block lies below `heap_end`, where nothing is written any more (`BlockKept`). So what
  counts is that a new block is as large as what its owner will write: where there is memory for
  it, neither the rounding nor the header wraps (`RoundedUp`), and a product that passes the
  test of `calloc` did not wrap (`NotWrapped`); the memory behind `end` is less than the
  address space. `realloc` copies no more than both blocks have room for.
* Terminal settings: a refused call changes neither side, what reaches the driver is what the
  program holds, and a break is on exactly when it was sent and not ended
  (`SettingsAlwaysFollow`).
* Memory: `memmove` delivers what was there before the call and touches nothing else
  (`MovesStayIntact`). It copies byte by byte; what is still to be read was not yet
  written, because the direction is chosen by the order of the two addresses.
* Console: what is in front of the cursor is a number of cells, `row * VGA_WIDTH + column`, and a
  printed character adds one to it whether or not a row ends there; scrolling takes a whole row
  off the front of it (`TextAlwaysFollows`, `CursorStaysOnScreen`).
* Shell: `ShellInv` says that in front of the cursor stand the first `cursor_pos`
  characters of the line (`LineShown`), which alone is not inductive. It needs the room in which
  a line lies (`LineRoom`): redrawing a line moves the cursor back over it, and `\b` at the
  left end of the top row does nothing, so a line must never have been scrolled out at
  the top. `HistoryReady` says that the history is the end of what was entered.

Checked by TLC only: `LoopsEnd`, which is liveness under fairness; and `LibraryAgrees`,
`PiecesMakeTheWhole`, `TypedIsRead` and `ContainersAgree`. These are about what recursive
definitions compute for every input, which needs induction over data, or about modules with
`RECURSIVE` operators or `Bitwise` (`Commands`, `Crypto`, `Queues`, `Stdlib`, `Texts`, `Trees`
and what extends them), which the prover cannot use. They are compared with a definition over
bounded inputs instead.

## Not modelled

* Commands that only print (`figlet`, `fetch`, `cpuinfo`, `uname`, `cowsay`, `ps`, `echo`, `yes`, `tty`,
  `whoami`, `clear`): no state.
* `usr/drivers/syscall.c` and `panic.c`: wrappers of an interrupt that nothing handles, and a
  screen before a halt; nothing calls either. `usr/drivers/null.c` makes one directory and one
  file at boot. `lib/libc/err.c`, `errno.c`, `cdefs.c`: messages, a variable, hooks.
* Of `stdlib.c` the conversion of floating-point numbers and of multibyte characters,
  `exit` and `abort`. Of `vga.c` colours, cursor ports, saving the screen. Of `hdmi.c` packets and
  keys. Of `cpu.s` the vendor string, caches, FPU state, and model-specific registers.
  Of `shell.c` the dispatch to the commands of other files.
* Assembly of the boot, headers taken over from other systems that nothing includes.
* The bytes of files, inode numbers and times. Failing allocations of kernel memory in
  `fs.c`: `malloc` answers NULL for the size 0 only (`lib/libc/stdlib.c:28-40`), because `_sbrk`
  never refuses. Memory behind the last byte of the heap (`HeapSize`).

## What is left

1. `Boot`: the initialisations in the order of `main`, with the state each leaves behind.
2. Bytes of files and an abstract file that `Fs` implements.
3. The parts of `stdlib.c` and `vga.c` named above.
4. Proofs: what the searching and comparing functions of `Strings` answer, once their loops are
   taken apart as `PmmScan` does with a search.
