# SBUnix: a verification project

SBUnix is a small UNIX-like kernel for x86-64 with a C library and a few
programs: a shell that forks and executes commands, a tar archive as its file
system, demand paging with copy-on-write fork, a keyboard, a clock and a text
console.  This directory holds TLA+ models of its parts, TLC configurations that
check them on small instances, and TLAPS proofs for instances of any size.

    tlc -config PageAllocator.cfg PageAllocator      # one run, see "Runs"
    tlapm ProcessRingProofs.tla                      # one module's proofs

`PROJECT.json` lists the components, the runs, the mutants (for each checked
property a plausible slip in the code that breaks it), the source lines behind
each definition, the hazards and the theorems.

## The system

The processor is single, and every gate of the descriptor table is an interrupt
gate: interrupts are off in handlers and in system calls, and come on in user
mode, in `scanfstdin` after its `sti`, and at the end of `contextSwitch`.  There
is no preemption: the timer handler only shows the time.  What runs concurrently
is therefore little and well delimited: handlers against user code, against
`scanfstdin`, and against code after a `sti`.  What makes the kernel hard is that
its data structures are updated by several system calls that rely on one
another's side effects, that nothing is ever given back (frames, PCBs, process
ids), and that failures are not looked at.

| Component | State | Operations | What makes it correct |
|---|---|---|---|
| page allocator, `sys/page.c` | `pageMap`, `firstFreepage` | `init_pageTable`, `allocatePage`, `deallocatePage` | the words of free frames form one sorted list; no frame is handed out twice, none of the kernel's own |
| processes, `sys/process.c`, `sys/syscall.c` | ring of PCBs (`first`, `current`, `next`), `zombie`, `pID` | `kernProcess`, `userInitProcess`, `schedule`, `contextSwitch`, the fork, execve, waitpid, exit and yield calls | a waiting program wakes when its own child ends, and does wake; no zombie runs |
| page tables, `sys/mmu.c`, `sys/page.c`, `sys/syscall.c` | a four-level table per process, `CR3`, the translation cache | `map_v_p2`, `loadCR3`, the copy in fork, the write branch of `pageFault`, `loadElf` | each process has a memory of its own |
| keyboard, `sys/isr.c` | `buffer`, `index`, `scanFlag`, `localEcho`, modifier keys | `scanfstdin`, `irq_handler1` | lines arrive terminated, whole and in order; Enter ends the read |
| heap and stack growth | VMAs, `mm->brk` | `mallocSyscall`, the heap and stack branches of `pageFault`, the end of `loadElf` | what a program stored, and what execve stored for it, stays; every access ends |
| kernel stacks, `sys/interrupt.s`, `sys/gdt.c` | `kstack` of a PCB, `tss.rsp0` | the stubs, `contextSwitch`, fork's copy of the stack | a process goes on with the registers it trapped with |
| console, `sys/kprintf.c` | `xp`, `yp`, `video` | `write`, `kprintf`, `newline`, `backspace`, `scroll`, `clearScreen` | writes stay inside video memory |
| timer, `sys/timer.c` | tick and time counters | `init_timer`, the timer handler | the clock is drawn without moving the cursor |
| files, `sys/tarfs.c`, `sys/syscall.c` | tree of directories, descriptor table of a process | `parse`, the open, read, opendir, readdir and chdir calls | listings are complete; a descriptor reads the file it was opened for; a full table is refused |
| user heap, `libc/malloc.c` | list of blocks | `malloc`, `free` | blocks do not overlap |
| disk, `sys/enumpci.c` | AHCI registers and command lists in memory | `walk`, `probeport`, `port_rebase`, `write_to_disk`, `read_from_disk` | a command slot is not reused while it is busy |
| shell, `bin/sbush`, `libc/string.c`, `libc/cd.c` | the line, the script, `pwd` | `split`, `cd`, the branches of `main` | programs get the words of the line; scripts run line by line; `pwd` names a directory |
| programs, `bin/` | | `ls`, `cat`, `echo`, `ps`, `sleep` | use of the calls above |

How they meet: a system call enters through one gate and `syscall_handler`; read
of descriptor 0 calls `scanfstdin`, which waits for `irq_handler1`; fork calls
the page allocator and copies the page table; a store of a program after fork
comes back through `pageFault`; waitpid and exit call `contextSwitch`, which
loads another table; the handlers for the keyboard and the timer print on the
console that write prints on.

The hazards are listed one by one, each at its line, in `PROJECT.json`.

## Modules

| Module | Models | Used by |
|---|---|---|
| `FramePool` | what callers expect of the allocator | refined by `PageAllocator` |
| `PageAllocator` | `sys/page.c` 14-90 | run `page_allocator` |
| `ProcessRing` | the PCBs and the calls that move them | run `process_ring`; extended by `CowMemory`, `HeapGrowth`, `KernelStack` |
| `ProcessRingProofs` | theorems about it | |
| `PrivateMemory` | what programs expect of their memory | refined by `CowMemory` |
| `CowMemory` | page tables, copy-on-write, `CR3`, the translation cache, composed with `ProcessRing` | run `cow_nested` |
| `CowMemoryProofs` | theorems about it, on top of `ProcessRingProofs` | |
| `KeyboardInput` | `scanfstdin` against `irq_handler1` | run `keyboard_input` |
| `KeyboardInputProofs` | theorems about it | |
| `Console` | `kprintf.c` and the clock of `timer.c` | run `console` |
| `ConsoleProofs` | theorems about it | |
| `BlockHeap` | what a program expects of its heap | refined by `UserHeap` |
| `UserHeap` | `libc/malloc.c` beside `sb_malloc` | run `user_heap` |
| `AllocatorProofs` | theorems about `UserHeap` and `PageAllocator` | |
| `AhciDisk` | the driver of `enumpci.c` against a controller | run `ahci_disk` |
| `TarFs` | `tarfs.c`, open, readdir, read and the descriptors | run `tarfs` |
| `MCTarFs` | the archives TLC considers | |
| `StorageProofs` | theorems about `AhciDisk` and `TarFs` | |
| `AddressSpaces` | what page tables are for | refined by `PageTables` |
| `PageTables` | how `sys/mmu.c` and fork build and share tables | run `page_tables` |
| `MCPageTables` | the user pages, and the memory at the start, that TLC considers | |
| `HeapGrowth` | VMAs, `mallocSyscall`, heap faults, execve's arguments, composed with `ProcessRing` | run `heap_growth` |
| `KernelStack` | the stubs, `tss.rsp0`, `kstack`, composed with `ProcessRing` | run `kernel_stack` |
| `StackAndHeapProofs` | theorems about `HeapGrowth` and `KernelStack`, on top of `ProcessRingProofs` | |
| `CString` | `split` of `libc/string.c` | extended by `WorkingDirectory` |
| `WorkingDirectory` | `cd`, chdir, the path of `ls` | extended by `Shell` |
| `Shell` | the loop of `sbush.c` with all its branches | run `shell` |
| `MCShell` | lines, scripts and a tree for TLC | |
| `ShellProofs` | theorems about `Shell`, with what `split` answers and where `ls` looks | |

### PageAllocator

`pageMap` and `firstFreepage` are the code's variables, with frame numbers for
addresses.  `Init` is the array as `init_page` leaves it; `Reserve` and `Release`
are one round each of the two loops of `init_pageTable`; `AllocatePage` and
`DeallocatePage` are the two calls, with `UnsetPage` and `SetPage` for the
functions of these names and `Scan` for the loop in `setPage`.  `(uint64_t)-1` is
the constant `EndMark`: what matters is that it exceeds every index.  `owned` is a
history variable.  `deallocatePage` is called only with a frame that was handed
out, as by its one caller `kfree`.

### ProcessRing

The fields of `struct pcb` that the calls read or write are functions of the PCB;
PCBs are numbered in the order `kmalloc` returns them.  One action is one system
call up to the switch it ends in, or one boot step of `start`; `ContextSwitch`
models `contextSwitch`, and `at` says where each process will go on.  A system
call is one step because interrupts are off and no handler touches a PCB.  `a` is
the variable of user code that holds what `sb_fork` returned; a parent calls
waitpid and a child calls execve, as the shell does, and a program that was
executed calls exit when `main` returns (`crt/crt1.c`).  `Reachable` stands for
the pointer chase in `exitSyscall`.  `callers` is a history variable: the kernel
records nowhere who waits for whom.  `YieldSyscall` is limited to the shell between
commands: the programs have their calls of `sb_yield` commented out, and a program
that yielded while another waits for it would resume that one early.

### CowMemory

Extends `ProcessRing`: each action is an action of that module together with what
the same call does to memory.  A page table is a function from pages to entries
(frame, present, writable, the COW bit); the four levels are abstracted.  Frames
are numbered in the order in which they are handed out: the kernel never frees one
after boot.  When they are used up `allocatePage` returns NULL, which no caller
tests, and frame 0 is mapped; the model goes on as the code does and sets `oom`.
`tlb` holds entries the processor has cached, at any time it pleases (`TlbFill`),
and `LoadCR3` empties it: the bit the code calls `COW_BIT` (0x100) is the processor's bit
for a global page, which a load of `CR3` would spare, so this takes a clear `CR4.PGE`, which
nothing in the repository sets.  `UserWrite` is a store of a program, `PageFault` the
write branch of `pageFault`, `KernelWrite` the copy of `readSyscall` or
`scanfstdin` into a user buffer.  The repository never sets `CR0.WP`, so it has
the value the loader left.  If it is clear, a write of the kernel ignores the read-only
bit; if it is set, the write is preceded by the fault.  The model has both behaviours.

### KeyboardInput

One action of `Scanfstdin` is one access to a variable that `irq_handler1` shares,
in the order in which the compiled code makes them (`buffer[index++]='\0'` stores
`index` before the byte, and the result re-reads `index`).  The handler is one
step, at any point where interrupts are on.  Keys are numbered in the order in
which they are stored, so that a key that is read twice, lost or out of order can
be told.  The byte stored may be 0: `kbdus` has no character for Alt, Home or the function
keys, and a space with shift is 32 - 32.  `nul` says which keys were of this kind; the line
is handed over whole, but a program that takes it for a string sees it up to the first of
them.  `typed`, `nul`, `echoed`, `last` and `entered` are history variables.

### Console

The cursor is `xp`, `yp` and `video`, the last as a count of character cells from
`0xB8000`.  `Write`, `Newline`, `CarReturn`, `ClearScreen`, `Backspace` and
`Scroll` are the functions of these names; `Kprintf` is any of them, called by
`kprintf` for a program, with the formatting left out.  `StoreKey`, `CapsKey` and
`BackspaceKey` are what `irq_handler1` does to the screen.  `time_func` has an
action for its beginning, for each character it draws and for its end; nothing
else happens in between, because interrupts are off.  `echoed` and `blind` are
history variables: keys on the screen, and keys erased that were never on it.

### UserHeap

`blocks` is the list of `struct mallocinfo`, `brk` is `mm->brk`.  `Reuse` and
`Extend` are the two ends of `malloc`; `Candidates`, `Fits` and `IsMintemp` say
which node the loop leaves in `mintemp`: the first that fits, because `min` is then
the size asked for and no larger block passes the test again.  `Free` is `free` of
an address malloc returned, `FreeUnknown` of one that came from `sb_malloc`, which
the shell does.  `raw`, `parity` and the field `asked` are history: what the program
holds, whatever the marks in the list say.  `BlockHeap` is the promise: what is
handed out overlaps nothing the program holds.

### AhciDisk

One action of the driver is one access to a register; the buffer is filled in one step
(`Fill`) and a command is built in one (`Build`).  `StopCmd`, with five accesses, `PortRebase`
and `StartCmd`, with three, set the port up;
`Fill` and `Return` are the loops of `probeport`; the steps from `Begin` to `Check`
are `write_to_disk`, and `read_from_disk` for the last round, which differ in the
command alone.  The controller is external: it fetches a command when its engine
runs, moves the data at some later time, and may fail, after which it does nothing
until it is restarted.  A command says twice which way the data goes, in its header (`w`)
and in its FIS, and for a write the two disagree: `w` is 0, from the device.  `byHeader` says
which of them the controller goes by; both kinds are in the model, and with one that goes by
the header nothing is stored, though 1 is returned.  At this commit `start()` has the call of `walk()` commented
out, so the driver is not run.

### TarFs

An archive is a record: its members, the block of each header, and the blocks, headers and
data, as the Makefile's `find` and `tar` produce them.  `LaidOut` says how `tar` lays them
out, one member behind the other, and the model assumes nothing else of it (the names are over any set
`Char`); TLC's archives are computed in `MCTarFs`.  `InitTarfs` is one round of the loop of `init_tarfs`, with
`RoundedUp` for the step to the next header and `Parse` for `parse`.  Names are
sequences of characters here: that `parse` cuts the names of files from the same
position as those of directories is what the module is about.  `Open` and `OpenDir`
are the two modes of `openSyscall`, `Readdir` is what `readdirSyscall` prints, and
`FileStart` is where `readSyscall` copies from.  `GetFile` and `IsDir` are the lookups
of execve and chdir, which walk the archive again (`RawAt` is the block such a walk has come
to after so many headers).  `fd[p][MaxFd]` is the word behind the
table.  Calls that fail to find a name change nothing and are not actions.
`ArchiveAssumption` leaves out names of fewer than three characters at the top, for
which the code's search leaves the array.

### PageTables

A table is a function from indices to frame numbers, 0 for an entry that is not
present; the other bits of an entry are `CowMemory`'s.  There are three levels where
the code has four: the two in the middle are built by functions that differ in their
types alone.  `Descend` is `pdpeAlloc` and its like together with the test before it,
`MapIn` is `map_v_p` and `map_v_p2`, `Boot` is `kernmemMap` and `phy2vir`, `ForkTables`
the four loops of `forkSyscall`.  Frames are handed out in order; frame 0 and a failed
allocation are left to `CowMemory`.  A frame is not cleared when it is handed out (the
`memset` in `allocatePage`, `page.c:38`, is commented out).  Tables below a root are cleared by
those who allocate them; the roots of `setUserSpace` (`mmu.c:227`) and fork (`syscall.c:273`)
are not, and fork clears no entry that the parent lacks.  `Found` is what memory may hold at
the start, and `wild` becomes true when a root keeps an entry of its frame that is not 0.  From
then on its space has pages nobody mapped, or tables that lie anywhere: nothing is promised, and
the behaviour ends.  `AddressSpaces` is the promise: a new space is empty
or its parent's, a page gets a frame that no other page has, and the kernel is in each.

### HeapGrowth

Extends `ProcessRing` like `CowMemory`, with each process's pages for itself.  A fault
maps the page at the end of the heap VMA, so that a program may fault several times for
one store: `Touch` begins an access, `PageFault` is one fault, `Store` ends it.  The list
of VMAs is reduced to the heap VMA it leads to: fork's copies keep the `next` pointers of
the originals, so the child's list leads from its own first VMA to its parent's others,
and parent and child move one `end`.  `execveSyscall` has three parts, because the stores
of `WriteArg` fault: the VMA is then that of the program that is replaced, the table that
of the new one.  `Touch` lets a program come to its pages in order, as the programs of the
repository do, which allocate less than a page at a time and write from the start, and to the cells of one
page from the lowest up: the handler sees only the page.
`StackBranch` is the condition of the stack branch with its unsigned differences: the one
with the fault address wraps below zero for a stack that has outgrown its page, so that the
branch is never taken and `SegmentationFault` is what follows.

### KernelStack

Extends `ProcessRing` with the kernel stacks, in units of the frame a trap leaves there:
the registers `irq_common_stub2` pushes and what the handlers keep below them.  A frame
holds the name of the trap it was pushed for.  `SwitchStacks` is the part of
`contextSwitch` that stores the stack pointer in `kstack` and loads `kstack` and
`tss.rsp0` of the next process; `Suspend` joins it to the calls of `ProcessRing` that
switch.  `Copied` is the `memcpy` of fork, from the parent's `kstack` down, not from the
top of its page.  The slot of `rax` that `irq_handler2` finds at `kstack + 232`, the
registers the stub does not push, and the bytes of a frame depend on the compiled code
and are left out.  The guard `Room` is not in the code: a trap on a full stack writes over what
lies below the page, and the model stops before it.

### CString and Shell

A line is a sequence of symbols: blanks, letters, whole names.  `Split` is `split`, with
its three peculiarities: it appends a separator to the caller's string (`Marked`), drops
the last piece, and passes over the digit 0 with its index left behind (`Piece`).  The
loop over the string is given by what it has counted: the n-th separator is at `Place`, and
a piece lies between two of them, shifted by the zeros before it.  It has
ten strings for the pieces (`Entries`); a line of more pieces has no defined outcome and
ends the behaviour (`Undefined`).  In `Shell` an action is one turn of a loop of `main`;
`NextWord` is the loop of the ls, cat and echo branches, and `Exec` the fork, execve and
waitpid of all.  The script loop is left by `goto start` and entered again by `goto
shebang`, past the declaration of `i1`; the model lets `i1` keep its value, as it does
when it has a place of its own in the frame of `main`.  Of the strings' 30 bytes nothing
is modelled.

### WorkingDirectory

`BeginCd`, `CdUp`, `CdAbsolute` and `CdDown` are `cd`, one action for each turn of its
loop; `Chdir` is what `sbush.c` makes of the result, with `chdirSyscall` and `isDir`.
The shell's `CdPath` hands it the second
word of the line.  `LsPath` and `Opened` are how `bin/ls` and `openSyscall` take `pwd`, when it is
short enough for the 20 bytes `ls` has for it (`ls.c:39`): what a longer one overwrites is not modelled,
and `LsOpensPwd` says nothing of it.  Names are whole
symbols; the one thing that depends on their length, the comparison with `rootfs` that
begins at index 6, is the constant `SixLetters`.  `TreeAssumption` says that no directory is
called 0, which `split` would pass over; the repository has none.  `cur_dir` of the PCB is written by chdir
and read once, when the shell starts.

## Runs

| Run | Shows | Bounds |
|---|---|---|
| `page_allocator` | `SortedFreeList`, `FrameAccounting`, and that the allocator implements `FramePool` | ten frames, of which the layout leaves two below the image and five above: every pattern of free and used frames, the empty list included |
| `process_ring` | `RingIsCallChain`, `ExitFindsPredecessor`, `ZombiesLeaveRing`, `DistinctLivePids`, `WaitReturnsAfterChildExit`, `WaitReturns` | ten PCBs (four commands), three levels of nesting, four ids: commands in turn and nested, ids that run out in the middle |
| `cow_nested` | `TlbCoherent`, `SharedFramesReadOnly`, `CopyOutIsPrivate`, and that `CowMemory` implements `PrivateMemory` | two commands, nested or in turn, one page, six frames: a frame shared, copied by one of the two and shared again by a nested command (at most two live processes ever share one), and memory running out |
| `keyboard_input` | `LineTerminated`, `EchoedIsDelivered`, `KeysOnceInOrder`, `EnterEndsRead` | four keys, each with a character or without, in a five-byte buffer, any number of Enter and backspace: a read, type-ahead and a second read |
| `console` | `VideoOnScreen`, `TextBelowClock` | five columns, rows 1 to 4, a clock of three characters: wrapping, scrolling, erasing over a row's end, and the clock in each position; a buffer of 13 bytes, the largest that `ScreenAssumption` allows on that screen; one key of type-ahead erased |
| `user_heap` | `ClearIsPrivate`, and that the heap implements `BlockHeap` | three sizes, a break of up to 10 cells: two blocks and more, freed and reused, with ranges of `sb_malloc` between them, and a size beyond the limit `min` starts from |
| `ahci_disk` | `DoneMeansStored`, `SlotExclusive`, `BufferStable`, `TestEndsOrFails` | three slots, two fillings of the buffer for two sectors each, three polls of a busy drive, a controller that goes by the FIS or by the header: an error at each command, the command after it in the next slot, a hung port |
| `tarfs` | `LsShowsChildren`, `LookupsAgree`, `ReadsOwnData`, `DescriptorsStay` | all archives of up to four members from three directories (one nested) and five files of zero to two bytes in blocks of two; two descriptors a process, two processes |
| `page_tables` | `SpaceRefinement`: the tables implement `AddressSpaces` | tables of four entries, 14 frames of which six are the kernel's tables; user pages under one leaf, two leaves and two entries of the root: up to nine spaces, or two full ones with all their tables; memory that is clear, and three that hold something, in one of two frames handed out soon after boot or in all later ones |
| `heap_growth` | `ArgvIntact`, `HeapKept`, `AccessCompletes` | six PCBs (two commands, nested or in turn), a heap of three pages of two cells, two cells of arguments: an end of the VMA lowered below pages of others, arguments that cross a page |
| `kernel_stack` | `ResumesOwnFrame`, `OneFramePerSwitch` | three commands, three levels, four frames a stack, three traps a process that return to it; the model stops where a stack is full |
| `shell` | `ArgvIsWords`, `LsOpensPwd`, `ScriptLineByLine`, `CdResolves` | every line of a command and up to six blanks, letters and zeros; lines of up to six words, one more than `split` has strings for; scripts with and without a shebang, too long, changing directory and running one another; every path of up to five symbols behind cd, one command after the other, in a tree of three levels with a directory of six letters |

`EchoedIsDelivered` is the strongest thing that can be said of the keyboard: a key
pressed after the echo is turned off and before `index` is reset is stored and
then forgotten, and so is type-ahead that backspace erases.  What the user saw
echoed is never lost.

`TextBelowClock` has a premise, that no type-ahead has been erased: those keys were
stored without echo, and backspace takes as many characters of the program's text
off the screen, the clock's row and the memory before it included.  It also depends on
the size of the buffer: a key that scrolls the screen leaves the address one cell behind
for each row above, and erasing a line long enough climbs into the clock's row.  The exact
condition is `BufSize - 1 <= (Cols + 1) * (LastRow - 2)` in `ScreenAssumption`, found by the
proof: an earlier, looser one had counterexamples.  The code, with 512 bytes against 81 * 20,
is far from it.

`DoneMeansStored` has the premise that the controller goes by the FIS.  One that goes by the
header makes it false for every sector; `SlotExclusive`, `BufferStable` and `TestEndsOrFails`
hold for both.

`SpaceRefinement` has the premise that no root was made in a frame with leftovers.  The frames
that are handed out first lie below the kernel's image, where the loader ran, so this is an
assumption about the machine and not a fact of the code; that the tables below the roots may
lie in such frames is covered.

`LineTerminated` does not say that the line has no 0 before its end, which is false; it says
that no such 0 comes from the race between the handler and the copy.

`TestEndsOrFails` stops at the first error, because the code does: the controller
waits to be restarted, `write_to_disk` returns 0, and the next call issues a command
that is never fetched and waits for it without end.  All slots in use, the other
reason for 0, therefore does not occur.

`ArgvIntact` and `HeapKept` have the premise that the program has not allocated as far
as its arguments: execve puts them at the old program's break, the new program's break
starts at `HEAP_START` again, and nothing marks them as used.  A program that allocates
more than the shell had writes over its own `argv`; one that reaches a page above the
lowered end of its VMA gets a fresh frame in the place of the one that held them.

`OneFramePerSwitch` is not good news: `kstack` is never put back, so each command the
shell waits for takes a frame of its one-page kernel stack for good.

`Supported` in `WorkingDirectory` lists the paths cd handles.  Three components in a
relative path, `./..`, `../..` from the second level and names of six letters at the top
go wrong, as the comment there says; `LsOpensPwd` holds whatever is typed.

A script that runs another does not come back to its own lines: `buf` is overwritten and
`flag1` cleared.  `PlainScript` leaves such scripts out, and scripts of more than four
lines, for which `split` has too few strings.  Its demand that the first line is the shebang
and nothing else came from the proof: a file that merely begins with it is refused by
`CheckShebang` and runs no line, and one of the run's scripts is now such a file.

`TypeOK` is checked by itself for `ProcessRing` alone.  The inductive invariants contain
the type invariants of the modules that have proofs; in the others a wrong type shows as an error
of evaluation.

Four places where the repository says one thing and does another, seen while modelling:
- `page.c:142` prints "Segmentation Fault ... Process Terminated"; line 143 halts the
  machine, in a handler with interrupts off, and the process is still in the ring.
- `cd ../..` from the second level below the root is answered by "No such file of
  directory" (`syscall.c:565`): `cd.c` leaves `/rootfs`, of which `sbush.c:390` leaves the
  empty string.  `cd ..` from the first level works because `cd` then makes one more turn,
  with an empty component, that appends a slash.
- `write_to_disk` sets `w` to 0, "Read from device" (`enumpci.c:43`), for a command whose FIS is
  a write (`enumpci.c:68`); `probeport` prints "write done" (`enumpci.c:306`) whatever happened.
- `sleep 5` says "After 5 seconds" (`sleep.c:11`) at once: `syscall()` (`syscall.c:26`)
  does not know call 162, and `sleepSyscall` is never reached.

### Fairness

`process_ring`, `keyboard_input`, `ahci_disk` and `heap_growth` check liveness.
- The boot code goes on, and a process that has just returned from fork calls
  waitpid or execve (weak fairness): it runs alone, and its next call is the next
  thing in its program.
- `schedule` (weak): `init_func` is a loop around it.
- `ExitSyscall` (strong): a command ends if it runs again and again.  It may start
  and wait for commands in between, so its exit is not continuously enabled; a
  command that computes for ever is not what `WaitReturns` is about.
- `Scanfstdin` (weak): the processor executes the interrupted code between two
  interrupts.  Nothing is assumed of the person at the keyboard.
- The disk driver (weak): it polls, alone on the processor.  The controller's engine
  follows its bits, fetches and completes commands (weak); that a busy drive becomes
  ready is not assumed, the driver counts to its limit.
- A faulting instruction is executed again, and execve goes on (weak): interrupts are off,
  nothing else can run.

## Proofs

Checked by `tlapm` for every value of the constants allowed by the assumption of
each module (`LayoutAssumption`, `SizeAssumption`, `StackAssumption`,
`MemoryAssumption`, `BufferAssumption`, `ScreenAssumption`, `HeapAssumption`,
`DiskAssumption`, `AddressAssumption`, `ArchiveAssumption`, `TreeAssumption`,
`ShellAssumption`).  Where a safety property of a run is proved, the inductive
invariant contains more than the property; each paragraph says what and why.

`AllocatorProofs`, the page frames: `AllocatorInvariant` proves `TypeOK`, `SortedFreeList` and
`FrameAccounting` together (`FreeListSorted` is its part for the list), with two strengthenings: what is free in each round of
the two loops of `init_pageTable`, and that `owned` is empty until they end.  The
heart is a lemma that the scan of `setPage` stops at the word of the largest free
frame below `index`: the sorted list gives that frame, the zero words of used
frames make the scan pass over everything else.  `AllocatorImplementsPool` maps
each step to a step of `FramePool` or a stutter.

`ProcessRingProofs`: the invariant `IInv` says what the ring looks like in each of
the four situations a running system can be in: the shell or the kernel process
alone (`Idle`), a program running while others wait (`InProgram`), a program
between fork and waitpid (`AfterFork`), and a child between waitpid and execve
(`InChild`).  `RingIsCallChain` alone is not inductive: fork, waitpid and execve
break the chain and mend it, and execve links the new PCB behind `first->next`,
which is right only because that is always the shell, whose `next` is the running
program.  From the invariant follow `RingTypes`, `CallChain`, `ExitTerminates`,
`NoZombieRuns`, `PidsDiffer` and `WaitIsForOwnChild`.

`StackAndHeapProofs`, the stacks: every step is one of the ring or leaves it alone, so its invariant
may be used.  `StackInv` adds what the stacks are before the shell is entered and for PCBs
not in use, and the depth at which the kernel process stays suspended.  `ResumesOwnFrame`
needs `OneFramePerSwitch`: a trap pushes where `tss.rsp0` points, and it spares the frames
of a suspended process because that is one frame lower for each time the process was put
aside.  From the ring comes that `contextSwitch` never switches from a process to itself and
returns only to one that was suspended.  Theorems: `FramesSurvive`, `SwitchCostsAFrame`.

`StackAndHeapProofs`, the heaps: neither `ArgvIntact` nor `HeapKept` is inductive, because
what a fault destroys depends on the `end` of a VMA and on which pages are mapped.  `HeapInv`
says, on top of the ring's invariant, who moves which `end`: only a child between fork and
execve has a VMA that is not its own, and its parent, which has it, waits (`ShareInv`).  For a
program that has not come as far as its arguments, every page mapped below one that is missing
is below the `end`, and all pages below it are mapped (`OrderInv`); so a fault maps a page that
was missing.  While execve writes the arguments it is the other way round: the pages of the new
program reach, without a gap, from the first argument's page up to the `end` of the old
program's VMA (`ExecFor`), which no page but 0 can be below when execve ends.  The conjuncts
were found with TLC, which checked them on the instance of `heap_growth`.  Theorems:
`ArgumentsArrive`, `HeapPagesStay`.

`CowMemoryProofs`: `SharedFramesReadOnly` is not inductive, because a write fault gives one
of the sharers a frame of its own and leaves the other as it is, and because the kernel's
writes ignore the read-only bit.  `MemInv` adds that the loaded table is the running
process's, that a live process's pages are mapped to distinct frames handed out, and who can
share at all: a parent between fork and its child's execve, with that child and nobody else
(`SharingInv`).  The last is a fact of the ring: a program calls nothing but waitpid after
fork, and does not run before the child has called execve or ended.  `NoStaleTranslation`,
`SharedIsReadOnly` and `KernelWritesArePrivate` follow.  `MemoryIsPrivate` maps each action
to a step of `PrivateMemory` or a stutter: a write fault copies, so the memory of a process
does not change, and a store that does not trap reaches a frame nobody else has.

`KeyboardInputProofs`: keys go on being stored while `scanfstdin` terminates and copies the
buffer.  `ReadInv` says why they miss the line: once the length is loaded (`eax`), `index`
is not below it, since with the echo off nothing is erased; and it is above it from the
moment before the 0 is stored.  The keys of the line ascend, are behind those of the lines
before, and include those echoed.  No number of a key is 0, so the cells before the end hold
keys, of which those in `nul` have the byte 0.  Theorems: `LineIsTerminated`, `EchoReachesProgram`,
`KeysInOrder`.

`StorageProofs`, the disk: `DiskInv` says that until the first error `ci` holds at most the command
the driver waits for, and that after it the controller does nothing; that the command built
is the one for the sector at hand, with the buffer filled for it; and that what has left `ci`
is on the disk.  The last is for a controller that goes by the FIS: with one that goes by the header the other
parts hold, and with them the other two theorems.  Only the first two together make the search
for a free slot sound:
`find_cmdslot` reads `ci` once, and what it finds free must stay so until the command is
issued.  Theorems: `WrittenIsStored`, `SlotNotReused`, `BufferNotOverwritten`.

`StorageProofs`, the files: `TarInvariant` says that the table has, in order, a node for each
header that `init_tarfs` has passed, with the member's name and kind and the directory it is
in (`NodesInv`), and that a descriptor holds the number of the file it was opened for
(`FdInv`).  That `parse` finds the directory is a fact about names, not about the table
(`Cut`): the last slash before the position at which the search begins is the end of the
directory's name, for files as for directories.  The three ways in which the code rounds a
size to blocks come to the same header.  The walk of `getFile` is a recursive function; that
it comes from one header to the next is shown by looking at the least number of steps after
which it does not.  Theorems: `OpenDisturbsNone`, `ReadsOwn`, `Lookups`, `LsShows`.

`ConsoleProofs`: `ScreenBound` proves `VideoOnScreen`.  The column and row alone do
not bound the address: the invariant says how far it may be ahead of them, one cell
for each row above, for the 81st character that `write` puts in a row; the timer
handler keeps that bound for the cursor it saved, and one of its own while it draws.

`ClockRowIsKept` proves `TextBelowClock`, whose violation takes a whole line of erasing: at
the time of the scroll that prepares it nothing is wrong.  So the invariant looks ahead: there
is a row that the keys that can still be erased do not reach beyond, and in whose first column
the address would be below the clock (`Floor`).  A scroll in the middle of a line finds that row by
`ScreenAssumption`.

`AllocatorProofs`, the heap: the blocks lie in the order of the list, each with its node behind
it, all below the break, and what `sb_malloc` gave lies between them; the marks in
the list agree with what the program holds.  `ClearsOnlyItsOwn` follows, and
`HeapImplementsBlocks`: a reused block meets nothing else the program holds, a new
one starts at the break.  That addresses differ makes `free` find the block it is
given.

`ShellProofs`: none of the three properties is inductive, since the string from which the
next word is taken is not the line that was typed.  `ShellInv` is the account of the
difference.  While a line of words is carried out, the string is that line and one blank for
each call of `split` (`WordsInv`); while a plain script is, the buffer is its text and a
newline for each line carried out and for the test of the shebang, and `i1` is the number of
these lines (`Carrying`).  What `split` makes of such a string is lemma `SplitTidy`: the blanks
stand behind the last word, so the n-th piece is still the n-th word, and all pieces behind the
last one are empty.  It rests on lemmas about counting: `Count` takes every value up to its last
one, so `Place` is defined, and the separators behind the line are counted one by one
(`PaddedCount`).  That the words make up the line again (`EndedWords`) is shown by naming all
prefixes the concatenation goes through.  `pwd` is the name of a directory (`PwdInv`), through
any paths, because what `chdir` is asked for starts with a slash, is empty or starts with a 0,
and no directory has either of the last two for a name.  Names of different directories differ
(`DirNameInjective`), so `ls` opens one.  TLC checked `ShellInv` on the instance of `shell`
before it was proved.  Theorems: `ShellInvariant`, `ArgumentsAreWords`, `LsOpensOne`,
`ScriptsLineByLine`.

The library's well-foundedness theorem gives that a non-empty set of naturals has a least
element (`LeastNat`); where the proofs need it, it takes the place of inductions.

Only model-checked:
- the liveness properties `WaitReturns`, `EnterEndsRead`, `TestEndsOrFails` and
  `AccessCompletes`: liveness under fairness is out of the prover's reach;
- `SpaceRefinement` of `PageTables` and `CdResolves` of `WorkingDirectory`, which say what a
  fold over a sequence comes to (the pages boot and fork map one after the other, the
  components of a path).  The community modules define folds by recursion over sets of
  indices and state no theorems about them; an argument by least elements, as for `getFile`,
  was not carried through for these two.

## Not modelled

Left out:
- the boot loader's Forth scripts (vendored), the constants of the descriptor tables and
  the set-up assembly (straight-line code; what it decides, interrupt gates, is in guards);
- the layout of registers and records: `include/sys/ahci.h`, the order of the registers in
  a trap frame, the slot at `kstack + 232`;
- number formatting in `kprintf` and `printf`, and the
  programs that print what a call returned (`cat`, `echo`, `ps`, `sleep`, `hello`);
- code nothing calls: `exit()`, `freemm`, `kfree`, `deletePagetable`, `sys_close`, `sleepSyscall`, the
  pipes and variables of the shell, which are commented out;
- the sizes of fixed strings: a line longer than the 512 bytes of the keyboard buffer or
  the 30 bytes of the shell's, the 20 bytes into which `ls` copies `pwd` (`ls.c:39`), which a
  path of 20 characters overruns, more than 512 files in the archive, a file longer than the
  buffer it is read into (`readSyscall` copies the larger of the file's size and the length
  asked for), transfers of more than 16 sectors.  The models stop at these bounds: what the
  code does beyond them depends on what the linker put there.
