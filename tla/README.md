# Yat-OS in TLA+

Yat-OS is a teaching kernel for one i386 processor: it boots, turns on paging,
creates a kernel thread, the thread creates a process, and processes `fork`,
`exit` and `wait` through system calls. This directory holds TLA+ modules that
model its core, TLC configurations that check them on small instances, and
proofs of the most important properties for every value of the constants.

Paths below are relative to the root of the repository.

## 1. Inventory

| component | code | state it keeps | operations |
|---|---|---|---|
| bitmap allocator | `src/utils/bitmap.cpp` | one bit per unit | `initialize`, `get`, `set`, `allocate`, `release` |
| address pool | `src/utils/adress_pool.cpp` | a bitmap and a start address | `allocate`, `release` |
| lists | `src/utils/list.cpp` | links inside the items | `push_*`, `pop_*`, `insert`, `erase`, `at`, `find`, `size` |
| threads, scheduler | `src/kernel/program.cpp`, `interrupt.cpp` | `PCB_SET`, the PCBs, `allPrograms`, `readyPrograms`, `running` | `executeThread`, `schedule`, timer handler, `program_exit` |
| processes | `src/kernel/program.cpp` | `parentPid`, page directory, TSS of the PCBs | `executeProcess`, `load_process`, `fork`, `exit`, `wait` |
| memory manager | `src/kernel/memory.cpp` | three address pools, page tables | `allocatePages`, `releasePages` and their parts |
| spin lock, semaphore | `src/kernel/sync.cpp` | `bolt`; `counter`, `waiting`, `semLock` | `lock`, `unlock`, `P`, `V` |
| interrupts | `src/kernel/interrupt.cpp`, `asm_utils.asm` | IDT, interrupt flag, tick count | enable, disable, handlers |
| system calls | `src/kernel/syscall.cpp` | the dispatch table | `write`, `fork`, `exit`, `wait`, `move_cursor` |
| console | `src/kernel/stdio.cpp` | cursor, screen memory | `print`, `moveCursor`, `rollUp`, `printf` |
| library | `src/utils/stdlib.cpp` | none | `memset`, `memcpy`, `strcpy`, `itos`, `ceil` |
| kernel start | `src/kernel/setup.cpp` | the global objects | `setup_kernel`, `first_thread`, `first_process` |
| boot | `src/boot/` | the kernel's page directory and first page table | load the kernel, protected mode, `open_page_mechanism` |
| shell | `src/kernel/shell.cpp` | none | prints a banner |

**How they interact.** There is one processor; everything shared is shared
through memory, and what interleaves is the timer interrupt. `schedule()`
moves PCBs between `running` and `readyPrograms`; a semaphore moves the same
PCBs, by the same links, to its `waiting` list and `MESA_WakeUp` moves them
back. `executeProcess` builds on `executeThread`, `fork` on `executeProcess`;
each of them then asks the memory manager for pages, which asks its address
pools, which ask their bitmaps. `exit` gives the pages back and leaves a DEAD
PCB, which the parent's `wait` releases. Critical sections are written as
"disable interrupts, work, restore the flag".

**What is hard.**

* Interrupts are *enabled* in places a reader does not expect: between
  `status = DEAD` and `schedule()` in `program_exit` (`program.cpp:184-187`);
  behind the `sti` of `asm_switch_thread` (`asm_utils.asm:237`), still inside
  `schedule()`, so that calls of `schedule()` nest on one stack; everywhere in
  a system call (`asm_utils.asm:357`); in `P` and `V`, which rely on their
  spin lock only.
* A creation passes through up to six allocations, puts the PCB on the ready
  list before most of them, and undoes nothing when one fails.
* PCBs are used again. Whatever still names an old one, a `parentPid` or a
  link of a list, then names the new one.
* `List` keeps no record of membership: a wrong `push_back` damages a list
  without a trace, and `erase` leaves stale links.
* Frames, virtual pages and page table entries are released by addresses read
  from page tables that are going away, each to a pool the caller must know.
* Page tables are reached through themselves, so what an address of a page
  table means depends on the page directory in use; `fork` changes it twice for
  every page it copies, and nothing ever invalidates a single translation.
* A page table for kernel pages behind the first 4 MB is entered into one page
  directory only.
* The cursor of the console is two registers behind a port that selects one:
  four accesses to read it, four to write it, with interrupts enabled.

**What makes each component correct.** The allocator hands out the first free
run and only free units. A list is a sequence. The ready list holds exactly
the READY threads, each once, in the order of arrival; `allPrograms` holds
exactly the allocated PCBs; one thread runs, in its own address space; a
finished thread never runs again and its PCB is released once, when nobody
uses it; a ready thread runs some day. `wait` returns a child of the caller
that has exited, and does return. Processes share no memory, what is in use is
allocated, what is not in use returns to its pool. The lock excludes, the
counter does not wrap, no waiter and no wake-up is lost, nobody spins for a
holder that cannot run. The console's cursor stays on the screen and is moved
by one writer at a time.

`PROJECT.json` lists the hazards one by one, with their lines.

## 2. Modules and how they correspond to the code

```
FirstFit  <--implements--  BitMap
ListSpec  <--implements--  List --> IntrusiveList <-- Semaphore
Scheduler <-- Process
Memory
AddressSpaces <--implements-- Paging
Teletype <--implements-- Printf --> Console <-- SharedConsole
MC<module>: what TLC checks
<module>Proofs: what TLAPS proves of BitMap, List, Scheduler and Process
                (ProcessProofs), Memory, Paging, Semaphore, Printf and
                SharedConsole (ConsoleProofs)
```

**`FirstFit`** is what an allocator of runs promises. **`BitMap`** is
`bitmap.cpp` with one action per iteration of each loop of `allocate`; its
variables are the bytes of the storage, the function's locals and the loop it
is in. `BitMap` implements `FirstFit` under the mapping "allocated = units
whose bit is 1".

**`IntrusiveList`** has the operations of `list.cpp` as functions from links
to links (`next` and `previous` of items and list heads), as they are in
memory: an item that was erased keeps its links. **`List`** drives several
lists that share their items through every operation in any order (`size`,
`back`, `at` and `find` change nothing and are used inside the others);
**`ListSpec`** is what `list.h` promises, one sequence of items per list, and
`call` in both makes each operation answer for its own effect.

**`Scheduler`** has `executeThread`, the timer handler, `schedule` and
`program_exit` for kernel threads. A section that runs with interrupts
disabled is one action; the two windows named above are visible, as `pc =
"exit"` and as `frames`, the interrupt flags that the `schedule()` calls
pending on a stack will restore. `PushBack` does what the code does to an item
that is on the list already (run `list` checks that against the links).
`priority` and `ticks` are the code's, with `Quantum` for its factor 10. A
thread that is not released but switched out for ever (a DEAD process) has no
frames.

**`Process`** EXTENDS `Scheduler`, uses its `Switch`, `TimerInterrupt` and
`FinishSchedule`, and adds `executeProcess`, `load_process`, `fork`, `exit`
and `wait` (whose loop enables interrupts in every turn, so it has a `pc` for
its head and for the call of `schedule()`). Memory is one bit here: an
allocation succeeds or, if `MemoryFails`, may fail. `failed` is a history
variable: has a creation been given up half way?

**`Memory`** is the other half of creation and exit: frames, virtual pages,
page tables. Each operation is one action, as it runs with interrupts
disabled; `Dispatch` stands for the scheduler. The kernel's memory is one
record (`physical`, `virtual`, `entries` of the page tables, and `pde`, the
further page tables of each directory) that `AllocatePages` and `ReleasePages`
map to the next one (an entry that is made again or cleared takes the place of
the old one, `Cleared`), so that a creation is the composition of the calls the
code makes, cut off at the first that fails. A process has one page of its own,
its stack: its code is part of the kernel. `TablePages` is the number of kernel
pages in the first page table, which all directories share; each further
table is for `TableEntries` pages (1024 in the code), any number of which one
allocation may need. A page behind the first table is reached only in a directory
that has the table for it, and everywhere else its use is a fault (`LoadFaults`, `CopyFaults`, `BufferFaults`,
`ExitFaults`, `SwitchTo`). `StrayRelease` is `BitMap::set` at a negative index,
in the build of `build/makefile`: what happens when a frame of the kernel's
pool is released to the users' pool.

**`Paging`** takes the part of `Memory` that `Memory` takes for granted: how
the kernel reaches page tables. The variable `word` is the physical memory,
`cr3` the page directory in use, `tlb` the translations the processor may
remember. Every read and write of the kernel goes through `Walk`, what the
processor makes of an address; `TableOf` and `Directory` are the addresses that
`toPTE` and `toPDE` compute. `copyProcess` is one action per page table and per
page, each of which enters the child's directory and returns. `Init` is what
`open_page_mechanism` of the boot loader leaves. Frames do not run out here, one
page table is enough for the kernel's pages, and the bitmap of a process's
address pool takes no pages; all this is `Memory`'s subject. What `exit` does to a
page table from the kernel's frames is here, too (`Strays`, with `ByteBits` for
the 8 bits of a byte): the release of some frees their frame, of others nothing. `Paging`
implements **`AddressSpaces`**, in which every process has memory of its own
that `fork` copies, under the mapping "the words a process finds at its page".

**`Console`** is `print`, `getCursor`, `moveCursor` and `rollUp` with one
action per access to a port or to the memory of the screen, for any number of
writers. **`Printf`** adds `printf` and `itos` for one writer, with the buffer,
and implements **`Teletype`**: text appears at the cursor, lines wrap, the
screen scrolls. Characters are numbers; a format is a sequence of directives
with their arguments. The mapping undoes the access in progress (`before`) and
takes what is still in the arguments, the buffer and the digits as text to
come. **`SharedConsole`** lets several writers print and move the cursor.

**`Semaphore`** is `sync.cpp` statement by statement, with `MESA_WakeUp` and
`push_front` statement by statement on the links in memory, and `schedule()`
as one action (it disables interrupts). Threads `1..N` call `P` and `V` as they
like; thread 0 is always ready. `InterruptsOff` selects the usage: callers
that have disabled interrupts, or callers that have not. No code of the
repository calls `P` or `V`, so neither is the usage of the repository. The
second is the one `sync.cpp` seems to mean, since it takes a spin lock; its
hazards are `semaphore_lock`'s and `semaphore_blocked`'s subject. The first rules
out every switch inside `P` and `V` but that of `schedule()`: it shows what the
algorithm does across that one, and nothing about the windows of the other.

**Proof modules.** One per component: `BitMapProofs`, `ListProofs`,
`ProcessProofs` (`Scheduler` first, then `Process`, which EXTENDS it),
`MemoryProofs`, `PagingProofs`, `SemaphoreProofs` and `ConsoleProofs`.
`QueueTheorems` has the lemmas they share: sequences without repetition
(`Append`, `Tail`, `RemoveFirst`, an item inserted or removed at a position,
prefixes, rotation), the least element of a set of naturals, and links: what a
loop along them reads (`ListWalk`, `ListRead`), and which links an insertion or
a removal changes. `ConsoleProofs` EXTENDS `Printf` and takes `SharedConsole` by
INSTANCE; it begins with what it needs about functions defined by recursion,
about numerals and about joined texts.

## 3. Runs

Every bound is a constant or a set in a configuration; TLC explores the whole
state space within it. Deadlock is checked in every run: a machine that has
stopped stutters (`Halted`, `Stopped`, `Hung`, `Spin`).

| run | instance | question and answer |
|---|---|---|
| `bitmap` | 9 units, requests of 0 to 3 | Is a run ever skipped, exceeded or refused in error, and does the loop end? 9 units are two bytes, one of them partly used. It is right. |
| `list` | 3 items, 2 lists, both symmetric, positions 0 to 3 | Do lists that share items behave as sequences, with links that agree in both directions? Three items give every case of first, middle, last; position 3 is beyond the end. They do. |
| `scheduler` | 3 PCBs, quantum 1, priorities 1 and 2, 2 nested calls | Do creation, timer, yield, exit and nested `schedule()` keep lists and statuses in step, is the rotation fair, is an exit final? Three PCBs fill `PCB_SET` and leave two to change places; two nested calls are the first depth at which a frame lies under another. The first thread may return here. All hold. |
| `process` | 4 PCBs, quantum 1, failures of memory | Do `fork`, `exit` and `wait` keep lists, address spaces and PCBs right, and does `wait` collect its children? Kernel thread, parent, two children or child and grandchild. The list of all programs and the address space stay right in all behaviours, the others as long as no creation fails half way. |
| `process_lost` | same | Is a READY process always on the ready list? **No**, see below. |
| `memory` | 3 processes, 16 kernel pages, 11 of them in the first page table and 2 in each further one, 4 user pages, 2 bitmap pages | Do processes ever share a frame, is one in use ever free, do page tables and pools stay in step, when does the kernel fault? 16 and 4 are few enough for every allocation to fail in some behaviour, and three processes need pages of further tables, of which two pages each make one allocation need several. Private memory, a consistent kernel table, `exit` releases only its own; a fault comes only after a further page table has been made. |
| `paging` | 2 processes, tables of 7 words, 4 kernel and 4 user pages, bytes of 2 bits | Does each process see its own memory and nothing else, whatever directory the kernel works in? Seven words are two for user tables (one of them empty), one for the kernel's, one for the directory itself. Two processes fork each other in turn, so that a process whose page table came from the users' frames forks and exits, too. With bytes of 2 bits `exit` frees some page tables from the kernel's frames and not others. It is right, without a single stale translation. |
| `console` | 3 x 2 cells, registers of 4 values, a buffer of 2, ints of 5 bits, 2 calls | Does the text on the screen equal the text asked for, for all directives, numbers of each length and sign, across every position of the buffer and the screen? The last cell is 5 in registers of 4 as 1999 is in registers of 256: both halves matter. It does. |
| `console_torn` | 2 writers, same screen | Does the cursor stay on the screen with two writers? **No.** |
| `semaphore` | 4 threads, at most 2 permits, interrupts disabled | Are waiters or wake-ups lost across the switches of `schedule()`, does anybody spin for ever? Four threads give two waiters behind a holder and a waker. No. |
| `semaphore_lock` | 2 threads, interrupts enabled | At any switch, is the lock exclusive and the counter safe, and does anybody go to sleep beside a permit that a `V` has given in between? It is, and nobody does, even when a list has been torn. |
| `semaphore_blocked` | same, no permit | Can a lock holder become unable to run? **Yes.** |

**Findings** (a run shows each; `PROJECT.json` quotes the lines).

1. `process_lost`: a `fork` that fails after `executeThread` leaves its child
   DEAD on the ready list. `wait` releases that PCB, the next `fork` links it a
   second time, and all processes behind it are cut off the list
   (`program.cpp:661`, `list.cpp:46`).
2. `semaphore_blocked`: `P` marks the thread BLOCKED before it unlocks; a timer
   interrupt in between leaves the lock taken for ever (`sync.cpp:68-70`).
3. `console_torn`: two writers, switched between two port accesses, put the
   cursor behind the screen, where `print`'s test for equality (`stdio.cpp:40`)
   never meets it and `moveCursor` refuses to bring it back (`stdio.cpp:98-136`).

More shows in the models without a run of its own.

* `executeThread` returns with interrupts disabled when no PCB is free
  (`program.cpp:60`); that is why `ReadyRuns` excuses a machine with interrupts
  disabled.
* A first thread that returned could be switched out before it is recognised
  and halted (`program.cpp:184-194`); it would be released like any other, and
  `scheduler`, where it may return, shows that this harms no list.
* A pid that is used again gets the children of its former owner from `wait`
  (`program.cpp:642`).
* `V` changes the ready list outside the lock. With interrupts enabled
  `MESA_WakeUp` can be torn and READY threads lost (`sync.cpp:87`). Callers that
  disable interrupts exclude it; the code asks that of nobody.
* `exit` returns 3 of the 23 bitmap pages: the length of the bitmap is taken for
  bits where it counts bytes (`program.cpp:327, 611`). A page table that came
  from the kernel's frames goes to the users' pool (`memory.cpp:245`,
  `program.cpp:606`), where the release has no effect for most frames. It
  frees no frame that is in use only because the number of kernel pages is a
  multiple of 8, as it always is with more than 16 MB (memory is counted in
  units of 64 KB there): with a `KernelPages` that is not one, TLC finds
  `OwnedIsAllocated` violated.
* Once the kernel's pages need a further page table (about 768 pages, some
  thirty processes with what exits leave behind), a process, or `schedule()`
  itself, faults on a page of another directory (`memory.cpp:250`), against the
  sharing that `note.md:172` describes. A creation that fails then can leave
  its process without a way to its bitmap, and exit forgets a frame.

**Fairness.** `FairSpec` and `FairProcessSpec` assume weak fairness of the
timer (it is periodic hardware) and of straight-line kernel code
(`FinishSchedule`, `Exit`): the processor does not stop. For the loop of
`wait`, strong fairness of each process's next step: the section between two
schedulings is a few hundred instructions, a time slice is at least ten ticks,
so a process that is dispatched again and again gets through it. Nothing is
assumed of programs: that a process exits, yields or creates another is up to
it. `BitMap` assumes that the loop of `allocate` keeps running, which it does
with interrupts disabled. `Printf` assumes weak fairness of the thread that
prints: nothing blocks it, so the rotation (`ReadyRuns`) reaches it again and
again. `Paging` and `Memory` state safety only and assume no fairness.

## 4. Proofs

TLAPS proves these for every value of the constants that satisfies the named
assumptions of the modules.

* **Bitmap** (any length, any request): type correctness, `NothingSkipped`,
  and that `BitMap` implements `FirstFit`. The inductive invariant is `TypeOK`,
  `NothingSkipped` and `PaddingClear` together. `NothingSkipped` says why the
  scan may jump behind a run that is too short: every start before `index`
  (before `start`, inside the counting loop) is refuted by a unit already
  seen. The refinement then takes one step per action: `TakeRun` is a grant,
  because nothing was skipped, `NotFound` a refusal, `Call` and `Release` are
  themselves, all others stutter. `PaddingClear` is a theorem of its own: the
  bits behind `Length` in the last byte stay 0.
* **Scheduler** (any number of PCBs, any nesting, also when the first thread
  returns): type correctness, `ReadyQueue`, `AllPrograms`, `OneRunning`. None
  of the three lists of facts is inductive alone; together they are, as each
  tells what the others need: that `running` is not on the ready list, that a
  PCB on it is allocated and not DEAD, that only the running thread is DEAD.
  `ExitNeverReturns`: if the first thread does not return, `schedule()` called
  from `program_exit` never comes back; the invariant adds that pid 0 is
  READY whenever it does not run, so that the ready list is not empty.
  `FirstInFirstOut` is an action property: a step leaves the ready list, takes
  its head, appends to it, or does both, so that no thread overtakes another.
* **Processes** (any number of PCBs, allocations that fail or do not):
  `ProcessTypeOK`, `AddressSpace`, `ExitIsFinal`, `QueueIntact` and the action
  property `ReleasedIsUnused`. A creation given up half way destroys the
  invariant of the scheduler, so there are two layers. What holds always:
  nothing is queued twice, the running thread is not queued, everything queued
  is allocated and READY but for PCBs whose creation was given up
  (`QueuedPCBs`), and the processor is held by a RUNNING thread or by such a
  PCB on its way to a stop (`RunningPCB`, `KernelThread`, `Directories`). That
  is enough for the address space. What holds while no creation has been given
  up is `WhileWhole`, and it gives the others; finding 1 is what it excludes.
* **Lists** (any finite set of items, any lists): that `List` implements
  `ListSpec`, `Mirrored` and `PushedTwice`. The invariant says that the links
  are those of the sequences the loops of `list.cpp` read from them, and that no
  item is on two lists (`ListsAre`). Every operation is an insertion at a place
  or a removal, and one lemma each (`Spliced`, `TakenOut`) says that the links
  after it are those of the sequence `ListSpec` promises, and that the other
  lists' links are none of those it wrote. That the loops read this sequence is
  shown without induction: of the positions at which they would read something
  else there would be a least one, and the link before it leads to the right
  item. `PushedTwice` confirms what `Scheduler!PushBack` does to an item
  that is on the list already.
* **Memory** (any numbers of processes, pages and frames): `TypeOK`,
  `PrivateMemory`, `OwnedIsAllocated`, `KernelTable`, `FirstTableIsShared` and
  the action property `ExitReleasesItsOwn`. The invariant has three parts that
  need each other. `KernelOK`: page tables and mapped frames are allocated, no
  frame is mapped twice, every kernel page in use is mapped. `Owners`: the
  frames of live processes are allocated and differ. `Unfailed`: what a process
  has besides, as long as no creation was given up and nothing has faulted. An
  allocation that stops in the middle leaves `KernelOK` intact, so the lemmas
  about `AllocatePages` and `ReleasePages` hold after every call of a creation
  and not only at its end. `AllocatePagesFacts` is about the
  allocation itself, with any number of further page tables on the way: the frame
  number `before(i)` is that of page `i`, so no frame is taken twice
  (`BeforeNext`, `BeforeDiffers`). The theorems assume `KernelPages % 8 = 0`: without it
  they are false (see above), and with more than 16 MB of memory it holds.
* **Paging** (any numbers of processes, of entries of a page table, of kernel
  pages and of frames, any place of the user page): `NoFault`, `CachedIsCurrent`,
  `UserFramesAreReached` and that `Paging` implements `AddressSpaces`. The
  invariant is about the words themselves. `KernelPart`: the kernel's page table
  maps each of its pages in use to a frame of its own. `Roots`: every process
  has a directory on such a page, with the kernel's table and itself in its last
  entries, so that the addresses of `toPDE` and `toPTE` lead where they should.
  `Trees`: a frame is reached by one page or page table of one process, and all
  allocated frames of the user's pool are reached; that is why a write through
  one directory leaves the others alone. That `exit` frees no page table of another
  process when it releases one to the wrong pool rests on the assumption
  `KernelPages % ByteBits = 0`, the one `Memory` makes. `Copies`: the child of a `fork` has
  exactly the pages that are done, with what its parent has. `Remembered`: the
  processor remembers only pages that are not taken back before `cr3` is loaded
  (`Lasting`); the buffer of `fork` is what makes this delicate, as it is
  returned with no invalidation, but always used in the turn of the child's
  directory, whose end loads `cr3`. In the refinement `LoadProcess` is a load,
  `UserWrites` a write, `ForkReturns` the fork, `ProcessExit` the exit, and all
  else, with the whole loop of `copyProcess`, stutters.
* **Semaphore** (any number of threads). With interrupts enabled or not:
  `TypeOK`, `LockExclusion`, `NoUnderflow`, `SleepIsJustified`, from an invariant
  that ties `bolt` to the program counters and `counter` to the label `P_take` and
  to those behind a test that found no permit. It says nothing
  about the lists, so the theorems hold even where the lists are damaged, which
  finding 2 and the remark about `V` show to happen. Under the assumption that
  callers disable interrupts (`InterruptsOff`, a usage and no fact of the code):
  `NoLostWakeupTheorem`, which joins `SleepersAreFound` and `NoLostWakeup`, and
  `SpinWouldHang`, from the invariant `Undisturbed`. It has four parts: only the
  running thread is inside `P` or `V` (`Turns`), the status of every thread
  (`States`), which threads are on which list (`ListsHold`), and that threads on
  their way to the counter are enough for the permits (`Permits`). Between the statements of
  `push_front` the links of the ready list are torn; `Intact` is what they
  are once `temp` is linked again, and the invariant is about that list.
* **Console** (any screen that two registers can number, any length of the
  buffer, any width of an int, any formats and strings): `PrintfTypeOK`,
  `CursorOnScreen`, and that `Printf` is `Teletype` step by step
  (`TeletypeTheorem`). The invariant `IInv` has three parts. `CursorInv` says,
  for each point between two port accesses, which half is selected and what the
  registers hold, so that no high half of one position meets the low half of
  another. `PrintfInv` has the types, with `idx` inside the buffer and every
  character up to it written (`Flow`), and `Amount`: what has been counted, what
  `print` is counting and what is still to do make up the whole text, which
  is why the value returned is right. `InProgress` says what a character that
  is half done has changed: nothing before it is put, then the picture with it,
  in `rollUp` the cells up to the loop variable scrolled and the others not, at
  last the whole new picture and the position to move to. In the refinement the
  last port access of a character (`WriteLow`) shows it, `PrintAt` and the end of
  a `moveCursor` are themselves, a call asks for its text, and all else stutters:
  directives, flushes and digits only move text from the format through the
  buffer to `print`, in order.
  `ItosTheorem` is the part about numbers: sign and digits are the numeral of
  every int, also of the smallest one. The library's induction theorems cannot
  be used here, as they take an operator; `SetInduction` states induction as a
  fact about sets of numbers (of those without the property there would be a
  least one), which is enough for recursive functions: `Iteration` gives their
  existence and `Powers`, `DigitsRecursion` and `FlattenHead` their equations.
  `OneWriterTheorem` states the same of `SharedConsole`: with `Writers = {w}`
  the cursor stays on the screen whatever that writer prints. It is this
  hypothesis that finding 3 lacks.

Every safety invariant and every action property that a passing run checks is
proved. Only model-checked: liveness (`AllocateReturns`, `ReadyRuns`,
`WaitCollects`, and of `ImplementsTeletype` that all text is shown in the end),
which is out of this prover's reach; the three findings, which are
counterexamples.

## 5. Not modelled

Boot code other than its page tables and the programming of the 8259A, the IDT
and the GDT: straight-line code that runs once before anything else does. The
shell prints and halts. `getTotalMemory` and `MemoryManager::initialize` compute
the pools once; their sizes are constants here. `openPageMechanism` of
`memory.cpp` repeats the boot loader's and is never called. A NUL given to `%c` ends the
buffered text early (`stdio.cpp:234`): the formats have none. Colours. `printf` in user mode:
`out` at privilege level 3 with IOPL 0 (`program.cpp:356`, and a TSS without a
port map, `program.cpp:224`) is a general protection fault, so the writers of
`Console` are kernel threads and processes in a system
call. Names, return values and the copied registers of `fork`: no property here
tells them apart. `programManager`, `stdio` and the others are global objects
whose constructors do not run in this build; their `initialize` is what `Init`
stands for.

## 6. Plan

Done, in this order: allocator; scheduler; processes on top of it; lists;
semaphore; memory, then its further page tables; console; paging; the proofs of
each. Not done:

1. **Composition.** `Process` with `Memory` in place of `MemoryFails`, and with
   `Semaphore`'s windows in place of its atomic ready list.
2. **A NUL in a format**, once `stdio.h` or its callers say what it should mean.
