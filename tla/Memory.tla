------------------------------- MODULE Memory -------------------------------
(***************************************************************************)
(* The page allocator of src/kernel/memory.cpp as the processes use it:    *)
(* the three address pools, the page table of the kernel, and for each     *)
(* process the page directory, the pages of the bitmap of its address      *)
(* pool, the page table and the page of its stack.  Every operation runs   *)
(* with interrupts disabled and is one action; the processor changes hands *)
(* between them.  A pool hands out its lowest free run (FirstFit.tla).     *)
(*                                                                         *)
(* The first page table of the kernel's pages is in every page directory;  *)
(* each further one is made when a directory first needs it, in this       *)
(* directory only, and passed on to those that are copied from it later.   *)
(***************************************************************************)
EXTENDS Integers, FiniteSets

CONSTANTS
  Processes,     \* the PCBs that processes can have, numbered from 1
  KernelPages,   \* length of kernelPhysical and kernelVirtual (memory.cpp:35)
  TablePages,    \* kernel pages of the first page table, those below 0xc0400000
  TableEntries,  \* and of each further one, 1024 in the code
  UserPages,     \* length of userPhysical
  PoolPages      \* pages of the bitmap of a user address pool (23 in the code)

ASSUME MemoryAssumption ==
  /\ Processes \subseteq Nat \ {0}
  /\ KernelPages \in Nat /\ TablePages \in Nat /\ UserPages \in Nat
  /\ PoolPages \in Nat \ {0} /\ TableEntries \in Nat \ {0}

VARIABLES
  kernel,         \* kernelPhysical, kernelVirtual, the entries of the kernel's
                  \* page tables and which further ones each directory has
  userPhysical,   \* the frames allocated in the user's physical pool
  running,        \* the process that has the processor, 0 the kernel thread
  phase,          \* of each PCB
  parentPid,
  pageDirectoryAddress,   \* of each process: the kernel page of its directory
  pool,                   \* first of the kernel pages of its userVirtual bitmap
  pageTable, stack,       \* the frames of its page table and of its stack
  failed                  \* history: has a creation been given up half way?

owned == <<pageDirectoryAddress, pool, pageTable, stack>>
vars == <<kernel, userPhysical, running, phase, parentPid, owned, failed>>

\* Frames are numbered through both pools, the kernel's first (memory.cpp:39).
KernelFrames == 0 .. (KernelPages - 1)
UserFrames == KernelPages .. (KernelPages + UserPages - 1)
Frames == KernelFrames \cup UserFrames
None == -1
Stopped == -1   \* nobody runs: the machine has been halted,
Faulted == -2   \* or has faulted on a kernel page
First == -2     \* the first page table of the kernel's pages
Directories == Processes \cup {0}   \* 0 is the kernel's, PAGE_DIRECTORY

Run(v, n) == v .. (v + n - 1)

\* Element number i of a set of numbers, counted from 0.
Nth(S, i) == CHOOSE f \in S : Cardinality({g \in S : g < f}) = i

\* The value 0 of a field of a PCB, or of allocatePhysicalPages, is None here.
Lowest(S) == IF S = {} THEN None ELSE Nth(S, 0)

-----------------------------------------------------------------------------
\* BitMap::allocate on the pool of kernel virtual pages.
AllocateVirtualPages(k, n) ==
  Lowest({v \in 0 .. (KernelPages - n) : Run(v, n) \cap k.virtual = {}})

\* The page tables behind the first one are counted from 0; the pool needs these.
TableNumber(v) == (v - TablePages) \div TableEntries
Further == {TableNumber(v) : v \in {w \in KernelFrames : w >= TablePages}}

\* The page table that has the entry of kernel page v in directory d.
TableFor(k, d, v) == IF v < TablePages THEN First ELSE k.pde[d][TableNumber(v)]

\* The frame the processor finds for page v in directory d.
FrameAt(k, d, v) ==
  IF \E f \in KernelFrames : <<TableFor(k, d, v), v, f>> \in k.entries
  THEN CHOOSE f \in KernelFrames : <<TableFor(k, d, v), v, f>> \in k.entries
  ELSE None

Reaches(k, d, pages) == \A v \in pages : FrameAt(k, d, v) # None

\* The entries once those of some pages in the directory in use have been cleared.
Cleared(k, pages) ==
  {e \in k.entries : ~(e[2] \in pages /\ e[1] = TableFor(k, running, e[2]))}

\* allocatePages(KERNEL, n) in the directory in use: the pages' address, and the
\* kernel's memory after it.  The frames are allocated one by one, and behind that
\* of a page the one of its page table, if the directory has none; each page's
\* entry is overwritten.  When they run out, the pages and frames are released
\* again and the entries written so far cleared, but neither are those page
\* tables released nor a frame that lacks one.
AllocatePages(k, n) ==
  LET v == AllocateVirtualPages(k, n)
      free == KernelFrames \ k.physical
      lacking == {i \in 0 .. (n - 1) : TableFor(k, running, v + i) = None}
      needs == {i \in lacking :
                  \A j \in lacking : j < i => TableNumber(v + j) # TableNumber(v + i)}
      before(i) == i + Cardinality({j \in needs : j < i})
      page(i) == Nth(free, before(i))
      done == {i \in 0 .. (n - 1) : before(i + 1) <= Cardinality(free)}
      tables(t) == {Nth(free, before(i) + 1) :
                      i \in {j \in needs \cap done : TableNumber(v + j) = t}}
      lost == {page(i) : i \in {j \in needs \ done : before(j) < Cardinality(free)}}
      made == [k EXCEPT
                 !.physical = @ \cup lost \cup UNION {tables(t) : t \in Further},
                 !.pde[running] = [t \in Further |->
                   IF tables(t) = {} THEN k.pde[running][t] ELSE Lowest(tables(t))]]
  IN  IF v = None
      THEN [address |-> None, mem |-> k]
      ELSE IF done # 0 .. (n - 1)
      THEN [address |-> None,
            mem |-> [made EXCEPT !.entries = Cleared(made, {v + i : i \in done})]]
      ELSE [address |-> v,
            mem |-> [made EXCEPT
                       !.physical = @ \cup {page(i) : i \in done},
                       !.virtual = @ \cup Run(v, n),
                       !.entries = Cleared(made, Run(v, n)) \cup
                                     {<<TableFor(made, running, v + i), v + i, page(i)>> :
                                        i \in done}]]

\* Mutant of ReleasePages: the page table entries are left as they are.
ReleasePagesKeepsEntries(k, v, n) ==
  [k EXCEPT !.physical = @ \ {FrameAt(k, running, x) : x \in Run(v, n)},
            !.virtual = @ \ Run(v, n)]

\* releasePages(KERNEL, v, n) in the directory in use.  A page without an entry
\* there releases address 0, a bit in front of the bitmaps that is not modelled.
ReleasePages(k, v, n) ==
  [k EXCEPT !.physical = @ \ {FrameAt(k, running, x) : x \in Run(v, n)},
            !.virtual = @ \ Run(v, n),
            !.entries = Cleared(k, Run(v, n))]

Ceil(dividend, divisor) == (dividend + divisor - 1) \div divisor

\* The kernel frame that BitMap::set frees when frame f of the kernel is released
\* to userPhysical.  Its index there is negative, and userPhysical's bitmap lies
\* behind kernelPhysical's (memory.cpp:44): a bit number 0 is a bit of the
\* latter; a negative one shifts 1 out of the byte (the i386's shift by 32 + o).
StrayRelease(f) ==
  IF (KernelPages - f) % 8 = 0
  THEN {8 * (Ceil(KernelPages, 8) - (KernelPages - f) \div 8)}
  ELSE {}

-----------------------------------------------------------------------------
Init ==
  /\ kernel = [physical |-> {}, virtual |-> {}, entries |-> {},
                pde |-> [d \in Directories |-> [t \in Further |-> None]]]
  /\ userPhysical = {}
  /\ running = 0
  /\ phase = [p \in Processes |-> "free"]
  /\ parentPid = [p \in Processes |-> 0]
  /\ pageDirectoryAddress = [p \in Processes |-> None]
  /\ pool = [p \in Processes |-> None]
  /\ pageTable = [p \in Processes |-> None]
  /\ stack = [p \in Processes |-> None]
  /\ failed = FALSE

\* Mutant of FreeUserFrames: the pool gives out one frame behind its last.
FreeUserFramesBeyond == (UserFrames \cup {KernelPages + UserPages}) \ userPhysical

\* The frames AddressPool::allocate chooses from for userPhysical.
FreeUserFrames == UserFrames \ userPhysical

\* allocatePCB
AllocatePCB ==
  {p \in Processes : /\ phase[p] = "free"
                     /\ \A q \in Processes : phase[q] = "free" => p <= q}

\* What executeProcess gets for process p (a set of one record): the page directory,
\* with the kernel's page tables as the directory in use has them then, and the
\* pages of the bitmap.  What was allocated before a failure is not given back.
Creation(p) ==
  LET directories == {AllocatePages(kernel, 1)}
      copied(d) == [d.mem EXCEPT !.pde[p] = d.mem.pde[running]]
  IN UNION {IF d.address = None THEN {[directory |-> None, pool |-> None, mem |-> d.mem]}
            ELSE {[directory |-> d.address, pool |-> b.address, mem |-> b.mem] :
                    b \in {AllocatePages(copied(d), PoolPages)}} : d \in directories}

Created(new) == new.pool # None

\* The page of copyProcess through which pages are copied.
Buffers(new) == {AllocatePages(new.mem, 1)}

\* Mutant of BitmapPages: all pages of the bitmap, and one behind it.
BitmapPagesBeyond(p) == Run(pool[p], PoolPages + 1)

\* The pages of the bitmap that copyProcess copies and exit releases: an eighth,
\* as its length is taken for bits that counts the bytes (program.cpp:327).
BitmapPages(p) == Run(pool[p], Ceil(PoolPages, 8))

\* The PCB p as executeProcess or fork leaves it.
NewProcess(p, new, parent, ph, table, page) ==
  /\ phase' = [phase EXCEPT ![p] = ph]
  /\ parentPid' = [parentPid EXCEPT ![p] = parent]
  /\ pageDirectoryAddress' = [pageDirectoryAddress EXCEPT ![p] = new.directory]
  /\ pool' = [pool EXCEPT ![p] = new.pool]
  /\ pageTable' = [pageTable EXCEPT ![p] = table]
  /\ stack' = [stack EXCEPT ![p] = page]
  /\ failed' = (failed \/ ph \in {"noload", "nocopy"})

ExecuteProcess ==
  /\ running = 0
  /\ \E p \in AllocatePCB :
       \E new \in Creation(p) :
         /\ NewProcess(p, new, 0, IF Created(new) THEN "load" ELSE "noload", None, None)
         /\ kernel' = new.mem
  /\ UNCHANGED <<userPhysical, running>>

\* Kernel pages that are used in a directory that does not have them, or not the
\* page table they are in: of the bitmap when a page is allocated for the stack;
\* of the parent's bitmap in fork, or the buffer in the child's directory; of
\* what exit releases.
LoadFaults == ~Reaches(kernel, running, {pool[running]})

CopyFaults(new) == ~Reaches(new.mem, running, BitmapPages(running))
BufferFaults(p, buffer) ==
  /\ buffer.address # None /\ Cardinality(FreeUserFrames) >= 2
  /\ ~Reaches(buffer.mem, p, {buffer.address})
ForkFaults(p, new, buffer) == Created(new) /\ (CopyFaults(new) \/ BufferFaults(p, buffer))

ExitFaults ==
  \/ ~Reaches(kernel, running, {pageDirectoryAddress[running]})
  \/ \E v \in BitmapPages(running) : TableFor(kernel, running, v) = None

\* load_process: a page for the stack, and from the kernel's frames one for the
\* page table it needs; without them the machine is halted, with the frame of
\* the stack still allocated if only the page table is missing.
LoadProcess ==
  LET page == Lowest(FreeUserFrames)
      table == Lowest(KernelFrames \ kernel.physical)
  IN  /\ running > 0 /\ phase[running] = "load" /\ ~LoadFaults
      /\ userPhysical' = userPhysical \cup ({page} \ {None})
      /\ IF page # None /\ table # None
         THEN /\ kernel' = [kernel EXCEPT !.physical = @ \cup {table}]
              /\ pageTable' = [pageTable EXCEPT ![running] = table]
              /\ stack' = [stack EXCEPT ![running] = page]
              /\ phase' = [phase EXCEPT ![running] = "user"]
              /\ UNCHANGED <<running, failed>>
         ELSE /\ running' = Stopped
              /\ failed' = TRUE
              /\ UNCHANGED <<kernel, pageTable, stack, phase>>
      /\ UNCHANGED <<parentPid, pageDirectoryAddress, pool>>

\* copyProcess when executeProcess has failed; when there is no page for the
\* buffer; when the user's frames run out for the page table or the page, and
\* the buffer is kept; and when it succeeds, and the buffer is released.
ForkNoLoad(p, new) ==
  /\ ~Created(new)
  /\ NewProcess(p, new, 0, "noload", None, None)
  /\ kernel' = new.mem
  /\ UNCHANGED userPhysical

ForkNoBuffer(p, new, buffer) ==
  /\ Created(new)
  /\ buffer.address = None
  /\ NewProcess(p, new, running, "nocopy", None, None)
  /\ kernel' = buffer.mem
  /\ UNCHANGED userPhysical

ForkNoFrames(p, new, buffer) ==
  /\ Created(new)
  /\ buffer.address # None
  /\ Cardinality(FreeUserFrames) < 2
  /\ NewProcess(p, new, running, "nocopy", Lowest(FreeUserFrames), None)
  /\ kernel' = buffer.mem
  /\ userPhysical' = UserFrames

\* Mutant of ForkCopies: the entry of the page keeps the parent's frame.
ForkCopiesTable(p, new, buffer) ==
  LET table == Lowest(FreeUserFrames)
  IN  /\ Created(new)
      /\ buffer.address # None
      /\ Cardinality(FreeUserFrames) >= 2
      /\ NewProcess(p, new, running, "user", table, stack[running])
      /\ kernel' = ReleasePages(buffer.mem, buffer.address, 1)
      /\ userPhysical' = userPhysical \cup {table}

ForkCopies(p, new, buffer) ==
  LET table == Lowest(FreeUserFrames)
      page == Lowest(FreeUserFrames \ {table})
  IN  /\ Created(new)
      /\ buffer.address # None
      /\ Cardinality(FreeUserFrames) >= 2
      /\ NewProcess(p, new, running, "user", table, page)
      /\ kernel' = ReleasePages(buffer.mem, buffer.address, 1)
      /\ userPhysical' = userPhysical \cup {table, page}

\* fork of a process that has its stack; PCBs may be out.
Fork ==
  /\ running > 0 /\ phase[running] = "user"
  /\ \E p \in AllocatePCB : \E new \in Creation(p) : \E buffer \in Buffers(new) :
       /\ ~ForkFaults(p, new, buffer)
       /\ \/ ForkNoLoad(p, new)
          \/ ForkNoBuffer(p, new, buffer)
          \/ ForkNoFrames(p, new, buffer)
          \/ ForkCopies(p, new, buffer)
  /\ UNCHANGED running

\* schedule() gives the processor to another process, whose page directory it
\* looks up in the one in use, with the kernel's memory as mem.  A process whose
\* creation was given up stops the machine: it faults, or finds no pool for its
\* stack.
SwitchTo(mem) ==
  \/ running # 0 /\ running' = 0
  \/ \E p \in Processes \ {running} :
       /\ phase[p] \in {"load", "user"}
       /\ running' = IF Reaches(mem, running, {pageDirectoryAddress[p]}) THEN p ELSE Faulted
  \/ /\ \E p \in Processes : phase[p] \in {"noload", "nocopy"}
     /\ running' = Stopped

\* Mutant of ExitReleases: the page table is not released.
ExitReleasesPageOnly(p) ==
  LET directory == ReleasePages(kernel, pageDirectoryAddress[p], 1)
      bitmap == ReleasePages(directory, pool[p], Cardinality(BitmapPages(p)))
  IN  /\ kernel' = bitmap
      /\ userPhysical' = userPhysical \ {stack[p]}

\* The memory that exit gives back.  The page table goes to userPhysical, also
\* when it came from the kernel's frames (program.cpp:606).
ExitReleases(p) ==
  LET directory == ReleasePages(kernel, pageDirectoryAddress[p], 1)
      bitmap == ReleasePages(directory, pool[p], Cardinality(BitmapPages(p)))
      stray == IF pageTable[p] \in KernelFrames THEN StrayRelease(pageTable[p]) ELSE {}
  IN  /\ kernel' = [bitmap EXCEPT !.physical = @ \ stray]
      /\ userPhysical' = userPhysical \ {stack[p], pageTable[p]}

\* exit, and the schedule() at its end.
ProcessExit ==
  /\ running > 0 /\ phase[running] = "user" /\ ~ExitFaults
  /\ ExitReleases(running)
  /\ phase' = [phase EXCEPT ![running] = "zombie"]
  /\ SwitchTo(kernel')
  /\ UNCHANGED <<parentPid, owned, failed>>

\* Mutant of Reap: the page directory is released once more.
ReapReleases ==
  /\ running > 0 /\ phase[running] = "user"
  /\ \E p \in Processes :
       /\ phase[p] \in {"zombie", "nocopy"}
       /\ parentPid[p] = running
       /\ phase' = [phase EXCEPT ![p] = "free"]
       /\ kernel' = ReleasePages(kernel, pageDirectoryAddress[p], 1)
  /\ UNCHANGED <<userPhysical, running, parentPid, owned, failed>>

\* wait of the parent releases the PCB, and no memory.
Reap ==
  /\ running > 0 /\ phase[running] = "user"
  /\ \E p \in Processes :
       /\ phase[p] \in {"zombie", "nocopy"}
       /\ parentPid[p] = running
       /\ phase' = [phase EXCEPT ![p] = "free"]
  /\ UNCHANGED <<kernel, userPhysical, running, parentPid, owned, failed>>

Dispatch ==
  /\ running \notin {Stopped, Faulted}
  /\ SwitchTo(kernel)
  /\ UNCHANGED <<kernel, userPhysical, phase, parentPid, owned, failed>>

\* The unhandled page fault stops the machine in the middle of the operation.  Of
\* what that has done by then only fork's allocations of kernel pages are kept:
\* nothing runs that could look at the rest.
Fault ==
  /\ running > 0
  /\ \/ phase[running] = "load" /\ LoadFaults /\ UNCHANGED kernel
     \/ phase[running] = "user" /\ ExitFaults /\ UNCHANGED kernel
     \/ /\ phase[running] = "user"
        /\ \E p \in AllocatePCB : \E new \in Creation(p) : \E buffer \in Buffers(new) :
             /\ ForkFaults(p, new, buffer)
             /\ kernel' = IF CopyFaults(new) THEN new.mem ELSE buffer.mem
  /\ running' = Faulted
  /\ UNCHANGED <<userPhysical, phase, parentPid, owned, failed>>

\* asm_halt: the machine is stopped, or first_thread idles.
Halted == running \in {Stopped, Faulted, 0} /\ UNCHANGED vars

Next ==
  \/ ExecuteProcess \/ LoadProcess \/ Fork \/ ProcessExit \/ Reap \/ Dispatch
  \/ Fault \/ Halted

Spec == Init /\ [][Next]_vars

-----------------------------------------------------------------------------
TypeOK ==
  /\ kernel.physical \subseteq KernelFrames
  /\ kernel.virtual \subseteq KernelFrames
  /\ kernel.entries \subseteq ({First} \cup KernelFrames) \X KernelFrames \X KernelFrames
  /\ kernel.pde \in [Directories -> [Further -> KernelFrames \cup {None}]]
  /\ userPhysical \subseteq UserFrames
  /\ running \in Processes \cup {0, Stopped, Faulted}
  /\ phase \in [Processes -> {"free", "load", "user", "noload", "nocopy", "zombie"}]
  /\ parentPid \in [Processes -> Processes \cup {0}]
  /\ pageDirectoryAddress \in [Processes -> KernelFrames \cup {None}]
  /\ pool \in [Processes -> KernelFrames \cup {None}]
  /\ pageTable \in [Processes -> Frames \cup {None}]
  /\ stack \in [Processes -> UserFrames \cup {None}]
  /\ failed \in BOOLEAN

\* The processes whose memory is in use.
Live == {p \in Processes : phase[p] \in {"load", "user"}}

\* The kernel pages and the frames process p has.
PagesOf(p) == {pageDirectoryAddress[p]} \cup Run(pool[p], PoolPages)

FramesOf(v) == {e[3] : e \in {f \in kernel.entries : f[2] = v}}

FurtherTables ==
  ((UNION {{kernel.pde[d][t] : t \in Further} : d \in Directories})
     \cup {e[1] : e \in kernel.entries}) \ {None, First}

Owns(p) == (UNION {FramesOf(v) : v \in PagesOf(p)}) \cup ({pageTable[p], stack[p]} \ {None})

\* Processes share no memory, and no frame serves two purposes: each maps "to
\* different physical addresses" (note.md:170), not the parent and the child of
\* a fork (note.md:183), nor the next owner of a frame that was released and one
\* that still uses it.  The count has the exception that KernelTable has.
PrivateMemory ==
  /\ (failed => FurtherTables = {}) =>
       \A p \in Live :
         Cardinality(Owns(p)) = 1 + PoolPages + IF phase[p] = "user" THEN 2 ELSE 0
  /\ \A p, q \in Live : p # q => Owns(p) \cap Owns(q) = {}
  /\ \A p \in Live : Owns(p) \cap FurtherTables = {}

\* What a live process uses is allocated: exit and a creation that failed give
\* back nothing that belongs to somebody else (program.cpp:569, memory.cpp:205).
OwnedIsAllocated ==
  \A p \in Live :
    /\ Owns(p) \subseteq kernel.physical \cup userPhysical
    /\ PagesOf(p) \subseteq kernel.virtual

\* The kernel's page tables, taken together, have one entry for each of its
\* virtual pages that is allocated, for no other, and no frame twice, whichever
\* directories were in use when it was allocated and when it is released
\* (memory.cpp:173-260, 275-291).  A creation that fails when there is more than
\* one table is the exception: it may leave a new one in a process that does
\* not reach its own bitmap, whose exit then forgets the frame of it.
KernelTable ==
  /\ \A e \in kernel.entries : e[3] \in kernel.physical \ FurtherTables
  /\ FurtherTables \subseteq kernel.physical
  /\ \A e, f \in kernel.entries : e[3] = f[3] => e = f
  /\ (failed => FurtherTables = {}) =>
       /\ kernel.virtual = {e[2] : e \in kernel.entries}
       /\ \A e, f \in kernel.entries : e[2] = f[2] => e = f

\* As long as the first page table suffices, kernel code reaches the pages of any
\* process in any directory: no operation and no switch faults (memory.cpp:242,
\* program.cpp:296-302, 388).
FirstTableIsShared == running = Faulted => FurtherTables # {}

\* exit gives back the frame the process finds its page directory in and all of
\* the users' frames it has, and no frame that is somebody else's
\* (program.cpp:582-617).
ExitReleasesItsOwn ==
  [][\A p \in Processes :
       phase[p] = "user" /\ phase'[p] = "zombie" =>
         LET released == (kernel.physical \cup userPhysical)
                           \ (kernel'.physical \cup userPhysical')
         IN /\ released \subseteq Owns(p)
            /\ FrameAt(kernel, p, pageDirectoryAddress[p]) \in released
            /\ Owns(p) \cap UserFrames \subseteq released]_vars
=============================================================================
