-------------------------------- MODULE Paging --------------------------------
(***************************************************************************)
(* The page tables of src/kernel/memory.cpp and src/kernel/program.cpp as  *)
(* words in the frames of the physical memory, read and written as the     *)
(* kernel does: through the page tables that are in use.  The last entry   *)
(* of a page directory is the directory itself, so that the page tables    *)
(* are pages of the address space, too.                                    *)
(*                                                                         *)
(* A page is a pair <<i, j>>: entry j of the page table in entry i of the  *)
(* directory.  An entry is the number of a frame, or 0 if it is not        *)
(* present.  Frames never run out here, as they may in Memory.tla, nor     *)
(* do the kernel's pages outgrow their first page table.                   *)
(***************************************************************************)
EXTENDS Integers, FiniteSets

CONSTANTS
  Processes,     \* numbered from 1
  Entries,       \* the entries of a page table, 1024 in the code
  KernelIndex,   \* the directory's entry of the kernel's page table, 768
  KernelPages,   \* the pages of the kernel's pools; the table has one more
  UserPages,     \* the frames of the user's pool
  ByteBits,      \* the units in a byte of a pool's bitmap, 8
  UserPage,      \* the page of USER_VADDR_START
  Data,          \* bound: what programs write
  Leftover       \* what the frames of the pools hold at first

ASSUME PagingAssumption ==
  /\ Processes \subseteq Nat \ {0}
  /\ {Entries, KernelIndex, KernelPages, UserPages, ByteBits, Leftover} \subseteq Nat
  /\ 0 < KernelIndex /\ KernelIndex < Entries - 1 /\ KernelPages < Entries
  /\ ByteBits # 0 /\ KernelPages % ByteBits = 0   \* as with more than 16 MB (Memory.tla)
  /\ UserPage \in (1 .. KernelIndex - 1) \X (0 .. Entries - 1)

Offsets == 0 .. Entries - 1
Self == Entries - 1
Low == 1                     \* the first megabyte, with the kernel
PAGE_DIRECTORY == 2          \* of the kernel, and its page table behind it
KernelFrames == 4 .. 3 + KernelPages
UserFrames == 4 + KernelPages .. 3 + KernelPages + UserPages
Frames == 1 .. 3 + KernelPages + UserPages
Words == {0, Leftover} \cup Frames \cup Data

VARIABLES
  word,       \* the words of each frame
  cr3,        \* the page directory in use
  tlb,        \* the pages the processor may remember, with their frames
  faulted,    \* has a page been used that is not there?
  running,    \* the process that has the processor, 0 the kernel thread
  phase,      \* of each PCB
  pageDirectoryAddress,   \* the kernel page of each process's directory
  kernelVirtual, kernelPhysical, userPhysical,   \* the pools: what is allocated
  copy        \* of the fork in progress: its child, buffer and progress
vars == <<word, cr3, tlb, faulted, running, phase, pageDirectoryAddress,
          kernelVirtual, kernelPhysical, userPhysical, copy>>

NoCopy == [child |-> 0, buffer |-> 0, done |-> {}]

Least(S) == CHOOSE x \in S : \A y \in S : x <= y

Idle == copy = NoCopy /\ ~faulted

-----------------------------------------------------------------------------
\* What the processor makes of page p when directory c is in use, 0 if nothing.
Walk(m, c, p) == IF m[c][p[1]] = 0 THEN 0 ELSE m[m[c][p[1]]][p[2]]

\* Word k of page p is set to x; the whole page is set.
Store(m, c, p, k, x) == [m EXCEPT ![Walk(m, c, p)][k] = x]
StorePage(m, c, p, content) == [m EXCEPT ![Walk(m, c, p)] = content]

\* The page tables as pages: toPDE gives a word of the first, toPTE of the other.
Directory == <<Self, Self>>
TableOf(p) == <<Self, p[1]>>

vaddr2paddr(m, c, p) == m[Walk(m, c, TableOf(p))][p[2]]

\* Page number v of the kernel's pools.
KernelPage(v) == <<KernelIndex, v>>

\* Pages that are used in the directory in use; then those that fork uses in its
\* child's, and the processor forgets all of them when cr3 is set back.
Use(pages) ==
  /\ tlb' = tlb \cup {<<p, Walk(word', cr3, p)>> : p \in pages}
  /\ faulted' = \E p \in pages : Walk(word', cr3, p) = 0

UseInBoth(pages, child, childPages) ==
  /\ tlb' = {}
  /\ faulted' = \/ \E p \in pages : Walk(word', cr3, p) = 0
                \/ \E p \in childPages : Walk(word', child, p) = 0

FreePages == (1 .. KernelPages) \ kernelVirtual

FreeKernelFrames == KernelFrames \ kernelPhysical
FreeUserFrames == UserFrames \ userPhysical

\* connectPhysicalVirtualPage for a kernel page, whose page table is there.
Connect(m, v, f) == Store(m, cr3, TableOf(KernelPage(v)), v, f)

\* Mutant of NewDirectory: its last entry is copied like the others.
NewDirectoryCopied(m, v) ==
  [k \in Offsets |-> IF k >= KernelIndex THEN m[Walk(m, cr3, Directory)][k] ELSE 0]

\* createProcessPageDirectory: the words of the directory on page v.
NewDirectory(m, v) ==
  [k \in Offsets |-> IF k = Self THEN vaddr2paddr(m, cr3, KernelPage(v))
                     ELSE IF k >= KernelIndex THEN m[Walk(m, cr3, Directory)][k]
                     ELSE 0]

-----------------------------------------------------------------------------
\* open_page_mechanism of the boot loader, and the pools of initialize.
Init ==
  /\ word = [f \in Frames |->
               IF f = PAGE_DIRECTORY
               THEN [k \in Offsets |-> IF k \in {0, KernelIndex} THEN PAGE_DIRECTORY + 1
                                       ELSE IF k = Self THEN PAGE_DIRECTORY ELSE 0]
               ELSE IF f = PAGE_DIRECTORY + 1
               THEN [k \in Offsets |-> IF k = 0 THEN Low ELSE 0]
               ELSE [k \in Offsets |-> Leftover]]
  /\ cr3 = PAGE_DIRECTORY
  /\ tlb = {} /\ faulted = FALSE
  /\ running = 0
  /\ phase = [p \in Processes |-> "free"]
  /\ pageDirectoryAddress = [p \in Processes |-> 0]
  /\ kernelVirtual = {} /\ kernelPhysical = {} /\ userPhysical = {}
  /\ copy = NoCopy

\* A process p with a page directory, by executeProcess.
Create(p) ==
  LET v == Least(FreePages)
      f == Least(FreeKernelFrames)
  IN  /\ phase[p] = "free"
      /\ \E m \in {Connect(word, v, f)} :
           word' = StorePage(m, cr3, KernelPage(v), NewDirectory(m, v))
      /\ Use({TableOf(KernelPage(v)), Directory, KernelPage(v)})
      /\ pageDirectoryAddress' = [pageDirectoryAddress EXCEPT ![p] = v]
      /\ kernelVirtual' = kernelVirtual \cup {v}
      /\ kernelPhysical' = kernelPhysical \cup {f}

ExecuteProcess ==
  /\ Idle /\ running = 0
  /\ FreePages # {} /\ FreeKernelFrames # {}
  /\ \E p \in Processes :
       Create(p) /\ phase' = [phase EXCEPT ![p] = "load"]
  /\ UNCHANGED <<cr3, running, userPhysical, copy>>

\* allocatePages(USER, 1) of load_process: a frame for the page, and one of the
\* kernel's for the page table, which is cleared.
LoadProcess ==
  LET f == Least(FreeUserFrames)
      t == Least(FreeKernelFrames)
  IN  /\ Idle /\ running > 0 /\ phase[running] = "load"
      /\ FreeUserFrames # {} /\ FreeKernelFrames # {}
      /\ \E m \in {Store(word, cr3, Directory, UserPage[1], t)} :
           word' = StorePage(m, cr3, TableOf(UserPage),
                             [k \in Offsets |-> IF k = UserPage[2] THEN f ELSE 0])
      /\ Use({Directory, TableOf(UserPage)})
      /\ userPhysical' = userPhysical \cup {f}
      /\ kernelPhysical' = kernelPhysical \cup {t}
      /\ phase' = [phase EXCEPT ![running] = "user"]
      /\ UNCHANGED <<cr3, running, pageDirectoryAddress, kernelVirtual, copy>>

\* The program writes to its page.
UserWrites ==
  /\ Idle /\ running > 0 /\ phase[running] = "user"
  /\ \E x \in Data : word' = Store(word, cr3, UserPage, 0, x)
  /\ Use({UserPage})
  /\ UNCHANGED <<cr3, running, phase, pageDirectoryAddress, kernelVirtual,
                 kernelPhysical, userPhysical, copy>>

-----------------------------------------------------------------------------
Read(p, k) == word[Walk(word, cr3, p)][k]

\* The page directories of parent and child, as fork has them.
ParentPage == KernelPage(pageDirectoryAddress[running])
ChildPage == KernelPage(pageDirectoryAddress[copy.child])
Child == vaddr2paddr(word, cr3, ChildPage)

\* The page tables and the pages of the parent, by its page directory.
UserTables == {i \in 0 .. KernelIndex - 1 : Read(ParentPage, i) # 0}

MappedPages == {p \in UserTables \X Offsets : Read(TableOf(p), p[2]) # 0}

\* fork by the running process, for which there is enough memory: first the
\* child's page directory.
Fork ==
  /\ Idle /\ running > 0 /\ phase[running] = "user"
  /\ Cardinality(FreePages) > 1 /\ Cardinality(FreeKernelFrames) > 1
  /\ Cardinality(UserTables) + Cardinality(MappedPages) <= Cardinality(FreeUserFrames)
  /\ \E p \in Processes :
       /\ Create(p)
       /\ phase' = [phase EXCEPT ![p] = "copied"]
       /\ copy' = [NoCopy EXCEPT !.child = p]
  /\ UNCHANGED <<cr3, running, userPhysical>>

Copying == copy.child # 0 /\ ~faulted

\* The buffer page, through which contents are copied.
ForkBuffer ==
  LET v == Least(FreePages)
      f == Least(FreeKernelFrames)
  IN  /\ Copying /\ copy.buffer = 0
      /\ FreePages # {} /\ FreeKernelFrames # {}
      /\ word' = Connect(word, v, f)
      /\ Use({TableOf(KernelPage(v)), ParentPage, ChildPage})
      /\ copy' = [copy EXCEPT !.buffer = v]
      /\ kernelVirtual' = kernelVirtual \cup {v}
      /\ kernelPhysical' = kernelPhysical \cup {f}
      /\ UNCHANGED <<cr3, running, phase, pageDirectoryAddress, userPhysical>>

\* What is to be copied: the page tables first, each named by its page.
Uncopied == ({TableOf(<<i, 0>>) : i \in UserTables} \cup MappedPages) \ copy.done

\* Mutant of ForkTable: the page table is cleared before cr3 is the child's.
ForkTableCleared ==
  LET i == Least({p[2] : p \in {q \in Uncopied : q[1] = Self}})
      f == Least(FreeUserFrames)
  IN  /\ Copying /\ copy.buffer # 0 /\ FreeUserFrames # {}
      /\ \E p \in Uncopied : p[1] = Self
      /\ \E m \in {Store(word, Child, ChildPage, i, f)} :
           word' = StorePage(m, cr3, <<Self, i>>, [k \in Offsets |-> 0])
      /\ UseInBoth({ParentPage}, Child, {ChildPage, <<Self, i>>})
      /\ copy' = [copy EXCEPT !.done = @ \cup {<<Self, i>>}]
      /\ userPhysical' = userPhysical \cup {f}
      /\ UNCHANGED <<cr3, running, phase, pageDirectoryAddress, kernelVirtual, kernelPhysical>>

\* The next page table of the parent: the child gets an empty one.
ForkTable ==
  LET i == Least({p[2] : p \in {q \in Uncopied : q[1] = Self}})
      f == Least(FreeUserFrames)
  IN  /\ Copying /\ copy.buffer # 0 /\ FreeUserFrames # {}
      /\ \E p \in Uncopied : p[1] = Self
      /\ \E m \in {Store(word, Child, ChildPage, i, f)} :
           word' = StorePage(m, Child, <<Self, i>>, [k \in Offsets |-> 0])
      /\ UseInBoth({ParentPage}, Child, {ChildPage, <<Self, i>>})
      /\ copy' = [copy EXCEPT !.done = @ \cup {<<Self, i>>}]
      /\ userPhysical' = userPhysical \cup {f}
      /\ UNCHANGED <<cr3, running, phase, pageDirectoryAddress, kernelVirtual, kernelPhysical>>

\* Mutant of ForkPage: the child's directory is never used.
ForkPageStays ==
  /\ Copying /\ copy.buffer # 0 /\ FreeUserFrames # {}
  /\ \A p \in Uncopied : p[1] # Self
  /\ \E p \in Uncopied :
       /\ word' = Store(word, cr3, TableOf(p), p[2], Least(FreeUserFrames))
       /\ tlb' = tlb \cup {<<p, Walk(word, cr3, p)>>}
       /\ userPhysical' = userPhysical \cup {Least(FreeUserFrames)}
       /\ copy' = [copy EXCEPT !.done = @ \cup {p}]
  /\ UNCHANGED <<cr3, faulted, running, phase, pageDirectoryAddress, kernelVirtual, kernelPhysical>>

\* The next page: its content goes to the buffer, then, with the child's
\* directory in use, from the buffer to the frame the child gets for it.
ForkPage ==
  /\ Copying /\ copy.buffer # 0 /\ FreeUserFrames # {}
  /\ \A p \in Uncopied : p[1] # Self
  /\ \E p \in Uncopied :
       /\ \A q \in Uncopied : p[1] * Entries + p[2] <= q[1] * Entries + q[2]
       /\ LET f == Least(FreeUserFrames)
              buffer == KernelPage(copy.buffer)
          IN /\ \E filled \in {StorePage(word, cr3, buffer, word[Walk(word, cr3, p)])} :
                \E mapped \in {Store(filled, Child, TableOf(p), p[2], f)} :
                  word' = StorePage(mapped, Child, p, mapped[Walk(mapped, Child, buffer)])
             /\ UseInBoth({ParentPage, TableOf(p), p, buffer}, Child, {TableOf(p), p, buffer})
             /\ userPhysical' = userPhysical \cup {f}
       /\ copy' = [copy EXCEPT !.done = @ \cup {p}]
  /\ UNCHANGED <<cr3, running, phase, pageDirectoryAddress, kernelVirtual, kernelPhysical>>

\* releasePages(KERNEL, v, 1), of which the frame is vaddr2paddr's.
ForkReturns ==
  /\ Copying /\ copy.buffer # 0 /\ Uncopied = {}
  /\ word' = Connect(word, copy.buffer, 0)
  /\ kernelPhysical' = kernelPhysical \ {vaddr2paddr(word, cr3, KernelPage(copy.buffer))}
  /\ kernelVirtual' = kernelVirtual \ {copy.buffer}
  /\ Use({TableOf(KernelPage(copy.buffer)), ParentPage}
           \cup {TableOf(<<i, 0>>) : i \in UserTables})
  /\ phase' = [phase EXCEPT ![copy.child] = "user"]
  /\ copy' = NoCopy
  /\ UNCHANGED <<cr3, running, pageDirectoryAddress, userPhysical>>

-----------------------------------------------------------------------------
\* schedule() and activateProgramPage: the directory of the next process is
\* looked up in the one in use, also when that has just been released.
SwitchTo(m) ==
  \E p \in (Processes \cup {0}) \ {running} :
    /\ p # 0 => phase[p] \in {"load", "user"}
    /\ running' = p
    /\ cr3' = IF p = 0 THEN PAGE_DIRECTORY
              ELSE vaddr2paddr(m, cr3, KernelPage(pageDirectoryAddress[p]))
    /\ tlb' = {}

Dispatch ==
  /\ Idle /\ SwitchTo(word)
  /\ UNCHANGED <<word, faulted, phase, pageDirectoryAddress, kernelVirtual,
                 kernelPhysical, userPhysical, copy>>

\* Mutant of FramesOf: the page tables are not counted.
FramesOfPages == {vaddr2paddr(word, cr3, p) : p \in MappedPages}

\* The frames that exit finds: of the pages, and of the page tables, whose
\* addresses it also gets from vaddr2paddr.
FramesOf ==
  {vaddr2paddr(word, cr3, p) : p \in MappedPages}
    \cup {vaddr2paddr(word, cr3, TableOf(<<i, 0>>)) : i \in UserTables}

\* Those of the kernel's frames, page tables, that the release to the user's pool
\* frees: bit 0 of a byte in front of the user's bitmap is the frame's own bit in
\* the kernel's, and any other release there changes nothing (Memory!StrayRelease).
Strays == {f \in FramesOf \cap KernelFrames : (4 + KernelPages - f) % ByteBits = 0}

\* exit gives the frames to the user's pool, and the page directory to the kernel's.
ProcessExit ==
  LET v == pageDirectoryAddress[running]
  IN  /\ Idle /\ running > 0 /\ phase[running] = "user"
      /\ userPhysical' = userPhysical \ FramesOf
      /\ kernelPhysical' = kernelPhysical \ (Strays \cup {vaddr2paddr(word, cr3, KernelPage(v))})
      /\ kernelVirtual' = kernelVirtual \ {v}
      /\ word' = Connect(word, v, 0)
      /\ phase' = [phase EXCEPT ![running] = "zombie"]
      /\ SwitchTo(word')
      /\ UNCHANGED <<faulted, pageDirectoryAddress, copy>>

\* wait releases a PCB; whose child it was makes no difference to its memory.
Reap ==
  /\ Idle /\ running > 0 /\ phase[running] = "user"
  /\ \E p \in Processes :
       phase[p] = "zombie" /\ phase' = [phase EXCEPT ![p] = "free"]
  /\ UNCHANGED <<word, cr3, tlb, faulted, running, pageDirectoryAddress,
                 kernelVirtual, kernelPhysical, userPhysical, copy>>

\* asm_halt at the end of first_thread, or after a fault.
Halted == (running = 0 \/ faulted) /\ UNCHANGED vars

Next ==
  \/ ExecuteProcess \/ LoadProcess \/ UserWrites
  \/ Fork \/ ForkBuffer \/ ForkTable \/ ForkPage \/ ForkReturns
  \/ Dispatch \/ ProcessExit \/ Reap \/ Halted

Spec == Init /\ [][Next]_vars

-----------------------------------------------------------------------------
TypeOK ==
  /\ word \in [Frames -> [Offsets -> Words]]
  /\ cr3 \in {PAGE_DIRECTORY} \cup KernelFrames
  /\ faulted \in BOOLEAN /\ running \in Processes \cup {0}
  /\ phase \in [Processes -> {"free", "load", "user", "copied", "zombie"}]
  /\ pageDirectoryAddress \in [Processes -> 0 .. KernelPages]
  /\ kernelVirtual \subseteq 1 .. KernelPages
  /\ kernelPhysical \subseteq KernelFrames /\ userPhysical \subseteq UserFrames

\* Every word is what it should be, and no page is used that is not there:
\* whichever directory is in use, the kernel finds the page tables, its own pages
\* and those of the other directories (memory.cpp:235-272, program.cpp:284-308,
\* 505-560).
NoFault == TypeOK /\ ~faulted

\* What the processor remembers of a page is what the tables say, as long as they
\* say anything: no entry is changed, nor taken back and made again with another
\* frame, before cr3 is loaded the next time.  The code never invalidates a page
\* (memory.cpp:285-287, program.cpp:510-515).
CachedIsCurrent ==
  \A e \in tlb : Walk(word, cr3, e[1]) \in {0, e[2]}

\* The frame of the page directory of process p, found in the kernel's table.
RootOf(p) == Walk(word, PAGE_DIRECTORY, KernelPage(pageDirectoryAddress[p]))

\* The frames that the user's part of a page directory reaches.
Reached(c) ==
  LET tables == {word[c][i] : i \in 0 .. KernelIndex - 1} \ {0}
  IN tables \cup UNION {{word[t][j] : j \in Offsets} \ {0} : t \in tables}

Live == {p \in Processes : phase[p] \in {"load", "user", "copied"}}

\* The frames of the user's pool that are allocated are exactly those that the
\* page tables of the processes reach, each from one process only: fork takes one
\* for each table and page, exit returns them all (program.cpp:489-562, 586-607).
UserFramesAreReached ==
  /\ userPhysical = (UNION {Reached(RootOf(p)) : p \in Live}) \cap UserFrames
  /\ \A p, q \in Live : p # q => Reached(RootOf(p)) \cap Reached(RootOf(q)) = {}

\* What process p sees of its page.
Memory(p) == LET f == Walk(word, RootOf(p), UserPage)
             IN IF f = 0 THEN [k \in Offsets |-> 0] ELSE word[f]

A == INSTANCE AddressSpaces WITH
       Values <- Words,
       space <- [p \in Processes |-> IF phase[p] = "user" THEN Memory(p) ELSE <<>>]

\* A program that reads and writes its page through its page directory has memory
\* of its own: fork copies the parent's and nothing but its own writes changes it
\* (program.cpp:435-567; note.md:183).
ImplementsAddressSpaces == A!Spec
=============================================================================
